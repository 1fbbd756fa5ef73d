---------------------------- MODULE RunCtlProofs ----------------------------
(***************************************************************************)
(* Proofs about RunCtl: what an aborted, stopped or interrupted request    *)
(* leaves behind, wherever the timer's ticks cut in.                       *)
(***************************************************************************)
EXTENDS RunCtl, TLAPS

\* Outside the last part of daq_hal_run the ADC runs only under DAQ_RUN.
AdcUnderRun == pc \notin {"stat", "statw"} /\ adc # {} => "DAQ_RUN" \in status

\* cm_msg writes back a DAQ_RUN that is set if it is still set.
RegKeepsRun == pc \in {"open", "close"} /\ "DAQ_RUN" \in status => "DAQ_RUN" \in reg

\* In the stop branch every copy of the opcode that is still to be used says
\* stop: a tick can only have made it say so.
StopBranch ==
  mode = "STOP" =>
    /\ pc = "copy" => daq_op = "STOP"
    /\ pc \in {"pipe", "adc"} => hal_op = "STOP"
    /\ pc = "adcw" => reg = {}
    /\ pc \in {"stat", "statw"} => adc = {}

IInv == TypeOK /\ AdcUnderRun /\ RegKeepsRun /\ StopBranch

\* Without transmissions the pipe stream is like the ADC, one step earlier.
PInv ==
  /\ IInv
  /\ pc \notin {"adc", "adcw", "stat", "statw"} /\ ctl # {} => "DAQ_RUN" \in status
  /\ pc \in {"adc", "adcw", "stat", "statw"} /\ mode = "STOP" => ctl = {}
  /\ pc # "tx"

-----------------------------------------------------------------------------
\* The variables have their types in every state (the flags and the places
\* of daq_hal_run, cm_msg and opto_tx).
THEOREM TypeCorrect == Spec => []TypeOK
<1>1. Init => TypeOK
  BY DEF Init, TypeOK, Ops, Bits
<1>2. TypeOK /\ [Next]_vars => TypeOK'
  <2> SUFFICES ASSUME TypeOK, [Next]_vars PROVE TypeOK'
    OBVIOUS
  <2>1. CASE RegRead \/ RegWrite
    BY <2>1 DEF TypeOK, RegRead, RegWrite, At, words, ops, Bits
  <2>2. ASSUME NEW op \in Ops, RunReq(op) PROVE TypeOK'
    BY <2>2 DEF TypeOK, RunReq, At, words, ops
  <2>3. CASE HalRun
    BY <2>3 DEF TypeOK, Ops, Bits, HalRun, HalBranch, HalCopy, HalPipe, HalAdcCall, HalAdcWrite,
                HalStatusRead, HalStatusWrite, At, words, ops
  <2>4. CASE TxRead \/ TxWrite
    BY <2>4 DEF TypeOK, Bits, TxRead, TxWrite, At, words, ops
  <2>5. ASSUME NEW expired \in BOOLEAN, Tick(expired) PROVE TypeOK'
    BY <2>5 DEF TypeOK, Tick, Checked, Ops, ops
  <2>6. CASE HostChanges
    BY <2>6 DEF TypeOK, HostChanges, words, ops
  <2>7. CASE UNCHANGED vars
    BY <2>7 DEF TypeOK, vars
  <2> QED
    BY <2>1, <2>2, <2>3, <2>4, <2>5, <2>6, <2>7 DEF Next, Background
<1> QED
  BY <1>1, <1>2, PTL DEF Spec

\* The parts of the inductive invariant hold in the initial state, and every
\* step of the background, of the timer and of the host keeps them.
LEMMA StepKeepsIInv == ASSUME IInv, [Next]_vars, TypeOK' PROVE IInv'
<1> USE DEF IInv, AdcUnderRun, RegKeepsRun, StopBranch, TypeOK
<1>1. CASE RegRead \/ RegWrite
  BY <1>1 DEF RegRead, RegWrite, At, words, ops
<1>2. ASSUME NEW op \in Ops, RunReq(op) PROVE IInv'
  BY <1>2 DEF RunReq, At, words, ops
<1>3. CASE HalRun
  <2>1. CASE HalBranch
    BY <2>1 DEF HalBranch, At, words, ops
  <2>2. CASE HalCopy
    BY <2>2 DEF HalCopy, At, words, ops
  <2>3. CASE HalPipe
    BY <2>3 DEF HalPipe, At, words, ops
  <2>4. CASE HalAdcCall
    BY <2>4 DEF HalAdcCall, At, words, ops
  <2>5. CASE HalAdcWrite
    BY <2>5 DEF HalAdcWrite, At, words, ops
  <2>6. CASE HalStatusRead
    BY <2>6 DEF HalStatusRead, At, words, ops
  <2>7. CASE HalStatusWrite
    BY <2>7 DEF HalStatusWrite, At, words, ops, Ops
  <2> QED
    BY <1>3, <2>1, <2>2, <2>3, <2>4, <2>5, <2>6, <2>7 DEF HalRun
<1>4. CASE TxRead \/ TxWrite
  BY <1>4 DEF TxRead, TxWrite, At, words, ops
<1>5. ASSUME NEW expired \in BOOLEAN, Tick(expired) PROVE IInv'
  BY <1>5 DEF Tick, Checked, ops
<1>6. CASE HostChanges
  BY <1>6 DEF HostChanges, words, ops
<1>7. CASE UNCHANGED vars
  BY <1>7 DEF vars
<1> QED
  BY <1>1, <1>2, <1>3, <1>4, <1>5, <1>6, <1>7 DEF Next, Background

\* The ADC never samples where DAQ_RUN says that nothing runs and no request
\* is under way (daq_hal_run against daq_tick), with or without the ping
\* feature and whatever is transmitted.
THEOREM AdcAborts == Spec => []AdcStopped
<1>1. Init => IInv
  BY DEF Init, IInv, TypeOK, Ops, AdcUnderRun, RegKeepsRun, StopBranch
<1>2. IInv /\ [Next]_vars /\ TypeOK' => IInv'
  BY StepKeepsIInv
<1>3. IInv => AdcStopped
  BY DEF IInv, AdcUnderRun, AdcStopped
<1> QED
  BY <1>1, <1>2, <1>3, TypeCorrect, PTL DEF Spec

\* As long as nothing is transmitted the same holds of the link's pipe stream:
\* what the run that transmits finds is due to opto_tx alone.
THEOREM PipeAborts == ~Talk => (Spec => []PipeStopped)
<1> SUFFICES ASSUME ~Talk PROVE Spec => []PipeStopped
  OBVIOUS
<1>1. Init => PInv
  BY DEF Init, PInv, IInv, TypeOK, Ops, AdcUnderRun, RegKeepsRun, StopBranch
<1>2. PInv /\ [Next]_vars /\ TypeOK' => PInv'
  <2> SUFFICES ASSUME PInv, [Next]_vars, TypeOK' PROVE PInv'
    OBVIOUS
  <2>0. IInv'
    BY StepKeepsIInv DEF PInv
  <2> USE DEF PInv, IInv, TypeOK, AdcUnderRun, RegKeepsRun, StopBranch
  <2>1. CASE RegRead \/ RegWrite
    BY <2>0, <2>1 DEF RegRead, RegWrite, At, words, ops
  <2>2. ASSUME NEW op \in Ops, RunReq(op) PROVE PInv'
    BY <2>0, <2>2 DEF RunReq, At, words, ops
  <2>3. CASE HalRun
    BY <2>0, <2>3 DEF HalRun, HalBranch, HalCopy, HalPipe, HalAdcCall, HalAdcWrite,
                      HalStatusRead, HalStatusWrite, At, words, ops, Ops
  <2>4. CASE TxRead \/ TxWrite
    BY <2>4 DEF TxRead, TxWrite, At
  <2>5. ASSUME NEW expired \in BOOLEAN, Tick(expired) PROVE PInv'
    BY <2>0, <2>5 DEF Tick, Checked, ops
  <2>6. CASE HostChanges
    BY <2>0, <2>6 DEF HostChanges, words, ops
  <2>7. CASE UNCHANGED vars
    BY <2>0, <2>7 DEF vars
  <2> QED
    BY <2>1, <2>2, <2>3, <2>4, <2>5, <2>6, <2>7 DEF Next, Background
<1>3. PInv => PipeStopped
  BY DEF PInv, PipeStopped
<1> QED
  BY <1>1, <1>2, <1>3, TypeCorrect, PTL DEF Spec
=============================================================================
