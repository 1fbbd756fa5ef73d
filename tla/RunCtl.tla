------------------------------- MODULE RunCtl -------------------------------
(***************************************************************************)
(* Starting, stopping and aborting an acquisition: daq_msg and daq_hal_run *)
(* (nios/de0_fw/daq_srv) in the background loop, against cp_tick and       *)
(* daq_tick in the timer interrupt, which forces a stop when the host has  *)
(* gone, and opto_tx, which shares a control register with it.             *)
(*                                                                         *)
(* The flags are bits of words that the background reads, changes and      *)
(* writes back in separate instructions; a word is the set of its bits     *)
(* that are set.  opto_tx and opto_pipe mask the link's interrupt around   *)
(* that; nobody masks the timer's, so a tick comes between any two steps   *)
(* of the background, and is one step itself.                              *)
(***************************************************************************)
CONSTANTS Ping, \* gc.feature & CFG_FEATURE_PING
          Talk  \* whether the link transmits messages as well

ASSUME FlagAssumption == Ping \in BOOLEAN /\ Talk \in BOOLEAN

Ops  == {"RUN", "STOP"}
Bits == {"CONNECTED", "DAQ_RUN", "pipe_run", "run"}

VARIABLES status,  \* gc.status: CONNECTED and DAQ_RUN
          ctl,     \* the control register of the serial link: pipe_run
          adc,     \* the control register of the ADC: run
          daq_op,  \* sv.opcode of daq_srv.c
          hal_op,  \* sv.opcode of daq_hal.c
          pc,      \* where the background is
          mode,    \* the branch of daq_hal_run it is in
          reg,     \* the word it has read and will write back
          host     \* "there" when messages of the host arrive, else "gone"

words == <<status, ctl, adc>>
ops   == <<daq_op, hal_op>>
vars  == <<status, ctl, adc, daq_op, hal_op, pc, mode, reg, host>>

\* cm_init, daq_init, opto_init and adc_init
Init ==
  /\ status = {} /\ ctl = {} /\ adc = {}
  /\ daq_op = "STOP" /\ hal_op = "STOP"
  /\ pc = "idle" /\ mode = "STOP" /\ reg = {}
  /\ host = "there"

At(from, to) == pc = from /\ pc' = to

-----------------------------------------------------------------------------
\* cm_msg, CM_REG_REQ: gc.status |= CFG_STATUS_CONNECTED for CM_REG_OPEN,
\* gc.status &= ~CFG_STATUS_CONNECTED for CM_REG_CLOSE.
RegRead ==
  /\ host = "there"
  /\ At("idle", "open") \/ At("idle", "close")
  /\ reg' = status
  /\ UNCHANGED <<words, ops, mode, host>>

RegWrite ==
  /\ \/ At("open", "idle")  /\ status' = reg \cup {"CONNECTED"}
     \/ At("close", "idle") /\ status' = reg \ {"CONNECTED"}
  /\ UNCHANGED <<ctl, adc, ops, mode, reg, host>>

\* daq_msg, DAQ_RUN_REQ, up to the call of daq_hal_run
RunReq(op) ==
  /\ host = "there"
  /\ At("idle", "hal")
  /\ daq_op' = op
  /\ UNCHANGED <<words, hal_op, mode, reg, host>>

\* daq_hal_run: the branch on psv->opcode, which is sv.opcode of daq_srv.c
HalBranch ==
  /\ At("hal", "copy")
  /\ mode' = daq_op
  /\ UNCHANGED <<words, ops, reg, host>>

\* sv.opcode = psv->opcode
HalCopy ==
  /\ At("copy", "pipe")
  /\ hal_op' = daq_op
  /\ UNCHANGED <<words, daq_op, mode, reg, host>>

\* opto_pipe, with the opcode of the branch: it sets or clears pipe_run
\* whatever it has read.
HalPipe ==
  /\ At("pipe", "adc")
  /\ ctl' = IF mode = "RUN" THEN ctl \cup {"pipe_run"} ELSE ctl \ {"pipe_run"}
  /\ UNCHANGED <<status, adc, ops, mode, reg, host>>

\* adc_run(sv.opcode, ...): the read of sv.opcode, and the write of the ADC's
\* control register
HalAdcCall ==
  /\ At("adc", "adcw")
  /\ reg' = IF hal_op = "RUN" THEN {"run"} ELSE {}
  /\ UNCHANGED <<words, ops, mode, host>>

HalAdcWrite ==
  /\ At("adcw", "stat")
  /\ adc' = reg
  /\ UNCHANGED <<status, ctl, ops, mode, reg, host>>

\* gc.status |= CFG_STATUS_DAQ_RUN, or gc.status &= ~CFG_STATUS_DAQ_RUN
HalStatusRead ==
  /\ At("stat", "statw")
  /\ reg' = status
  /\ UNCHANGED <<words, ops, mode, host>>

HalStatusWrite ==
  /\ At("statw", "idle")
  /\ status' = IF mode = "RUN" THEN reg \cup {"DAQ_RUN"} ELSE reg \ {"DAQ_RUN"}
  /\ UNCHANGED <<ctl, adc, ops, mode, reg, host>>

HalRun == HalBranch \/ HalCopy \/ HalPipe \/ HalAdcCall \/ HalAdcWrite
            \/ HalStatusRead \/ HalStatusWrite

\* opto_tx: ctl.i = regs->ctl; ctl.b.tx_head = tx_head; regs->ctl = ctl.i
TxRead ==
  /\ Talk
  /\ At("idle", "tx")
  /\ reg' = ctl
  /\ UNCHANGED <<words, ops, mode, host>>

TxWrite ==
  /\ At("tx", "idle")
  /\ ctl' = reg
  /\ UNCHANGED <<status, adc, ops, mode, reg, host>>

-----------------------------------------------------------------------------
\* gc.status after cp_tick, where "expired" says whether the last message of
\* the host is more than CFG_PING_TIMEOUT seconds old.
Checked(expired) == IF Ping /\ expired THEN status \ {"CONNECTED"} ELSE status

\* A tick with what cp_tick leaves and what the abort does left open.
TickWith(sta, op, bits) ==
  /\ IF Ping /\ "DAQ_RUN" \in sta /\ "CONNECTED" \notin sta
     THEN /\ daq_op' = op /\ hal_op' = op
          /\ ctl' = {} /\ adc' = bits
          /\ status' = sta \ {"DAQ_RUN"}
     ELSE status' = sta /\ UNCHANGED <<ctl, adc, ops>>
  /\ UNCHANGED <<pc, mode, reg, host>>

\* Slips: the abort leaves the ADC running; it clears the opcode; the ping
\* timeout is never seen.
TickAdcRuns(expired)   == TickWith(Checked(expired), "STOP", adc)
TickNoOpcode(expired)  == TickWith(Checked(expired), "NONE", {})
TickNoTimeout(expired) == TickWith(status, "STOP", {})

\* timer: cp_tick, then daq_tick, which stops a run without a connection by
\* way of daq_hal_run.
Tick(expired) ==
  /\ expired => host = "gone"
  /\ LET sta == Checked(expired)
     IN  IF Ping /\ "DAQ_RUN" \in sta /\ "CONNECTED" \notin sta
         THEN /\ daq_op' = "STOP" /\ hal_op' = "STOP"
              /\ ctl' = {} /\ adc' = {}
              /\ status' = sta \ {"DAQ_RUN"}
         ELSE status' = sta /\ UNCHANGED <<ctl, adc, ops>>
  /\ UNCHANGED <<pc, mode, reg, host>>

\* The host is cut off, or comes back.
HostChanges ==
  /\ host' = IF host = "there" THEN "gone" ELSE "there"
  /\ UNCHANGED <<words, ops, pc, mode, reg>>

Background ==
  \/ RegRead \/ RegWrite
  \/ \E op \in Ops : RunReq(op)
  \/ HalRun
  \/ TxRead \/ TxWrite

Next == Background \/ (\E expired \in BOOLEAN : Tick(expired)) \/ HostChanges

\* The background goes on with what it has begun, and the timer ticks: the
\* ping timeout comes if the host stays away.
Spec ==
  /\ Init /\ [][Next]_vars
  /\ WF_vars(pc # "idle" /\ Background) /\ WF_vars(Tick(TRUE))

-----------------------------------------------------------------------------
TypeOK ==
  /\ status \subseteq {"CONNECTED", "DAQ_RUN"}
  /\ ctl \subseteq {"pipe_run"} /\ adc \subseteq {"run"}
  /\ daq_op \in Ops /\ hal_op \in Ops /\ mode \in Ops
  /\ pc \in {"idle", "open", "close", "hal", "copy", "pipe", "adc", "adcw", "stat", "statw", "tx"}
  /\ reg \subseteq Bits
  /\ pc = "tx"   => reg \subseteq {"pipe_run"}
  /\ pc = "adcw" => reg \subseteq {"run"}
  /\ pc \in {"open", "close", "statw"} => reg \subseteq {"CONNECTED", "DAQ_RUN"}
  /\ host \in {"there", "gone"}

\* When the background is in no request and DAQ_RUN says that nothing runs,
\* the ADC does not sample: no stop, abort or request that a tick cuts into
\* leaves it running where no tick would ever stop it.
AdcStopped == pc = "idle" /\ "DAQ_RUN" \notin status => adc = {}

\* The same of the link's pipe stream.  opto_tx and opto_pipe say that what
\* they do around the control register "is used to prevent corruption of status
\* and control registers"; it holds while nothing is transmitted.
PipeStopped == pc = "idle" /\ "DAQ_RUN" \notin status => ctl = {}

\* "If DAQ is Running and we disconnect then Force Abort": when the host has
\* gone for good the sampling stops for good, whatever it was doing when it went.
HostGone == <>[](host = "gone") => <>[](adc = {} /\ "DAQ_RUN" \notin status)
=============================================================================
