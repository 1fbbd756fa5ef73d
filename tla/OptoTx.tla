------------------------------- MODULE OptoTx -------------------------------
(***************************************************************************)
(* The transmit path of the serial link (nios/de0_fw/driver/opto.c:        *)
(* opto_cmio, opto_msgtx, opto_tx, the transmit part of opto_isr), with    *)
(* the transmit part of the FPGA block it drives (de0_top/ip/opto).        *)
(*                                                                         *)
(* cm_thread hands a message to opto_cmio, which puts the pointer in txq   *)
(* and calls opto_msgtx; opto_msgtx reads the head of txq and calls        *)
(* opto_tx, which copies the message to a hardware slot, frees its CM slot *)
(* and advances txq.  The end of a frame raises the transmit interrupt,    *)
(* whose handler calls opto_msgtx too.  Only opto_tx masks that interrupt: *)
(* it can come between opto_cmio's and opto_msgtx's reads of txq, so those *)
(* reads are steps of their own.  opto_tx is one step, because nothing     *)
(* else uses txq inside it (the timer's ticks do not; the one tick that    *)
(* aborts a run is in RunCtl), and a frame that ends while opto_tx         *)
(* runs is a frame that ends after it: it samples the hardware tail once.  *)
(***************************************************************************)
EXTENDS Naturals, Sequences, FiniteSets

CONSTANTS Que,     \* OPTO_TX_QUE
          HwSlots, \* OPTO_TX_SLOTS
          Window,  \* bound: messages accepted and not yet on the wire
          Pipe,    \* whether pipe messages are being streamed
          Overlap  \* whether a frame may end between opto_cmio and opto_tx

ASSUME QueAssumption    == Que \in Nat /\ Que >= 2
ASSUME HwAssumption     == HwSlots \in Nat /\ HwSlots >= 3
ASSUME WindowAssumption == Window \in 1..Que-1
ASSUME FlagAssumption   == Pipe \in BOOLEAN /\ Overlap \in BOOLEAN

NULL == 0
Msgs == 1..Window+1  \* messages in the order they come, numbered cyclically

VARIABLES buf, head, tail, \* txq
          tx_head,         \* the driver's copy of CONTROL.tx_head
          tx_tail,         \* STATUS.tx_tail, advanced by the FPGA
          tx_buf,          \* the hardware slots
          tx_int,          \* the transmit bit of the interrupt latch
          owed,            \* messages whose CM slot the link has still to free
          bg,              \* where the background loop is: "idle", "check", "load", "tx"
          arg,             \* txq index, then message, opto_msgtx has read
          isr,             \* where the handler is: "idle", "msgtx"
          last, out        \* the last message accepted, the last one on the wire

txq  == <<buf, head, tail>>
fpga == <<tx_tail, tx_int, out>>
vars == <<buf, head, tail, tx_head, tx_tail, tx_buf, tx_int, owed, bg, arg, isr, last, out>>

\* Slip: the index runs one past the last entry.
NextQueSlip(i) == IF i + 1 > Que THEN 0 ELSE i + 1

\* if (++txq.head == txq.slots) txq.head = 0, and the same for txq.tail
NextQue(i) == IF i + 1 = Que THEN 0 ELSE i + 1

Queued   == (head + Que - tail) % Que
InFlight == (tx_head + HwSlots - tx_tail) % HwSlots

\* opto_init
Init ==
  /\ buf = [i \in 0..Que-1 |-> NULL] /\ head = 0 /\ tail = 0
  /\ tx_head = 0 /\ tx_tail = 0 /\ tx_buf = [i \in 0..HwSlots-1 |-> NULL]
  /\ tx_int = FALSE
  /\ owed = {} /\ bg = "idle" /\ arg = NULL /\ isr = "idle"
  /\ last = NULL /\ out = NULL

\* The processor takes a pending transmit interrupt before its next
\* background instruction, and runs the handler to its end.
Background(from, to) == bg = from /\ bg' = to /\ ~tx_int /\ isr = "idle"

\* opto_cmio, up to its call of opto_msgtx.  There is no test for a full
\* queue.  A handler that runs inside sees what it would have seen before.
Cmio ==
  /\ Background("idle", "check")
  /\ Cardinality(owed) + InFlight < Window
  /\ LET m == (last % (Window + 1)) + 1
     IN  /\ buf'  = [buf EXCEPT ![head] = m]
         /\ owed' = owed \cup {m}
         /\ last' = m
  /\ head' = NextQue(head)
  /\ UNCHANGED <<tail, tx_head, tx_buf, arg, isr, fpga>>

\* opto_msgtx: the test of the queue, and the read of txq.tail
Check ==
  /\ Background("check", IF head # tail THEN "load" ELSE "idle")
  /\ arg' = IF head # tail THEN tail ELSE NULL
  /\ UNCHANGED <<txq, tx_head, tx_buf, owed, isr, last, fpga>>

\* opto_msgtx: the read of txq.buf[txq.tail]
Load ==
  /\ Background("load", "tx")
  /\ arg' = buf[arg]
  /\ UNCHANGED <<txq, tx_head, tx_buf, owed, isr, last, fpga>>

\* opto_tx's way to send a message, where "room" is its test for a hardware
\* slot and "freed" what it frees; for the slips.
OptoTxWith(m, room, freed) ==
  \/ /\ m # NULL /\ room
     /\ tx_buf'  = [tx_buf EXCEPT ![tx_head] = m]
     /\ buf'     = [buf EXCEPT ![tail] = NULL]
     /\ tail'    = NextQue(tail)
     /\ tx_head' = (tx_head + 1) % HwSlots
     /\ owed'    = owed \ freed
  \/ /\ m # NULL /\ ~room
     /\ UNCHANGED <<buf, tail, tx_head, tx_buf, owed>>

\* Slips: the message is not freed; the test is for a full ring of hardware
\* slots; a message that finds no slot is dropped from the queue.
OptoTxLeaks(m)  == OptoTxWith(m, tx_head # (tx_tail + 1) % HwSlots, {})
OptoTxRing(m)   == OptoTxWith(m, (tx_head + 1) % HwSlots # tx_tail, {m})
OptoTxDrops(m)  ==
  IF tx_head = (tx_tail + 1) % HwSlots
  THEN /\ tail' = NextQue(tail)
       /\ owed' = owed \ {m}
       /\ UNCHANGED <<buf, tx_head, tx_buf>>
  ELSE OptoTxWith(m, TRUE, {m})

\* opto_tx: NULL advances the queue; a message is copied to the hardware,
\* its pointer cleared and its CM slot freed, unless the slot after the one
\* being transmitted is the next to fill.
OptoTx(m) ==
  \/ /\ m = NULL
     /\ tail' = NextQue(tail)
     /\ UNCHANGED <<buf, tx_head, tx_buf, owed>>
  \/ /\ m # NULL
     /\ tx_head # (tx_tail + 1) % HwSlots
     /\ tx_buf'  = [tx_buf EXCEPT ![tx_head] = m]
     /\ buf'     = [buf EXCEPT ![tail] = NULL]
     /\ tail'    = NextQue(tail)
     /\ tx_head' = IF tx_head + 1 = HwSlots THEN 0 ELSE tx_head + 1
     /\ owed'    = owed \ {m}
  \/ /\ m # NULL
     /\ tx_head = (tx_tail + 1) % HwSlots
     /\ UNCHANGED <<buf, tail, tx_head, tx_buf, owed>>

\* The background's call of opto_tx
Transmit ==
  /\ Background("tx", "idle")
  /\ OptoTx(arg)
  /\ arg' = NULL
  /\ UNCHANGED <<head, isr, last, fpga>>

\* opto_isr, transmit bit: opto_intack(OPTO_INT_TX) ...
IsrAck ==
  /\ isr = "idle" /\ tx_int
  /\ tx_int' = FALSE
  /\ isr' = "msgtx"
  /\ UNCHANGED <<txq, tx_head, tx_buf, owed, bg, arg, last, tx_tail, out>>

\* ... then opto_msgtx, which nothing on the processor can interrupt.
IsrMsgtx ==
  /\ isr = "msgtx"
  /\ isr' = "idle"
  /\ IF head # tail THEN OptoTx(buf[tail])
                    ELSE UNCHANGED <<buf, tail, tx_head, tx_buf, owed>>
  /\ UNCHANGED <<head, bg, arg, last, fpga>>

\* A frame ends at any time, or only outside opto_cmio.
MayEnd == Overlap \/ bg = "idle"

\* FT state machine, TX_END: the slot at tx_tail has gone out.
TxEnd ==
  /\ MayEnd
  /\ tx_head # tx_tail
  /\ out'     = tx_buf[tx_tail]
  /\ tx_tail' = (tx_tail + 1) % HwSlots
  /\ tx_int'  = TRUE
  /\ UNCHANGED <<txq, tx_head, tx_buf, owed, bg, arg, isr, last>>

\* FT state machine, PIPE_END: a pipe message raises the same interrupt.
PipeEnd ==
  /\ Pipe /\ MayEnd
  /\ tx_int' = TRUE
  /\ UNCHANGED <<txq, tx_head, tx_buf, owed, bg, arg, isr, last, tx_tail, out>>

\* Slip: the handler acknowledges the interrupt after it has called
\* opto_msgtx instead of before.
IsrAckLast ==
  \/ /\ isr = "idle" /\ tx_int
     /\ isr' = "msgtx"
     /\ IF head # tail THEN OptoTx(buf[tail])
                       ELSE UNCHANGED <<buf, tail, tx_head, tx_buf, owed>>
     /\ UNCHANGED <<head, bg, arg, last, fpga>>
  \/ /\ isr = "msgtx"
     /\ tx_int' = FALSE
     /\ isr' = "idle"
     /\ UNCHANGED <<txq, tx_head, tx_buf, owed, bg, arg, last, tx_tail, out>>

\* The background's opto_msgtx, and opto_isr
Msgtx == Check \/ Load \/ Transmit
Isr   == IsrAck \/ IsrMsgtx
Next  == Cmio \/ Msgtx \/ Isr \/ TxEnd \/ PipeEnd

\* The processor executes what it has begun: handlers run to their end, and
\* they leave time to the background loop (a pipe message takes the line far
\* longer than its interrupt takes the processor).  The host keeps reading,
\* so that a frame that is in a hardware slot goes out.
Spec == Init /\ [][Next]_vars /\ SF_vars(Msgtx) /\ WF_vars(Isr) /\ SF_vars(TxEnd)

-----------------------------------------------------------------------------
TypeOK ==
  /\ buf \in [0..Que-1 -> Msgs \cup {NULL}] /\ head \in 0..Que-1 /\ tail \in 0..Que-1
  /\ tx_head \in 0..HwSlots-1 /\ tx_tail \in 0..HwSlots-1
  /\ tx_buf \in [0..HwSlots-1 -> Msgs \cup {NULL}]
  /\ tx_int \in BOOLEAN
  /\ owed \subseteq Msgs
  /\ bg \in {"idle", "check", "load", "tx"} /\ isr \in {"idle", "msgtx"}
  /\ arg \in 0..Que-1 \cup Msgs \cup {NULL}
  /\ last \in Msgs \cup {NULL} /\ out \in Msgs \cup {NULL}

\* The part of txq between tail and head, oldest first.
TxqLine == [i \in 1..Queued |-> buf[(tail + i - 1) % Que]]
HwLine  == [i \in 1..InFlight |-> tx_buf[(tx_tail + i - 1) % HwSlots]]

\* The link owes cm_free exactly for the messages between txq's tail and its
\* head, each there once: none is freed twice and none is forgotten.
OwesQueued ==
  /\ owed = {buf[(tail + i) % Que] : i \in 0..Queued-1}
  /\ \A i, j \in 1..Queued : i # j => TxqLine[i] # TxqLine[j]

\* opto_tx never fills the hardware slot that is going out, nor one that has
\* still to go out: at most one frame is with the hardware.
OneInFlight == InFlight <= 1

\* A message that waits in txq while the hardware is idle is about to be
\* picked up: the interrupt is pending, or somebody is on the way to opto_tx.
WakeupPending ==
  Queued # 0 /\ InFlight = 0 => tx_int \/ isr = "msgtx" \/ bg # "idle"

\* txq, the hardware slots and the two callers of opto_msgtx make a first-in
\* first-out link, on which every accepted message goes out once, in order.
Link == INSTANCE Fifo WITH line <- HwLine \o TxqLine
ImplementsFifo == Link!Spec

\* opto_tx "will transmit the message" and "may be called by different
\* threads"; queueing "causes the top of the queue to be transmitted".
Transmitted == \A m \in Msgs : m \in owed ~> m \notin owed
=============================================================================
