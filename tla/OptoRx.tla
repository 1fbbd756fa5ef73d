------------------------------- MODULE OptoRx -------------------------------
(***************************************************************************)
(* The receive path of the serial link: the framing state machine of the   *)
(* FPGA block (de0_top/ip/opto/opto_ctl.vhd) and the receive part of       *)
(* opto_isr (nios/de0_fw/driver/opto.c).                                   *)
(*                                                                         *)
(* The FPGA stores the bytes of a frame in one of its slots; the end of    *)
(* the frame advances rx_head and sets a bit of the interrupt latch.  For  *)
(* as long as the bit is set the handler takes a CM slot, copies the frame *)
(* at rx_tail into it, advances rx_tail, clears the bit if the status      *)
(* register says that nothing more is there, and queues the slot.  Bytes   *)
(* keep arriving between these steps, and some are lost.  From any byte on *)
(* to the end of a frame the transmitter waits.                            *)
(*                                                                         *)
(* A frame is a start flag, a part sent as it is, a part sent escaped, and *)
(* an end flag.  Two things go beyond what the code can bear, and are kept *)
(* in histories: "raced" and "overrun".                                    *)
(***************************************************************************)
EXTENDS Naturals, Sequences

CONSTANTS HwSlots, \* OPTO_RX_SLOTS
          Pool,    \* CM_MSGQ_SLOTS
          Losses   \* bound: bytes that are lost

ASSUME HwAssumption     == HwSlots \in Nat /\ HwSlots >= 2
ASSUME PoolAssumption   == Pool \in Nat \ {0}
ASSUME LossesAssumption == Losses \in Nat

None   == 0
Frames == 1..HwSlots    \* frames that lose no byte, numbered cyclically
Bad    == HwSlots + 1   \* what is not the frame that was sent
Flags  == <<"SOF", "PART", "ESC", "PART", "EOF">>  \* the bytes of a frame
Size   == 4             \* parts that a hardware slot has room for

VARIABLES pos, frame,  \* the byte the host sends next, of which frame
          hurt, losses,\* history: whether the frame has lost a byte; how many were lost,
          cut,         \* and whether the last end flag was
          rx_ptr,      \* where in its slot the FPGA is,
          rx_esc,      \* whether the last byte was an escape,
          rx_busy,     \* and whether the transmitter is to wait
          rx_head,     \* STATUS.rx_head, advanced by the FPGA
          kept,        \* the parts of the frame that are in their place there
          rx_buf,      \* the frame in each hardware slot, None if it lost a byte or was read
          rx_int,      \* the receive bit of the interrupt latch
          rx_tail,     \* the driver's rx_tail, copied to CONTROL.rx_tail
          slot,        \* what is in the CM slot the handler holds, if any
          sta,         \* rx_head as the handler last read it
          isr,         \* where the handler is: "idle", "sample", "ack"
          free,        \* how many CM slots are IDLE
          out,         \* history: the last frame without a loss that was queued
          raced,       \* whether the last frame ended just before an acknowledge
          overrun      \* whether a frame ended while HwSlots - 1 were unread, which
                       \* makes head and tail equal: all slots full reads as none

host   == <<pos, frame, hurt, kept, losses, cut>>
parser == <<rx_ptr, rx_esc, rx_busy>>
slots  == <<rx_head, rx_buf, rx_int, raced, overrun>>
driver == <<rx_tail, slot, sta, isr, free, out>>
vars   == <<host, parser, slots, driver>>

Unread == (rx_head + HwSlots - rx_tail) % HwSlots

\* opto_init
Init ==
  /\ pos = 1 /\ frame = HwSlots /\ hurt = FALSE /\ kept = {} /\ losses = 0 /\ cut = FALSE
  /\ rx_ptr = 0 /\ rx_esc = FALSE /\ rx_busy = FALSE
  /\ rx_head = 0 /\ rx_buf = [i \in 0..HwSlots-1 |-> None] /\ rx_int = FALSE
  /\ rx_tail = 0 /\ slot = <<>> /\ sta = 0 /\ isr = "idle" /\ free = Pool
  /\ out = None /\ raced = FALSE /\ overrun = FALSE

-----------------------------------------------------------------------------
\* The next byte of the host; a start flag begins the next frame.  Bound: after
\* an overrun, that is with as many frames unread as there are slots, the host
\* sends no further frame.
Send(lost) ==
  /\ pos = 1 => ~overrun
  /\ pos' = (pos % Len(Flags)) + 1
  /\ frame' = IF pos = 1 /\ ~hurt THEN (frame % HwSlots) + 1 ELSE frame
  /\ hurt' = (lost \/ (hurt /\ pos # 1))

Get(flag) == Flags[pos] = flag /\ Send(FALSE) /\ UNCHANGED losses

\* A byte is lost: on the line, in the full FIFO, or in the flush after a start.
Lose ==
  /\ losses < Losses /\ losses' = losses + 1
  /\ Send(TRUE)
  /\ cut' = (cut \/ Flags[pos] = "EOF")
  /\ kept' = IF pos = 1 THEN {} ELSE kept
  /\ UNCHANGED <<parser, slots, driver>>

\* RX_FRAME: a start flag, with what it leaves in rx_esc left open.
StartWith(esc) ==
  /\ Get("SOF")
  /\ rx_ptr' = 0 /\ rx_esc' = esc /\ rx_busy' = TRUE
  /\ kept' = {}
  /\ UNCHANGED <<cut, slots, driver>>

\* Slip: a start flag does not end an escape.
StartKeepsEsc == StartWith(rx_esc)
Start == StartWith(FALSE)

\* ... an escape
Escape ==
  /\ Get("ESC")
  /\ rx_esc' = TRUE /\ rx_busy' = TRUE
  /\ UNCHANGED <<kept, cut, rx_ptr, slots, driver>>

\* RX_DATA, RX_STORE, RX_NEXT: a part is what it was if it comes in its place,
\* and escaped if it was sent so.
Store ==
  /\ Get("PART")
  /\ kept' = IF rx_ptr = (pos \div 2) - 1 /\ rx_esc = (Flags[pos - 1] = "ESC")
             THEN kept \cup {rx_ptr} ELSE kept \ {rx_ptr}
  /\ rx_ptr' = (rx_ptr + 1) % Size
  /\ rx_esc' = FALSE /\ rx_busy' = TRUE
  /\ UNCHANGED <<cut, slots, driver>>

\* ... an end flag, with what it leaves in rx_busy left open.
EndWith(busy) ==
  /\ Get("EOF")
  /\ rx_esc' = FALSE /\ rx_busy' = busy
  /\ rx_head' = (rx_head + 1) % HwSlots
  /\ rx_int'  = TRUE
  /\ rx_buf' = [rx_buf EXCEPT ![rx_head] =
                 IF hurt THEN None ELSE IF kept = {0, 1} THEN frame ELSE Bad]
  /\ kept' = {}
  /\ cut' = FALSE /\ raced' = (isr = "ack")
  /\ overrun' = (overrun \/ Unread = HwSlots - 1)
  /\ UNCHANGED <<rx_ptr, driver>>

\* Slip: an end flag leaves rx_busy as it is.
EndKeepsBusy == EndWith(TRUE)
End == EndWith(FALSE)

-----------------------------------------------------------------------------
\* Slip: the index runs one past the last slot.
NextRxSlip(i) == IF i + 1 > HwSlots THEN 0 ELSE i + 1

\* if (++rx_tail == OPTO_RX_SLOTS) rx_tail = 0
NextRx(i) == IF i + 1 = HwSlots THEN 0 ELSE i + 1

\* opto_isr with irq.b.rx set: cm_alloc, the copy if rx_head # rx_tail, and
\* rx_tail advanced in any case.  A slot without a copy is as cm_alloc cleared it.
IsrTake ==
  /\ isr = "idle" /\ rx_int
  /\ isr' = "sample"
  /\ IF free # 0
     THEN /\ free'    = free - 1
          /\ slot'    = IF rx_head # rx_tail THEN <<rx_buf[rx_tail]>> ELSE <<Bad>>
          /\ rx_buf'  = [rx_buf EXCEPT ![rx_tail] = None]
          /\ rx_tail' = NextRx(rx_tail)
     ELSE UNCHANGED <<free, slot, rx_buf, rx_tail>>
  /\ UNCHANGED <<host, parser, rx_head, rx_int, raced, overrun, sta, out>>

\* sta.i = regs->sta
IsrSample ==
  /\ isr = "sample"
  /\ sta' = rx_head
  /\ isr' = "ack"
  /\ UNCHANGED <<host, parser, slots, rx_tail, slot, free, out>>

\* The handler's last step with its test for the acknowledge left open; sta is
\* read no more before it is set.
IsrAckIf(test) ==
  /\ isr = "ack"
  /\ rx_int' = (rx_int /\ ~test)
  /\ out' = IF slot \in {<<>>, <<None>>} THEN out ELSE Head(slot)
  /\ slot' = <<>> /\ sta' = 0
  /\ isr'  = "idle"
  /\ UNCHANGED <<host, parser, rx_head, rx_buf, raced, overrun, rx_tail, free>>

\* Slip: it acknowledges whatever is there.
IsrAckAlways == IsrAckIf(TRUE)

\* opto_intack(OPTO_INT_RX) if head = tail, then cm_qmsg; the handler's loop
\* reads the interrupt register again.
IsrAck == IsrAckIf(sta = rx_tail)

\* The background loop, when no interrupt is pending: cm_thread delivers a
\* queued message and its handler, or opto_tx, frees the slot.
CmFree ==
  /\ isr = "idle" /\ ~rx_int
  /\ free < Pool
  /\ free' = free + 1
  /\ UNCHANGED <<host, parser, slots, rx_tail, slot, sta, isr, out>>

Byte == Start \/ Escape \/ Store \/ End
Isr  == IsrTake \/ IsrSample \/ IsrAck
Next == Byte \/ Lose \/ Isr \/ CmFree

\* The processor executes the handler it is in, and the background loop frees
\* what it is given whenever interrupts leave it time.  The host ends a frame it
\* has begun.
Spec ==
  /\ Init /\ [][Next]_vars
  /\ WF_vars(Isr) /\ WF_vars(CmFree)
  /\ WF_vars(pos # 1 /\ (Byte \/ Lose))

-----------------------------------------------------------------------------
TypeOK ==
  /\ pos \in DOMAIN Flags /\ frame \in Frames /\ losses \in 0..Losses
  /\ rx_ptr \in 0..Size-1
  /\ {hurt, cut, rx_esc, rx_busy, rx_int, raced, overrun} \subseteq BOOLEAN
  /\ rx_head \in 0..HwSlots-1 /\ rx_tail \in 0..HwSlots-1 /\ sta \in 0..HwSlots-1
  /\ rx_buf \in [0..HwSlots-1 -> Frames \cup {None, Bad}] /\ kept \subseteq 0..Size-1
  /\ isr \in {"idle", "sample", "ack"}
  /\ free \in 0..Pool
  /\ out \in Frames \cup {None, Bad}

\* A frame that waits in a hardware slot has the interrupt pending, or the
\* handler still to look.  The one exception is the last frame if it ended
\* between the handler's read of the status and its acknowledge: it waits for
\* the next one.
NotStranded == Unread # 0 => rx_int \/ isr # "idle" \/ raced

\* The frames without a loss between the hardware's slots and cm_thread's queue
Unhurt(f) == f # None
FrameLine ==
  SelectSeq(slot \o [i \in 1..Unread |-> rx_buf[(rx_tail + i - 1) % HwSlots]], Unhurt)

\* Frames that lose no byte reach cm_thread's queue whole, once each and in the
\* order they came, whatever other frames lose, and while the CM pool is empty:
\* damage does not spread.  Nothing else comes of no frame.  The ring holds one
\* frame less than it has slots: only the one that ends when all the others are
\* unread (the fourth, of four slots) breaks this, for the driver then sees none.
Link    == INSTANCE Fifo WITH line <- FrameLine, Msgs <- Frames
InOrder == [][overrun' \/ Link!Enter \/ Link!Leave]_<<FrameLine, out>>

\* Every such frame reaches cm_thread's queue, unless the CM pool runs dry while
\* the handler needs a slot: then the handler never returns and nobody frees.
Waiting(f) == \E i \in DOMAIN FrameLine : FrameLine[i] = f
Received ==
  []<>(free # 0) => \A f \in Frames : Waiting(f) ~> out = f \/ raced \/ overrun

\* A frame keeps the transmitter waiting until it ends, and no longer; if its
\* end is lost, until the next frame's end.
Transmits == rx_busy ~> ~rx_busy \/ cut
=============================================================================
