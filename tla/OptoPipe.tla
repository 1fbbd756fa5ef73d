------------------------------ MODULE OptoPipe ------------------------------
(***************************************************************************)
(* The pipe-message path of the FPGA's serial link block                   *)
(* (de0_top/ip/opto/opto_ctl.vhd): the RD state machine reads packets of   *)
(* samples from the circular memory into a one-packet block RAM, the FT    *)
(* state machine sends them, and a request flip-flop between the two says  *)
(* that a packet is ready.                                                 *)
(*                                                                         *)
(* The circuit is synchronous: on a clock tick every register takes a new  *)
(* value computed from the old values of all.  A tick's inputs are left    *)
(* open: whether the memory or the line is ready, whether FT has bytes of  *)
(* a CM message to handle first.  The registers the processor and the ADC  *)
(* block write change between ticks.  A packet is its number in the run.   *)
(* The software-controlled DMA request, which no code uses, is left out.   *)
(***************************************************************************)
EXTENDS Naturals

CONSTANTS Pkts,    \* opto_PKT_CNT: packets in a run
          Span,    \* packets the circular memory holds (ADC_FIFO_SPAN)
          Backlog  \* bound: packets sampled and not yet read from the memory

ASSUME PktsAssumption    == Pkts \in Nat \ {0}
ASSUME SpanAssumption    == Span \in Nat \ {0}
ASSUME BacklogAssumption == Backlog \in 1..Span

VARIABLES run,      \* CONTROL.pipe_run
          head,     \* head_addr_i: packets the ADC block has written
          fifo,     \* the circular memory
          rd_state, rd_rdy, rd_run, rd_pkt_cnt, tail_addr,
          rd_addr,  \* rd.addr, as a packet's place in the circular memory
          ft_state, pipe_busy, pipe_ack, pipe_cnt, pipe_int, ft_run,
          pipe_req, pipe_req_r0,
          bram,     \* the packet the block RAM holds
          unsent,   \* whether that packet has still to be sent
          out       \* the last packet sent in this run

rd   == <<rd_state, rd_rdy, rd_run, rd_pkt_cnt, tail_addr, rd_addr>>
ft   == <<ft_state, pipe_busy, pipe_ack, pipe_cnt, pipe_int, ft_run>>
req  == <<pipe_req, pipe_req_r0>>
vars == <<run, head, fifo, rd, ft, req, bram, unsent, out>>

RdStates == {"IDLE", "WAIT_REQ", "RD_REQ", "RD_SLOT"}
\* CM stands for the states that handle one byte of a CM message, PIPE_PICK for
\* those that send one byte of a pipe message.
FtStates == {"WAIT_REQ", "CM", "PIPE_START", "PIPE_PICK", "PIPE_END", "PIPE_INT"}

Empty   == 0
Garbage == Pkts + 1  \* part of one packet, part of another

Init ==
  /\ run = FALSE /\ head = 0 /\ fifo = [a \in 0..Span-1 |-> Empty]
  /\ rd_state = "IDLE" /\ rd_rdy = FALSE /\ rd_run = FALSE
  /\ rd_pkt_cnt = 0 /\ tail_addr = 0 /\ rd_addr = 0
  /\ ft_state = "WAIT_REQ" /\ pipe_busy = FALSE /\ pipe_ack = FALSE
  /\ pipe_cnt = 0 /\ pipe_int = FALSE /\ ft_run = FALSE
  /\ pipe_req = FALSE /\ pipe_req_r0 = FALSE
  /\ bram = Empty /\ unsent = FALSE /\ out = 0

-----------------------------------------------------------------------------
\* Slip: RD does not look whether the last packet is still going out.
MayBurstBusy == head # 0 /\ tail_addr # head /\ ~pipe_req

\* When RD starts a burst: a packet is there, none is being sent, none is
\* requested to be sent.
MayBurst == head # 0 /\ tail_addr # head /\ ~pipe_busy /\ ~pipe_req

\* RD state machine; "mem" says whether the memory answers.
RdTo(to) == rd_state' = to /\ UNCHANGED <<rd_rdy, rd_pkt_cnt, tail_addr, rd_addr>>

\* Slips: a run starts where the last one left the circular memory, or with
\* the last one's tail.
RdIdleSlip(tail, addr) ==
  /\ rd_state = "IDLE"
  /\ IF run /\ ~rd_run
     THEN /\ rd_state' = "WAIT_REQ" /\ rd_addr' = addr /\ tail_addr' = tail /\ rd_pkt_cnt' = 0
          /\ UNCHANGED rd_rdy
     ELSE RdTo("IDLE")
RdIdleKeepsTail == RdIdleSlip(tail_addr, 0)
RdIdleKeepsAddr == RdIdleSlip(0, rd_addr)

RdIdle ==
  /\ rd_state = "IDLE"
  /\ IF run /\ ~rd_run
     THEN /\ rd_state' = "WAIT_REQ" /\ rd_addr' = 0 /\ tail_addr' = 0 /\ rd_pkt_cnt' = 0
          /\ UNCHANGED rd_rdy
     ELSE RdTo("IDLE")

\* Slip: rd.rdy stays up after the first packet.
RdWaitRdyStays ==
  /\ rd_state = "WAIT_REQ"
  /\ IF ~run \/ rd_pkt_cnt = Pkts THEN RdTo("IDLE")
     ELSE IF rd_addr >= Span
     THEN rd_addr' = 0 /\ UNCHANGED <<rd_state, rd_rdy, rd_pkt_cnt, tail_addr>>
     ELSE RdTo(IF MayBurst THEN "RD_REQ" ELSE "WAIT_REQ")

RdWait ==
  /\ rd_state = "WAIT_REQ"
  /\ IF ~run \/ rd_pkt_cnt = Pkts THEN RdTo("IDLE")
     ELSE IF rd_addr >= Span
     THEN rd_addr' = 0 /\ UNCHANGED <<rd_state, rd_rdy, rd_pkt_cnt, tail_addr>>
     ELSE IF MayBurst THEN RdTo("RD_REQ")
     ELSE rd_rdy' = FALSE /\ UNCHANGED <<rd_state, rd_pkt_cnt, tail_addr, rd_addr>>

RdReq(mem) == rd_state = "RD_REQ" /\ RdTo(IF mem THEN "RD_SLOT" ELSE "RD_REQ")

BurstEnds(mem) == rd_state = "RD_SLOT" /\ mem

RdSlot(mem) ==
  /\ rd_state = "RD_SLOT"
  /\ IF BurstEnds(mem)
     THEN /\ rd_state' = "WAIT_REQ"
          /\ rd_rdy' = TRUE
          /\ tail_addr' = tail_addr + 1
          /\ rd_pkt_cnt' = rd_pkt_cnt + 1
          /\ rd_addr' = rd_addr + 1
     ELSE RdTo("RD_SLOT")

RdTick(mem) ==
  /\ rd_run' = run
  /\ RdIdle \/ RdWait \/ RdReq(mem) \/ RdSlot(mem)

\* FT state machine; "line" says whether the serial port takes a byte, "cm"
\* whether a byte of a CM message comes first, "end" whether the packet's
\* 1024 bytes are out.
FtTo(to) == ft_state' = to /\ UNCHANGED <<pipe_busy, pipe_ack, pipe_cnt>>

\* Slip: the packet count of the last run is not cleared when a run starts.
FtWaitKeepsCnt(line, cm) ==
  /\ ft_state = "WAIT_REQ"
  /\ IF cm THEN FtTo("CM")
     ELSE IF pipe_req /\ line
     THEN /\ ft_state' = "PIPE_START" /\ pipe_ack' = TRUE /\ pipe_busy' = TRUE
          /\ UNCHANGED pipe_cnt
     ELSE FtTo(IF pipe_busy /\ line THEN "PIPE_PICK" ELSE "WAIT_REQ")

FtWait(line, cm) ==
  /\ ft_state = "WAIT_REQ"
  /\ IF run /\ ~ft_run
     THEN pipe_cnt' = 0 /\ UNCHANGED <<ft_state, pipe_busy, pipe_ack>>
     ELSE IF cm THEN FtTo("CM")
     ELSE IF pipe_req /\ line
     THEN /\ ft_state' = "PIPE_START" /\ pipe_ack' = TRUE /\ pipe_busy' = TRUE
          /\ UNCHANGED pipe_cnt
     ELSE FtTo(IF pipe_busy /\ line THEN "PIPE_PICK" ELSE "WAIT_REQ")

PacketEnds(line) == ft_state = "PIPE_END" /\ line

FtSend(line, end) ==
  \/ /\ ft_state = "PIPE_START"
     /\ ft_state' = "PIPE_PICK" /\ pipe_ack' = FALSE
     /\ UNCHANGED <<pipe_busy, pipe_cnt>>
  \/ /\ ft_state = "PIPE_PICK"
     /\ FtTo(IF end THEN "PIPE_END" ELSE IF line THEN "WAIT_REQ" ELSE "PIPE_PICK")
  \/ /\ ft_state = "PIPE_END" /\ ~PacketEnds(line) /\ FtTo("PIPE_END")
  \/ /\ PacketEnds(line)
     /\ ft_state' = "PIPE_INT" /\ pipe_cnt' = pipe_cnt + 1
     /\ UNCHANGED <<pipe_busy, pipe_ack>>
  \/ /\ ft_state = "PIPE_INT"
     /\ ft_state' = "WAIT_REQ" /\ pipe_busy' = FALSE
     /\ pipe_cnt' = IF pipe_cnt = Pkts THEN 0 ELSE pipe_cnt
     /\ UNCHANGED pipe_ack

FtTick(line, cm, end) ==
  /\ ft_run' = run
  /\ \/ FtWait(line, cm)
     \/ ft_state = "CM" /\ FtTo("WAIT_REQ")
     \/ FtSend(line, end)
  /\ pipe_int' = IF ft_state = "PIPE_INT" THEN pipe_cnt = Pkts
                 ELSE pipe_int /\ ft_state # "WAIT_REQ"

\* Pipe message req/ack: set by the rising edge of rd.rdy, cleared by the ack.
ReqTick ==
  /\ pipe_req_r0' = rd_rdy
  /\ pipe_req' = IF rd_rdy /\ ~pipe_req_r0 THEN TRUE ELSE pipe_req /\ ~pipe_ack

\* What the block RAM holds, and what goes out.
DataTick(mem, line) ==
  /\ bram' = IF BurstEnds(mem)
             THEN IF unsent THEN Garbage ELSE fifo[rd_addr]
             ELSE IF rd_state = "RD_SLOT" /\ unsent THEN Garbage ELSE bram
  /\ out'  = IF PacketEnds(line) THEN bram ELSE out
  /\ unsent' = (BurstEnds(mem) \/ (unsent /\ ~PacketEnds(line)))

Tick(mem, line, cm, end) ==
  /\ RdTick(mem) /\ FtTick(line, cm, end) /\ ReqTick /\ DataTick(mem, line)
  /\ UNCHANGED <<run, head, fifo>>

-----------------------------------------------------------------------------
\* opto_pipe(OPTO_OP_START), then adc_run: the host asks for a run when the
\* last one is over and its head_addr cleared.
Start ==
  /\ ~run /\ ~rd_run /\ ~ft_run
  /\ rd_state = "IDLE" /\ ft_state = "WAIT_REQ" /\ ~pipe_busy /\ ~pipe_req /\ head = 0
  /\ run' = TRUE
  /\ out' = 0
  /\ UNCHANGED <<head, fifo, rd, ft, req, bram, unsent>>

\* opto_pipe(OPTO_OP_STOP), at the end of a run or in the middle
Stop ==
  /\ run /\ rd_run
  /\ run' = FALSE
  /\ UNCHANGED <<head, fifo, rd, ft, req, bram, unsent, out>>

\* The ADC block has written a packet; it stops at the end of the run, and
\* clears head_addr when it is stopped.  The first packet takes it so many
\* ticks that RD has been through a tick that found none, and no packet ends
\* on the one tick that turns the rise of rd.rdy into a request.
Sampled ==
  /\ run /\ rd_run
  /\ head < Pkts /\ head < tail_addr + Backlog
  /\ head = 0 => rd_state = "WAIT_REQ" /\ ~rd_rdy
  /\ ~(rd_rdy /\ ~pipe_req_r0)
  /\ fifo' = [fifo EXCEPT ![head % Span] = head + 1]
  /\ head' = head + 1
  /\ UNCHANGED <<run, rd, ft, req, bram, unsent, out>>

HeadCleared ==
  /\ ~run /\ head # 0
  /\ head' = 0
  /\ UNCHANGED <<run, fifo, rd, ft, req, bram, unsent, out>>

Next ==
  \/ \E mem, line, cm, end \in BOOLEAN : Tick(mem, line, cm, end)
  \/ Start \/ Stop \/ Sampled \/ HeadCleared

\* The clock ticks; the memory answers; the host reads, a packet has an end,
\* and CM messages leave the line free now and again; the ADC samples.
AnyTick      == \E mem, line, cm, end \in BOOLEAN : Tick(mem, line, cm, end)
Answered     == \E line, cm, end \in BOOLEAN : Tick(TRUE, line, cm, end)
Taken        == \E mem \in BOOLEAN : Tick(mem, TRUE, FALSE, TRUE)
Spec ==
  /\ Init /\ [][Next]_vars
  /\ WF_vars(AnyTick) /\ WF_vars(Sampled)
  /\ SF_vars(rd_state \in {"RD_REQ", "RD_SLOT"} /\ Answered)
  /\ \A t \in {"WAIT_REQ", "PIPE_PICK", "PIPE_END"} : SF_vars(ft_state = t /\ Taken)

-----------------------------------------------------------------------------
TypeOK ==
  /\ run \in BOOLEAN /\ head \in 0..Pkts
  /\ fifo \in [0..Span-1 -> 0..Pkts]
  /\ rd_state \in RdStates /\ rd_rdy \in BOOLEAN /\ rd_run \in BOOLEAN
  /\ rd_pkt_cnt \in 0..Pkts /\ tail_addr \in 0..Pkts
  /\ rd_addr \in 0..Span
  /\ ft_state \in FtStates /\ pipe_busy \in BOOLEAN /\ pipe_ack \in BOOLEAN
  /\ pipe_cnt \in 0..Pkts /\ pipe_int \in BOOLEAN /\ ft_run \in BOOLEAN
  /\ pipe_req \in BOOLEAN /\ pipe_req_r0 \in BOOLEAN
  /\ bram \in 0..Garbage /\ unsent \in BOOLEAN /\ out \in 0..Garbage

\* "This BRAM is only used for a single pipe message": RD never writes it
\* while the packet in it has still to be sent.
SinglePacket == rd_state = "RD_SLOT" => ~unsent

\* Each packet goes out whole, once, after the one before it.
InOrder == [][out' # out => out' = out + 1 \/ (out' = 0 /\ run' # run)]_vars

\* The pipe interrupt, on which the firmware reports the acquisition done, is
\* raised when the last packet of the run is out and not before.
DoneWhenOut == [][~pipe_int /\ pipe_int' => out = Pkts /\ ~unsent]_vars

\* A run that the host does not stop comes to its end.
Completes == (run /\ out # Pkts) ~> (pipe_int \/ ~run)
=============================================================================
