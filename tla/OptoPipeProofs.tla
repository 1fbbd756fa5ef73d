--------------------------- MODULE OptoPipeProofs ---------------------------
(***************************************************************************)
(* Proofs about OptoPipe, for a run of any length and a circular memory of *)
(* any size, when the ADC block is never more than a packet ahead of the   *)
(* link (Backlog = 1): a packet goes through the stages below, one packet  *)
(* at a time.                                                              *)
(***************************************************************************)
EXTENDS OptoPipe, TLAPS

\* RD is not reading the memory.
Rested == rd_state \in {"IDLE", "WAIT_REQ"}

\* FT has nothing of a pipe message, and is not asked to have.
Idle == /\ ~pipe_req /\ ~pipe_ack /\ ~pipe_busy
        /\ ft_state \in {"WAIT_REQ", "CM"}

\* The block RAM holds the last packet read, the one before it is out.
Loaded == unsent /\ bram = tail_addr /\ tail_addr = out + 1

\* Nothing to send.  At the start of a run rd.rdy can still be up.
NoPacket ==
  /\ Idle /\ Rested /\ ~unsent
  /\ rd_rdy => pipe_req_r0 /\ (rd_state = "WAIT_REQ" => head = 0)
  /\ (run /\ ~rd_run) \/ out = tail_addr

\* RD reads the next packet.
Bursting ==
  /\ Idle /\ ~Rested /\ ~unsent
  /\ ~rd_rdy
  /\ out = tail_addr /\ tail_addr < Pkts
  /\ rd_addr < Span /\ fifo[rd_addr] = tail_addr + 1
  /\ run => head = tail_addr + 1

\* It is there; the rise of rd.rdy is not seen yet.
Ready ==
  /\ Idle /\ rd_state = "WAIT_REQ" /\ Loaded
  /\ rd_rdy /\ ~pipe_req_r0
  /\ run => head = tail_addr

\* FT is asked to send it.
Requested ==
  /\ pipe_req /\ ~pipe_ack /\ ~pipe_busy
  /\ ft_state \in {"WAIT_REQ", "CM"}
  /\ Rested /\ Loaded
  /\ rd_rdy => pipe_req_r0 /\ (rd_state = "WAIT_REQ" => rd_addr < Span)

\* FT has begun, and has acknowledged the request.
Acked ==
  /\ pipe_req /\ pipe_ack /\ pipe_busy /\ ft_state = "PIPE_START"
  /\ Rested /\ Loaded
  /\ rd_rdy => pipe_req_r0 /\ rd_state = "IDLE"

Sending ==
  /\ ~pipe_req /\ ~pipe_ack /\ pipe_busy
  /\ ft_state \in {"WAIT_REQ", "CM", "PIPE_PICK", "PIPE_END"}
  /\ Rested /\ Loaded
  /\ rd_rdy => pipe_req_r0 /\ rd_state = "IDLE"

\* The last byte is out.
Sent ==
  /\ ~pipe_req /\ ~pipe_ack /\ pipe_busy /\ ft_state = "PIPE_INT"
  /\ Rested /\ ~unsent /\ out = tail_addr /\ pipe_cnt = out
  /\ rd_rdy => pipe_req_r0 /\ rd_state = "IDLE"

Stage == NoPacket \/ Bursting \/ Ready \/ Requested \/ Acked \/ Sending \/ Sent

\* Between the start of a run and the tick that sees it nothing is under way.
Starts ==
  run /\ ~rd_run => NoPacket /\ rd_state = "IDLE" /\ ft_state = "WAIT_REQ" /\ head = 0 /\ out = 0

\* The ADC block is level with RD, or a packet ahead, which is where RD reads.
Memory ==
  /\ rd_addr = tail_addr % Span \/ (rd_addr = Span /\ tail_addr % Span = 0)
  /\ run /\ rd_run => /\ head = tail_addr \/ head = tail_addr + 1
                      /\ head = tail_addr + 1 => fifo[tail_addr % Span] = head

\* The two state machines count and start together.
Counts ==
  /\ rd_run = ft_run /\ rd_pkt_cnt = tail_addr
  /\ \/ run /\ ~rd_run
     \/ pipe_cnt = out
     \/ pipe_cnt = 0 /\ out = Pkts

IInv == TypeOK /\ Stage /\ Starts /\ Memory /\ Counts

-----------------------------------------------------------------------------
\* The next place in the circular memory.
LEMMA NextPlace ==
  ASSUME NEW n \in Nat, NEW k \in Nat \ {0}
  PROVE  /\ n % k \in 0..k-1
         /\ (n + 1) % k = IF (n % k) + 1 = k THEN 0 ELSE (n % k) + 1
<1> DEFINE r == n % k
           q == n \div k
<1>1. r \in 0..k-1 /\ q \in Nat /\ n = k * q + r
  OBVIOUS
<1> HIDE DEF r, q
<1>2. CASE r + 1 = k
  <2>1. n + 1 = k * (q + 1)
    BY <1>1, <1>2
  <2>2. (k * (q + 1)) % k = 0
    BY <1>1
  <2> QED
    BY <1>1, <1>2, <2>1, <2>2 DEF r
<1>3. CASE r + 1 # k
  <2>1. n + 1 = k * q + (r + 1) /\ r + 1 \in 0..k-1
    BY <1>1, <1>3
  <2>2. (k * q + (r + 1)) % k = r + 1
    BY <1>1, <2>1
  <2> QED
    BY <1>1, <1>3, <2>1, <2>2 DEF r
<1> QED
  BY <1>2, <1>3

\* What RD reads is the packet after the last one it has read.
LEMMA NextToRead ==
  ASSUME TypeOK, Memory, Counts, Starts, rd_state = "WAIT_REQ", run, MayBurst,
         rd_addr < Span, rd_pkt_cnt # Pkts
  PROVE  /\ rd_run /\ head = tail_addr + 1 /\ tail_addr < Pkts
         /\ fifo[rd_addr] = tail_addr + 1
<1>1. rd_run
  BY DEF Starts
<1>2. head = tail_addr + 1 /\ fifo[tail_addr % Span] = tail_addr + 1
  BY <1>1 DEF Memory, MayBurst
<1>3. tail_addr < Pkts
  BY PktsAssumption DEF Counts, TypeOK
<1>4. rd_addr = tail_addr % Span
  BY SpanAssumption DEF Memory, TypeOK
<1> QED
  BY <1>1, <1>2, <1>3, <1>4

-----------------------------------------------------------------------------
\* A tick moves the packet to the stage it is in or to the next one.
LEMMA TickKeepsStage ==
  ASSUME IInv, NEW mem \in BOOLEAN, NEW line \in BOOLEAN, NEW cm \in BOOLEAN, NEW end \in BOOLEAN,
         Tick(mem, line, cm, end)
  PROVE  Stage'
<1> USE DEF Tick
<1>1. /\ run' = run /\ head' = head /\ fifo' = fifo
      /\ rd_run' = run /\ ft_run' = run /\ ft_run = rd_run
      /\ pipe_req_r0' = rd_rdy
      /\ TypeOK /\ Starts
  BY DEF RdTick, FtTick, ReqTick, IInv, Counts
<1>2. CASE run /\ ~rd_run
  <2>1. NoPacket /\ rd_state = "IDLE" /\ ft_state = "WAIT_REQ" /\ head = 0 /\ out = 0
    BY <1>1, <1>2 DEF Starts
  <2>2. /\ rd_state' = "WAIT_REQ" /\ tail_addr' = 0 /\ rd_rdy' = rd_rdy
    BY <1>2, <2>1 DEF RdTick, RdIdle, RdWait, RdReq, RdSlot
  <2>3. /\ ft_state' = "WAIT_REQ" /\ UNCHANGED <<pipe_busy, pipe_ack>>
    BY <1>1, <1>2, <2>1 DEF FtTick, FtWait, FtSend, PacketEnds
  <2>4. UNCHANGED <<bram, out>> /\ ~unsent'
    <3>1. ~BurstEnds(mem) /\ ~PacketEnds(line) /\ rd_state # "RD_SLOT" /\ ~unsent
      BY <2>1 DEF BurstEnds, PacketEnds, NoPacket
    <3>2. bram' = bram /\ out' = out
      BY <3>1 DEF DataTick
    <3>3. ~unsent'
      BY <3>1 DEF DataTick
    <3> QED
      BY <3>2, <3>3
  <2>5. pipe_req' = FALSE
    BY <2>1 DEF ReqTick, NoPacket, Idle
  <2>6. NoPacket'
    BY <1>1, <2>1, <2>2, <2>3, <2>4, <2>5 DEF NoPacket, Idle, Rested
  <2> QED
    BY <2>6 DEF Stage
<1>3. CASE ~(run /\ ~rd_run)
  <2>1. ASSUME Rested, ~MayBurst \/ ~run
        PROVE  /\ Rested' /\ UNCHANGED tail_addr /\ (rd_rdy' => rd_rdy)
               /\ rd_state = "IDLE" => rd_state' = "IDLE"
               /\ rd_state = "WAIT_REQ" /\ rd_rdy' /\ rd_addr < Span => rd_state' = "IDLE"
               /\ rd_state = "WAIT_REQ" /\ rd_rdy' => rd_state' = "IDLE" \/ rd_addr' = 0
    <3>1. rd_addr \in Nat /\ Span \in Nat
      BY <1>1, SpanAssumption DEF TypeOK
    <3>2. CASE rd_state = "IDLE"
      <4>1. rd_state' = "IDLE" /\ UNCHANGED <<rd_rdy, tail_addr>>
        BY <1>3, <3>2 DEF RdTick, RdIdle, RdWait, RdReq, RdSlot, RdTo
      <4> QED
        BY <3>2, <4>1 DEF Rested
    <3>3. CASE rd_state = "WAIT_REQ"
      <4>1. RdWait
        BY <3>3 DEF RdTick, RdIdle, RdReq, RdSlot
      <4>2. CASE ~run \/ rd_pkt_cnt = Pkts
        <5>1. rd_state' = "IDLE" /\ UNCHANGED <<rd_rdy, tail_addr>>
          BY <4>1, <4>2 DEF RdWait, RdTo
        <5> QED
          BY <3>3, <5>1 DEF Rested
      <4>3. CASE run /\ rd_pkt_cnt # Pkts /\ rd_addr >= Span
        <5>1. rd_addr' = 0 /\ UNCHANGED <<rd_state, rd_rdy, tail_addr>>
          BY <4>1, <4>3 DEF RdWait
        <5>2. ~(rd_addr < Span)
          BY <3>1, <4>3
        <5> QED
          BY <3>3, <5>1, <5>2 DEF Rested
      <4>4. CASE run /\ rd_pkt_cnt # Pkts /\ ~(rd_addr >= Span)
        <5>1. rd_rdy' = FALSE /\ UNCHANGED <<rd_state, tail_addr>>
          BY <2>1, <4>1, <4>4 DEF RdWait
        <5> QED
          BY <3>3, <5>1 DEF Rested
      <4> QED
        BY <4>2, <4>3, <4>4
    <3> QED
      BY <2>1, <3>2, <3>3 DEF Rested
  <2>2. Rested => ~BurstEnds(mem) /\ bram' = bram
    BY DEF Rested, BurstEnds, DataTick
  <2>3. ft_state # "PIPE_END" => out' = out /\ (~BurstEnds(mem) => (unsent' <=> unsent))
    BY DEF DataTick, PacketEnds
  <2>4. Idle => /\ ft_state' \in {"WAIT_REQ", "CM"} /\ UNCHANGED <<pipe_busy, pipe_ack>>
    BY <1>1, <1>3 DEF Idle, FtTick, FtWait, FtSend, FtTo, PacketEnds
  <2>0. Idle /\ ~(rd_rdy /\ ~pipe_req_r0) => Idle'
    <3>1. Idle /\ ~(rd_rdy /\ ~pipe_req_r0) => ~pipe_req'
      BY DEF Idle, ReqTick
    <3>2. Idle => ~pipe_ack' /\ ~pipe_busy' /\ ft_state' \in {"WAIT_REQ", "CM"}
      BY <2>4 DEF Idle
    <3> QED
      BY <3>1, <3>2 DEF Idle
  <2>5. ASSUME NoPacket PROVE Stage'
    <3>1. Idle' /\ ~unsent' /\ out' = out
      <4>1. Idle /\ Rested /\ ~unsent /\ ~(rd_rdy /\ ~pipe_req_r0)
        BY <2>5 DEF NoPacket
      <4>2. ft_state # "PIPE_END"
        BY <4>1 DEF Idle
      <4> QED
        BY <2>0, <2>2, <2>3, <4>1, <4>2
    <3>2. CASE ~MayBurst \/ ~run
      <4>1. NoPacket'
        BY <1>1, <1>3, <2>1, <2>5, <3>1, <3>2 DEF NoPacket, Rested
      <4> QED
        BY <4>1 DEF Stage
    <3>3. CASE MayBurst /\ run
      <4>1. CASE rd_state = "IDLE"
        <5>1. UNCHANGED <<rd_state, rd_rdy, tail_addr>>
          BY <1>3, <3>3, <4>1 DEF RdTick, RdIdle, RdWait, RdReq, RdSlot, RdTo
        <5>2. NoPacket'
          BY <1>1, <1>3, <2>5, <3>1, <4>1, <5>1 DEF NoPacket, Rested
        <5> QED
          BY <5>2 DEF Stage
      <4>2. CASE rd_state = "WAIT_REQ" /\ (rd_pkt_cnt = Pkts \/ rd_addr >= Span)
        <5>1. UNCHANGED <<rd_rdy, tail_addr>> /\ rd_state' \in {"IDLE", "WAIT_REQ"}
          BY <3>3, <4>2 DEF RdTick, RdIdle, RdWait, RdReq, RdSlot, RdTo
        <5>2. ~rd_rdy
          BY <2>5, <3>3, <4>2 DEF NoPacket, MayBurst
        <5>3. NoPacket'
          BY <1>1, <1>3, <2>5, <3>1, <5>1, <5>2 DEF NoPacket, Rested
        <5> QED
          BY <5>3 DEF Stage
      <4>3. CASE rd_state = "WAIT_REQ" /\ rd_pkt_cnt # Pkts /\ rd_addr < Span
        <5>1. UNCHANGED <<rd_rdy, tail_addr, rd_addr>> /\ rd_state' = "RD_REQ"
          BY <1>1, <3>3, <4>3, SpanAssumption
             DEF RdTick, RdIdle, RdWait, RdReq, RdSlot, RdTo, TypeOK
        <5>2. ~rd_rdy
          BY <2>5, <3>3, <4>3 DEF NoPacket, MayBurst
        <5>3. head = tail_addr + 1 /\ tail_addr < Pkts /\ fifo[rd_addr] = tail_addr + 1
          BY <3>3, <4>3, NextToRead DEF IInv
        <5>4. Bursting'
          BY <1>1, <1>3, <2>5, <3>1, <4>3, <5>1, <5>2, <5>3 DEF NoPacket, Bursting, Rested
        <5> QED
          BY <5>4 DEF Stage
      <4> QED
        BY <1>1, <2>5, <4>1, <4>2, <4>3, SpanAssumption DEF NoPacket, Rested, TypeOK
    <3> QED
      BY <3>2, <3>3
  <2>6. ASSUME Bursting PROVE Stage'
    <3>1. Idle' /\ out' = out
      <4>1. Idle /\ ~(rd_rdy /\ ~pipe_req_r0)
        BY <2>6 DEF Bursting
      <4>2. ft_state # "PIPE_END"
        BY <4>1 DEF Idle
      <4> QED
        BY <2>0, <2>3, <4>1, <4>2
    <3>2. CASE ~BurstEnds(mem)
      <4>1. rd_state' \in {"RD_REQ", "RD_SLOT"} /\ UNCHANGED <<rd_rdy, tail_addr, rd_addr>>
        BY <1>1, <2>6, <3>2 DEF Bursting, Rested, RdTick, RdIdle, RdWait, RdReq, RdSlot, RdTo, TypeOK, RdStates
      <4>2. ~unsent'
        BY <2>3, <2>6, <3>2 DEF Bursting, Idle
      <4>3. Bursting'
        BY <1>1, <2>6, <3>1, <4>1, <4>2 DEF Bursting, Rested
      <4> QED
        BY <4>3 DEF Stage
    <3>3. CASE BurstEnds(mem)
      <4>1. rd_state' = "WAIT_REQ" /\ rd_rdy' /\ tail_addr' = tail_addr + 1
        BY <3>3 DEF BurstEnds, RdTick, RdIdle, RdWait, RdReq, RdSlot
      <4>2. unsent' /\ bram' = tail_addr + 1
        BY <2>6, <3>3 DEF Bursting, DataTick
      <4>3. Ready'
        BY <1>1, <2>6, <3>1, <4>1, <4>2 DEF Bursting, Ready, Loaded
      <4> QED
        BY <4>3 DEF Stage
    <3> QED
      BY <3>2, <3>3
  <2>7. ASSUME Ready PROVE Stage'
    <3>1. ~MayBurst \/ ~run
      BY <2>7 DEF Ready, MayBurst
    <3>2. Loaded' /\ Rested'
      BY <2>1, <2>2, <2>3, <2>7, <3>1 DEF Ready, Loaded, Idle, Rested
    <3>3. pipe_req' /\ ~pipe_ack' /\ ~pipe_busy' /\ ft_state' \in {"WAIT_REQ", "CM"}
      BY <2>4, <2>7 DEF Ready, Idle, ReqTick
    <3>4. rd_rdy' => pipe_req_r0' /\ (rd_state' = "WAIT_REQ" => rd_addr' < Span)
      BY <1>1, <2>1, <2>7, <3>1, SpanAssumption DEF Ready, Rested
    <3>5. Requested'
      BY <3>2, <3>3, <3>4 DEF Requested
    <3> QED
      BY <3>5 DEF Stage
  <2>8. ASSUME Requested PROVE Stage'
    <3>1. /\ Loaded' /\ Rested'
          /\ rd_rdy' => pipe_req_r0' /\ rd_state' = "IDLE"
      BY <1>1, <2>1, <2>2, <2>3, <2>8 DEF Requested, Loaded, Rested, MayBurst
    <3>2. pipe_req'
      BY <2>8 DEF Requested, ReqTick
    <3>3. \/ ~pipe_ack' /\ ~pipe_busy' /\ ft_state' \in {"WAIT_REQ", "CM"}
          \/ pipe_ack' /\ pipe_busy' /\ ft_state' = "PIPE_START"
      BY <1>1, <1>3, <2>8 DEF Requested, FtTick, FtWait, FtSend, FtTo, PacketEnds
    <3>4. Requested' \/ Acked'
      BY <3>1, <3>2, <3>3 DEF Requested, Acked
    <3> QED
      BY <3>4 DEF Stage
  <2>9. ASSUME Acked PROVE Stage'
    <3>1. /\ Loaded' /\ Rested'
          /\ rd_rdy' => pipe_req_r0' /\ rd_state' = "IDLE"
      BY <1>1, <2>1, <2>2, <2>3, <2>9 DEF Acked, Loaded, Rested, MayBurst
    <3>2. ~pipe_req' /\ ~pipe_ack' /\ pipe_busy' /\ ft_state' = "PIPE_PICK"
      BY <1>1, <2>9 DEF Acked, ReqTick, FtTick, FtWait, FtSend, FtTo, PacketEnds
    <3>3. Sending'
      BY <3>1, <3>2 DEF Sending
    <3> QED
      BY <3>3 DEF Stage
  <2>10. ASSUME Sending PROVE Stage'
    <3>1. /\ Rested' /\ bram' = bram /\ tail_addr' = tail_addr
          /\ rd_rdy' => pipe_req_r0' /\ rd_state' = "IDLE"
      BY <1>1, <2>1, <2>2, <2>10 DEF Sending, Rested, MayBurst
    <3>2. ~pipe_req'
      BY <2>10 DEF Sending, ReqTick
    <3>3. CASE PacketEnds(line)
      <4>1. /\ ft_state' = "PIPE_INT" /\ ~pipe_ack' /\ pipe_busy' /\ pipe_cnt' = pipe_cnt + 1
        BY <1>1, <2>10, <3>3 DEF Sending, FtTick, FtWait, FtSend, FtTo, PacketEnds
      <4>2. ~unsent' /\ out' = bram
        BY <2>2, <2>10, <3>3 DEF Sending, DataTick
      <4>3. pipe_cnt = out
        BY <1>1, <1>3, <2>10 DEF IInv, Counts, Sending, Loaded, TypeOK
      <4>4. Sent'
        BY <2>10, <3>1, <3>2, <4>1, <4>2, <4>3 DEF Sending, Sent, Loaded
      <4> QED
        BY <4>4 DEF Stage
    <3>4. CASE ~PacketEnds(line)
      <4>1. ft_state' \in {"WAIT_REQ", "CM", "PIPE_PICK", "PIPE_END"} /\ UNCHANGED <<pipe_ack, pipe_busy>>
        <5>1. CASE ft_state = "WAIT_REQ"
          <6>1. FtWait(line, cm) /\ ~pipe_req
            BY <2>10, <5>1 DEF Sending, FtTick, FtSend, PacketEnds
          <6> QED
            BY <1>1, <1>3, <6>1 DEF FtWait, FtTo
        <5>2. CASE ft_state # "WAIT_REQ"
          BY <2>10, <3>4, <5>2 DEF Sending, FtTick, FtWait, FtSend, FtTo
        <5> QED
          BY <5>1, <5>2
      <4>2. Loaded'
        BY <2>2, <2>10, <3>1, <3>4 DEF Sending, Loaded, DataTick
      <4>3. Sending'
        BY <2>10, <3>1, <3>2, <4>1, <4>2 DEF Sending
      <4> QED
        BY <4>3 DEF Stage
    <3> QED
      BY <3>3, <3>4
  <2>11. ASSUME Sent PROVE Stage'
    <3>1. /\ Rested' /\ bram' = bram /\ tail_addr' = tail_addr /\ ~unsent' /\ out' = out
          /\ rd_rdy' => pipe_req_r0' /\ rd_state' = "IDLE"
      BY <1>1, <2>1, <2>2, <2>3, <2>11 DEF Sent, Rested, MayBurst
    <3>2. ~pipe_req' /\ ~pipe_ack' /\ ~pipe_busy' /\ ft_state' = "WAIT_REQ"
      <4>1. ~pipe_req'
        BY <2>11 DEF Sent, ReqTick
      <4>2. UNCHANGED pipe_ack /\ pipe_busy' = FALSE /\ ft_state' = "WAIT_REQ"
        BY <2>11 DEF Sent, FtTick, FtWait, FtSend, PacketEnds
      <4> QED
        BY <2>11, <4>1, <4>2 DEF Sent
    <3>3. NoPacket'
      BY <1>1, <1>3, <2>11, <3>1, <3>2 DEF NoPacket, Idle, Sent
    <3> QED
      BY <3>3 DEF Stage
  <2> QED
    BY <2>5, <2>6, <2>7, <2>8, <2>9, <2>10, <2>11 DEF IInv, Stage
<1> QED
  BY <1>2, <1>3

-----------------------------------------------------------------------------
\* What a tick does to RD's counters: a run starts, a burst ends, the address
\* wraps, or they stay.
RdCounts(mem) ==
  \/ run /\ ~rd_run /\ rd_addr' = 0 /\ tail_addr' = 0 /\ rd_pkt_cnt' = 0
  \/ /\ BurstEnds(mem)
     /\ tail_addr' = tail_addr + 1 /\ rd_pkt_cnt' = rd_pkt_cnt + 1 /\ rd_addr' = rd_addr + 1
  \/ /\ ~(run /\ ~rd_run) /\ ~BurstEnds(mem)
     /\ rd_addr >= Span /\ rd_addr' = 0 /\ UNCHANGED <<tail_addr, rd_pkt_cnt>>
  \/ /\ ~(run /\ ~rd_run) /\ ~BurstEnds(mem)
     /\ UNCHANGED <<tail_addr, rd_pkt_cnt, rd_addr>>

\* Every tick of RD is one of these, and its registers keep their types.
LEMMA RdMoves ==
  ASSUME IInv, NEW mem \in BOOLEAN, RdTick(mem)
  PROVE  RdCounts(mem) /\ rd_state' \in RdStates /\ rd_rdy' \in BOOLEAN
<1>1. TypeOK /\ (run /\ ~rd_run => rd_state = "IDLE")
  BY DEF IInv, Starts
<1>2. CASE rd_state = "IDLE"
  <2>1. RdIdle /\ ~BurstEnds(mem)
    BY <1>2 DEF RdTick, RdWait, RdReq, RdSlot, BurstEnds
  <2>2. CASE run /\ ~rd_run
    <3>1. rd_state' = "WAIT_REQ" /\ rd_addr' = 0 /\ tail_addr' = 0 /\ rd_pkt_cnt' = 0 /\ rd_rdy' = rd_rdy
      BY <2>1, <2>2 DEF RdIdle
    <3> QED
      BY <1>1, <2>2, <3>1 DEF RdCounts, TypeOK, RdStates
  <2>3. CASE ~(run /\ ~rd_run)
    <3>1. rd_state' = "IDLE" /\ UNCHANGED <<rd_rdy, tail_addr, rd_pkt_cnt, rd_addr>>
      BY <2>1, <2>3 DEF RdIdle, RdTo
    <3> QED
      BY <1>1, <2>1, <2>3, <3>1 DEF RdCounts, TypeOK, RdStates
  <2> QED
    BY <2>2, <2>3
<1>3. CASE rd_state = "WAIT_REQ"
  <2>1. RdWait /\ ~BurstEnds(mem) /\ ~(run /\ ~rd_run)
    BY <1>1, <1>3 DEF RdTick, RdIdle, RdReq, RdSlot, BurstEnds
  <2>2. \/ /\ rd_state' \in RdStates
           /\ rd_rdy' = rd_rdy \/ rd_rdy' = FALSE
           /\ UNCHANGED <<tail_addr, rd_pkt_cnt, rd_addr>>
        \/ rd_addr >= Span /\ rd_addr' = 0 /\ UNCHANGED <<rd_state, rd_rdy, tail_addr, rd_pkt_cnt>>
    BY <1>1, <2>1 DEF RdWait, RdTo, RdStates, TypeOK
  <2> QED
    BY <1>1, <2>1, <2>2 DEF RdCounts, TypeOK
<1>4. CASE rd_state \in {"RD_REQ", "RD_SLOT"} /\ ~BurstEnds(mem)
  <2>1. rd_state' \in RdStates /\ UNCHANGED <<rd_rdy, tail_addr, rd_pkt_cnt, rd_addr>>
    BY <1>4 DEF RdTick, RdIdle, RdWait, RdReq, RdSlot, RdTo, RdStates
  <2>2. ~(run /\ ~rd_run)
    BY <1>1, <1>4
  <2> QED
    BY <1>1, <1>4, <2>1, <2>2 DEF RdCounts, TypeOK
<1>5. CASE BurstEnds(mem)
  <2>1. /\ rd_state' = "WAIT_REQ" /\ rd_rdy' = TRUE /\ tail_addr' = tail_addr + 1
        /\ rd_pkt_cnt' = rd_pkt_cnt + 1 /\ rd_addr' = rd_addr + 1
    BY <1>5 DEF BurstEnds, RdTick, RdIdle, RdWait, RdReq, RdSlot
  <2> QED
    BY <1>5, <2>1 DEF RdCounts, RdStates
<1> QED
  BY <1>1, <1>2, <1>3, <1>4, <1>5 DEF TypeOK, RdStates

\* What a tick does to FT's packet count.
FtCounts(line) ==
  \/ run /\ ~ft_run /\ ft_state = "WAIT_REQ" /\ pipe_cnt' = 0
  \/ PacketEnds(line) /\ pipe_cnt' = pipe_cnt + 1
  \/ ft_state = "PIPE_INT" /\ pipe_cnt' = (IF pipe_cnt = Pkts THEN 0 ELSE pipe_cnt)
  \/ ~PacketEnds(line) /\ pipe_cnt' = pipe_cnt

\* Every tick of FT is one of these, and its registers keep their types.
LEMMA FtMoves ==
  ASSUME TypeOK, NEW line \in BOOLEAN, NEW cm \in BOOLEAN, NEW end \in BOOLEAN,
         FtTick(line, cm, end)
  PROVE  /\ FtCounts(line)
         /\ ft_state' \in FtStates /\ pipe_busy' \in BOOLEAN /\ pipe_ack' \in BOOLEAN
         /\ pipe_int' \in BOOLEAN
<1>1. pipe_int' \in BOOLEAN
  BY DEF FtTick, TypeOK
<1>2. CASE FtWait(line, cm)
  <2>1. ~PacketEnds(line)
    BY <1>2 DEF FtWait, PacketEnds
  <2>2. ft_state' \in FtStates
    BY <1>2 DEF FtWait, FtTo, FtStates
  <2>3. pipe_busy' \in BOOLEAN /\ pipe_ack' \in BOOLEAN
    BY <1>2 DEF FtWait, FtTo, TypeOK
  <2>4. FtCounts(line)
    BY <1>2, <2>1 DEF FtWait, FtTo, FtCounts
  <2> QED
    BY <1>1, <2>2, <2>3, <2>4
<1>3. CASE ft_state = "CM" /\ FtTo("WAIT_REQ")
  BY <1>1, <1>3 DEF FtTo, FtCounts, PacketEnds, FtStates, TypeOK
<1>4. CASE FtSend(line, end)
  <2>1. ft_state' \in FtStates
    BY <1>4 DEF FtSend, FtTo, FtStates
  <2>2. pipe_busy' \in BOOLEAN /\ pipe_ack' \in BOOLEAN
    BY <1>4 DEF FtSend, FtTo, TypeOK
  <2>3. FtCounts(line)
    BY <1>4 DEF FtSend, FtTo, FtCounts, PacketEnds
  <2> QED
    BY <1>1, <2>1, <2>2, <2>3
<1> QED
  BY <1>2, <1>3, <1>4 DEF FtTick

\* The stage says when a burst and a packet can end.
LEMMA Ends ==
  ASSUME IInv, NEW mem \in BOOLEAN, NEW line \in BOOLEAN
  PROVE  /\ BurstEnds(mem) => Bursting
         /\ PacketEnds(line) => Sending
         /\ ft_state = "PIPE_INT" => Sent
         /\ run /\ ~rd_run => NoPacket /\ out = 0 /\ head = 0
<1>1. BurstEnds(mem) => ~Rested
  BY DEF BurstEnds, Rested
<1>2. Bursting \/ Rested
  BY DEF IInv, Stage, NoPacket, Ready, Requested, Acked, Sending, Sent, Rested
<1>3. ASSUME ft_state \in {"PIPE_END", "PIPE_INT"} PROVE Sending \/ Sent
  BY <1>3 DEF IInv, Stage, NoPacket, Bursting, Ready, Requested, Acked, Idle
<1>4. ft_state = "PIPE_INT" => Sent
  BY <1>3 DEF Sending
<1>5. ft_state = "PIPE_END" => Sending
  BY <1>3 DEF Sent
<1> QED
  BY <1>1, <1>2, <1>4, <1>5 DEF PacketEnds, IInv, Starts

\* The counters after a tick, and with them the place RD reads next.
LEMMA TickKeepsCounts ==
  ASSUME IInv, NEW mem \in BOOLEAN, NEW line \in BOOLEAN, NEW cm \in BOOLEAN, NEW end \in BOOLEAN,
         Tick(mem, line, cm, end)
  PROVE  TypeOK' /\ Starts' /\ Memory' /\ Counts'
<1>1. /\ RdTick(mem) /\ FtTick(line, cm, end) /\ ReqTick /\ DataTick(mem, line)
      /\ run' = run /\ head' = head /\ fifo' = fifo
      /\ rd_run' = run /\ ft_run' = run
  BY DEF Tick, RdTick, FtTick
<1>2. TypeOK /\ Memory /\ Counts /\ Pkts \in Nat \ {0} /\ Span \in Nat \ {0}
  BY PktsAssumption, SpanAssumption DEF IInv
<1>3. RdCounts(mem) /\ rd_state' \in RdStates /\ rd_rdy' \in BOOLEAN
  BY <1>1, RdMoves
<1>4. /\ FtCounts(line)
      /\ ft_state' \in FtStates /\ pipe_busy' \in BOOLEAN /\ pipe_ack' \in BOOLEAN
      /\ pipe_int' \in BOOLEAN
  BY <1>1, <1>2, FtMoves
<1>5. /\ BurstEnds(mem) => Bursting
      /\ PacketEnds(line) => Sending
      /\ ft_state = "PIPE_INT" => Sent
      /\ run /\ ~rd_run => NoPacket /\ out = 0 /\ head = 0
  BY Ends
<1>6. tail_addr' \in 0..Pkts /\ rd_pkt_cnt' = tail_addr'
  <2>1. BurstEnds(mem) => tail_addr < Pkts
    BY <1>5 DEF Bursting
  <2> QED
    BY <1>2, <1>3, <2>1 DEF RdCounts, TypeOK, Counts
<1>7. /\ rd_addr' \in 0..Span
      /\ rd_addr' = tail_addr' % Span \/ (rd_addr' = Span /\ tail_addr' % Span = 0)
  <2>1. rd_addr \in 0..Span /\ tail_addr \in 0..Pkts
    BY <1>2 DEF TypeOK
  <2>2. tail_addr % Span \in 0..Span-1
    BY <1>2, <2>1, NextPlace
  <2>3. rd_addr = tail_addr % Span \/ (rd_addr = Span /\ tail_addr % Span = 0)
    BY <1>2 DEF Memory
  <2>4. CASE BurstEnds(mem)
    <3>1. tail_addr' = tail_addr + 1 /\ rd_addr' = rd_addr + 1 /\ rd_addr < Span
      <4>1. ~(run /\ ~rd_run)
        BY <2>4 DEF BurstEnds, IInv, Starts
      <4> QED
        BY <1>3, <1>5, <2>4, <4>1 DEF RdCounts, Bursting
    <3>2. rd_addr = tail_addr % Span
      BY <1>2, <2>1, <2>3, <3>1
    <3>3. (tail_addr + 1) % Span = IF (tail_addr % Span) + 1 = Span THEN 0 ELSE (tail_addr % Span) + 1
      <4>1. tail_addr \in Nat /\ Span \in Nat \ {0}
        BY <1>2, <2>1
      <4> QED
        BY <4>1, NextPlace, Zenon
    <3> QED
      BY <1>2, <2>1, <2>2, <3>1, <3>2, <3>3
  <2>5. CASE ~BurstEnds(mem) /\ run /\ ~rd_run
    <3>1. tail_addr' = 0 /\ rd_addr' = 0
      BY <1>3, <2>5 DEF RdCounts
    <3>2. 0 % Span = 0
      BY <1>2
    <3> QED
      BY <1>2, <3>1, <3>2
  <2>6. CASE ~BurstEnds(mem) /\ ~(run /\ ~rd_run)
    <3>1. tail_addr' = tail_addr /\ (rd_addr' = rd_addr \/ (rd_addr >= Span /\ rd_addr' = 0))
      BY <1>3, <2>6 DEF RdCounts
    <3>2. rd_addr >= Span => tail_addr % Span = 0
      BY <1>2, <2>1, <2>2, <2>3
    <3> QED
      BY <1>2, <2>1, <2>3, <3>1, <3>2
  <2> QED
    BY <2>4, <2>5, <2>6
<1>8. /\ pipe_cnt' \in 0..Pkts /\ out' \in 0..Garbage /\ bram' \in 0..Garbage /\ unsent' \in BOOLEAN
      /\ pipe_cnt' = out' \/ (pipe_cnt' = 0 /\ out' = Pkts)
  <2>1. bram' \in 0..Garbage
    <3>1. BurstEnds(mem) => fifo[rd_addr] \in 0..Garbage
      BY <1>2, <1>5 DEF Bursting, TypeOK, Garbage
    <3>2. bram \in 0..Garbage /\ Garbage \in 0..Garbage
      BY <1>2 DEF TypeOK, Garbage
    <3> QED
      BY <1>1, <3>1, <3>2 DEF DataTick
  <2>2. unsent' \in BOOLEAN
    BY <1>1 DEF DataTick
  <2>3. CASE PacketEnds(line)
    <3>1. Sending /\ ft_state = "PIPE_END"
      BY <1>5, <2>3 DEF PacketEnds
    <3>2. ~(run /\ ~rd_run)
      BY <3>1 DEF IInv, Starts
    <3>3. bram = tail_addr /\ tail_addr = out + 1
      BY <3>1 DEF Sending, Loaded
    <3>4. pipe_cnt = out
      BY <1>2, <3>2, <3>3 DEF Counts, TypeOK
    <3>5. out' = bram
      BY <1>1, <2>3 DEF DataTick
    <3>6. pipe_cnt' = pipe_cnt + 1
      BY <1>4, <2>3, <3>1 DEF FtCounts
    <3>7. out + 1 \in 0..Pkts
      BY <1>2, <3>3 DEF TypeOK
    <3> QED
      BY <1>2, <2>1, <2>2, <3>3, <3>4, <3>5, <3>6, <3>7 DEF Garbage
  <2>4. CASE ~PacketEnds(line)
    <3>1. out' = out
      BY <1>1, <2>4 DEF DataTick
    <3>2. out \in 0..Garbage /\ pipe_cnt \in 0..Pkts
      BY <1>2 DEF TypeOK
    <3>3. CASE run /\ ~rd_run
      <4>1. out = 0 /\ ft_state = "WAIT_REQ"
        BY <3>3 DEF IInv, Starts
      <4>2. pipe_cnt' = 0
        <5>1. FtWait(line, cm)
          BY <1>1, <4>1 DEF FtTick, FtSend, PacketEnds
        <5>2. run /\ ~ft_run
          BY <1>2, <3>3 DEF Counts
        <5> QED
          BY <5>1, <5>2 DEF FtWait
      <4> QED
        BY <1>2, <2>1, <2>2, <3>1, <4>1, <4>2 DEF Garbage
    <3>4. CASE ~(run /\ ~rd_run)
      <4>1. ~(run /\ ~ft_run)
        BY <1>2, <3>4 DEF Counts
      <4>2. pipe_cnt = out \/ (pipe_cnt = 0 /\ out = Pkts)
        BY <1>2, <3>4 DEF Counts
      <4>3. CASE pipe_cnt' = pipe_cnt
        BY <2>1, <2>2, <3>1, <3>2, <4>2, <4>3
      <4>4. CASE ft_state = "PIPE_INT" /\ pipe_cnt' = (IF pipe_cnt = Pkts THEN 0 ELSE pipe_cnt)
        <5>1. pipe_cnt = out
          BY <1>5, <4>4 DEF Sent
        <5> QED
          BY <1>2, <2>1, <2>2, <3>1, <3>2, <4>4, <5>1
      <4> QED
        BY <1>4, <2>4, <4>1, <4>3, <4>4 DEF FtCounts
    <3> QED
      BY <3>3, <3>4
  <2> QED
    BY <2>3, <2>4
<1>9. TypeOK'
  <2>1. pipe_req' \in BOOLEAN
    BY <1>1, <1>2 DEF ReqTick, TypeOK
  <2>2. pipe_req_r0' \in BOOLEAN
    BY <1>1, <1>2 DEF ReqTick, TypeOK
  <2>3. rd_pkt_cnt' \in 0..Pkts
    BY <1>6
  <2> QED
    BY <1>1, <1>2, <1>3, <1>4, <1>6, <1>7, <1>8, <2>1, <2>2, <2>3 DEF TypeOK, Garbage
<1>10. Starts'
  BY <1>1 DEF Starts
<1>11. Counts'
  BY <1>1, <1>6, <1>8 DEF Counts
<1>12. Memory'
  <2>1. ASSUME run
        PROVE  /\ head = tail_addr' \/ head = tail_addr' + 1
               /\ head = tail_addr' + 1 => fifo[tail_addr' % Span] = head
    <3>1. CASE BurstEnds(mem)
      <4>1. head = tail_addr' /\ tail_addr' \in Nat
        <5>1. ~(run /\ ~rd_run)
          BY <3>1 DEF BurstEnds, IInv, Starts
        <5> QED
          BY <1>2, <1>3, <1>5, <2>1, <3>1, <5>1 DEF RdCounts, Bursting, TypeOK
      <4>2. head # tail_addr' + 1
        <5>1. PICK h \in Nat : h = head
          BY <1>2 DEF TypeOK
        <5>2. tail_addr' = h
          BY <4>1, <5>1
        <5>3. h # h + 1
          BY <5>1
        <5> QED
          BY <5>1, <5>2, <5>3
      <4> QED
        BY <4>1, <4>2
    <3>2. CASE ~BurstEnds(mem) /\ ~rd_run
      <4>1. tail_addr' = 0 /\ head = 0
        BY <1>3, <1>5, <2>1, <3>2 DEF RdCounts
      <4> QED
        BY <4>1
    <3>3. CASE ~BurstEnds(mem) /\ rd_run
      <4>1. tail_addr' = tail_addr
        BY <1>3, <2>1, <3>3 DEF RdCounts
      <4> QED
        BY <1>2, <2>1, <3>3, <4>1 DEF Memory
    <3> QED
      BY <3>1, <3>2, <3>3
  <2> QED
    BY <1>1, <1>7, <2>1 DEF Memory
<1> QED
  BY <1>9, <1>10, <1>11, <1>12

-----------------------------------------------------------------------------
\* After a reset there is nothing to send.
LEMMA InitIInv == Init => IInv
<1> SUFFICES ASSUME Init PROVE IInv
  OBVIOUS
<1> USE PktsAssumption, SpanAssumption DEF Init
<1>1. TypeOK
  <2>1. 0 \in 0..Pkts /\ 0 \in 0..Span /\ 0 \in 0..Garbage
    BY DEF Garbage
  <2>2. fifo \in [0..Span-1 -> 0..Pkts]
    BY <2>1 DEF Empty
  <2> QED
    BY <2>1, <2>2 DEF TypeOK, RdStates, FtStates, Empty
<1>2. Stage
  BY DEF Stage, NoPacket, Idle, Rested
<1>3. Starts
  BY DEF Starts
<1>4. Memory
  <2>1. 0 % Span = 0
    OBVIOUS
  <2> QED
    BY <2>1 DEF Memory
<1>5. Counts
  BY DEF Counts
<1> QED
  BY <1>1, <1>2, <1>3, <1>4, <1>5 DEF IInv

\* A run starts with nothing under way.
LEMMA StartKeeps == IInv /\ Start => IInv'
<1> SUFFICES ASSUME IInv, Start PROVE IInv'
  OBVIOUS
<1>1. /\ UNCHANGED <<head, fifo, rd, ft, req, bram, unsent>> /\ run' = TRUE /\ out' = 0
      /\ ~rd_run /\ ~ft_run /\ rd_state = "IDLE" /\ ft_state = "WAIT_REQ" /\ head = 0
      /\ ~pipe_req /\ ~pipe_busy
      /\ TypeOK /\ Stage /\ Memory /\ Counts
  BY DEF Start, IInv
<1>2. NoPacket
  BY <1>1 DEF Stage, Bursting, Ready, Requested, Acked, Sending, Sent, Rested
<1>3. NoPacket'
  BY <1>1, <1>2 DEF NoPacket, Idle, Rested, rd, ft, req
<1>4. TypeOK'
  <2>1. 0 \in 0..Garbage
    BY PktsAssumption DEF Garbage
  <2> QED
    BY <1>1, <2>1 DEF TypeOK, rd, ft, req, Garbage
<1>5. Starts'
  BY <1>1, <1>3 DEF Starts, rd, ft
<1>6. Memory'
  BY <1>1 DEF Memory, rd
<1>7. Counts'
  BY <1>1 DEF Counts, rd, ft
<1> QED
  BY <1>3, <1>4, <1>5, <1>6, <1>7 DEF IInv, Stage

\* A stop leaves the packet where it is.
LEMMA StopKeeps == IInv /\ Stop => IInv'
<1> SUFFICES ASSUME IInv, Stop PROVE IInv'
  OBVIOUS
<1>1. /\ UNCHANGED <<head, fifo, rd, ft, req, bram, unsent, out>> /\ run' = FALSE
      /\ run /\ rd_run
      /\ TypeOK /\ Stage /\ Memory /\ Counts
  BY DEF Stop, IInv
<1>2. Stage'
  <2> USE DEF rd, ft, req, Idle, Rested, Loaded
  <2>1. NoPacket => NoPacket'
    BY <1>1 DEF NoPacket
  <2>2. Bursting => Bursting'
    BY <1>1 DEF Bursting
  <2>3. Ready => Ready'
    BY <1>1 DEF Ready
  <2>4. Requested => Requested'
    BY <1>1 DEF Requested
  <2>5. Acked => Acked'
    BY <1>1 DEF Acked
  <2>6. Sending => Sending'
    BY <1>1 DEF Sending
  <2>7. Sent => Sent'
    BY <1>1 DEF Sent
  <2> QED
    BY <1>1, <2>1, <2>2, <2>3, <2>4, <2>5, <2>6, <2>7 DEF Stage
<1>3. TypeOK'
  BY <1>1 DEF TypeOK, rd, ft, req, Garbage
<1>4. Starts' /\ Memory' /\ Counts'
  BY <1>1 DEF Starts, Memory, Counts, rd, ft
<1> QED
  BY <1>2, <1>3, <1>4 DEF IInv

\* With no backlog the ADC block writes the packet that RD reads next, and not
\* while RD reads.
LEMMA SampledKeeps == Backlog = 1 /\ IInv /\ Sampled => IInv'
<1> SUFFICES ASSUME Backlog = 1, IInv, Sampled PROVE IInv'
  OBVIOUS
<1>1. /\ UNCHANGED <<run, rd, ft, req, bram, unsent, out>>
      /\ fifo' = [fifo EXCEPT ![head % Span] = head + 1] /\ head' = head + 1
      /\ run /\ rd_run /\ head < Pkts /\ head < tail_addr + 1
      /\ head = 0 => rd_state = "WAIT_REQ" /\ ~rd_rdy
      /\ ~(rd_rdy /\ ~pipe_req_r0)
      /\ TypeOK /\ Stage /\ Memory /\ Counts
  BY DEF Sampled, IInv
<1>2. head \in Nat /\ Pkts \in Nat /\ tail_addr \in Nat /\ Span \in Nat \ {0} /\ head % Span \in 0..Span-1
  <2>1. head \in Nat /\ Pkts \in Nat /\ tail_addr \in Nat /\ Span \in Nat \ {0}
    BY <1>1, PktsAssumption, SpanAssumption DEF TypeOK
  <2> QED
    BY <2>1, NextPlace
<1>3. head = tail_addr
  BY <1>1, <1>2 DEF Memory
<1>4. Stage'
  <2> USE DEF rd, ft, req, Idle, Rested, Loaded
  <2>1. NoPacket => NoPacket'
    BY <1>1 DEF NoPacket
  <2>2. ~Bursting /\ ~Ready
    BY <1>1, <1>2 DEF Bursting, Ready
  <2>3. Requested => Requested'
    BY <1>1 DEF Requested
  <2>4. Acked => Acked'
    BY <1>1 DEF Acked
  <2>5. Sending => Sending'
    BY <1>1 DEF Sending
  <2>6. Sent => Sent'
    BY <1>1 DEF Sent
  <2> QED
    BY <1>1, <2>1, <2>2, <2>3, <2>4, <2>5, <2>6 DEF Stage
<1>5. head + 1 \in 0..Pkts
  BY <1>1, <1>2
<1>6. TypeOK'
  <2>1. fifo' \in [0..Span-1 -> 0..Pkts]
    BY <1>1, <1>2, <1>5 DEF TypeOK
  <2> QED
    BY <1>1, <1>5, <2>1 DEF TypeOK, rd, ft, req, Garbage
<1>7. Memory'
  <2>1. fifo'[head % Span] = head + 1
    BY <1>1, <1>2 DEF TypeOK
  <2> QED
    BY <1>1, <1>3, <2>1 DEF Memory, rd
<1>8. Starts' /\ Counts'
  BY <1>1 DEF Starts, Counts, rd, ft
<1> QED
  BY <1>4, <1>6, <1>7, <1>8 DEF IInv

\* head_addr is cleared when no run is on, and RD does not look at it then.
LEMMA HeadClearedKeeps == IInv /\ HeadCleared => IInv'
<1> SUFFICES ASSUME IInv, HeadCleared PROVE IInv'
  OBVIOUS
<1>1. /\ UNCHANGED <<run, fifo, rd, ft, req, bram, unsent, out>> /\ head' = 0
      /\ ~run
      /\ TypeOK /\ Stage /\ Memory /\ Counts
  BY DEF HeadCleared, IInv
<1>2. Stage'
  <2> USE DEF rd, ft, req, Idle, Rested, Loaded
  <2>1. NoPacket => NoPacket'
    BY <1>1 DEF NoPacket
  <2>2. Bursting => Bursting'
    BY <1>1 DEF Bursting
  <2>3. Ready => Ready'
    BY <1>1 DEF Ready
  <2>4. Requested => Requested'
    BY <1>1 DEF Requested
  <2>5. Acked => Acked'
    BY <1>1 DEF Acked
  <2>6. Sending => Sending'
    BY <1>1 DEF Sending
  <2>7. Sent => Sent'
    BY <1>1 DEF Sent
  <2> QED
    BY <1>1, <2>1, <2>2, <2>3, <2>4, <2>5, <2>6, <2>7 DEF Stage
<1>3. TypeOK'
  BY <1>1, PktsAssumption DEF TypeOK, rd, ft, req, Garbage
<1>4. Starts' /\ Memory' /\ Counts'
  BY <1>1 DEF Starts, Memory, Counts, rd, ft
<1> QED
  BY <1>2, <1>3, <1>4 DEF IInv

\* Every step keeps the invariant, with no backlog in the memory.
LEMMA StepKeeps == Backlog = 1 /\ IInv /\ [Next]_vars => IInv'
<1> SUFFICES ASSUME Backlog = 1, IInv, [Next]_vars PROVE IInv'
  OBVIOUS
<1>1. ASSUME NEW mem \in BOOLEAN, NEW line \in BOOLEAN, NEW cm \in BOOLEAN, NEW end \in BOOLEAN,
             Tick(mem, line, cm, end)
      PROVE  IInv'
  BY <1>1, TickKeepsStage, TickKeepsCounts DEF IInv
<1>2. CASE UNCHANGED vars
  BY <1>2 DEF IInv, TypeOK, Stage, NoPacket, Bursting, Ready, Requested, Acked, Sending, Sent,
              Idle, Rested, Loaded, Starts, Memory, Counts, Garbage, vars, rd, ft, req
<1> QED
  BY <1>1, <1>2, StartKeeps, StopKeeps, SampledKeeps, HeadClearedKeeps DEF Next

\* The invariant holds in every state, with no backlog in the memory.
LEMMA SpecIInv == Backlog = 1 => (Spec => []IInv)
<1> SUFFICES ASSUME Backlog = 1 PROVE Spec => []IInv
  OBVIOUS
<1>1. Init => IInv
  BY InitIInv
<1>2. IInv /\ [Next]_vars => IInv'
  BY StepKeeps
<1> QED
  BY <1>1, <1>2, PTL DEF Spec

-----------------------------------------------------------------------------
\* Types: in particular no counter of the two state machines passes the number
\* of packets in a run, and RD never reads past the circular memory.
THEOREM TypeCorrect == Backlog = 1 => (Spec => []TypeOK)
<1>1. IInv => TypeOK
  BY DEF IInv
<1> QED
  BY <1>1, SpecIInv, PTL

\* "This BRAM is only used for a single pipe message": RD never writes the
\* block RAM while the packet in it has still to be sent.
THEOREM OnePacketAtATime == Backlog = 1 => (Spec => []SinglePacket)
<1>1. IInv => SinglePacket
  BY DEF IInv, SinglePacket, Stage, NoPacket, Bursting, Ready, Requested, Acked, Sending, Sent, Rested
<1> QED
  BY <1>1, SpecIInv, PTL

\* Each packet of the run goes out whole, once, after the one before it.
THEOREM PacketsInOrder == Backlog = 1 => (Spec => InOrder)
<1>1. IInv /\ [Next]_vars => [out' # out => out' = out + 1 \/ (out' = 0 /\ run' # run)]_vars
  <2> SUFFICES ASSUME IInv, [Next]_vars, out' # out
               PROVE  out' = out + 1 \/ (out' = 0 /\ run' # run)
    OBVIOUS
  <2>1. ASSUME NEW mem \in BOOLEAN, NEW line \in BOOLEAN, NEW cm \in BOOLEAN, NEW end \in BOOLEAN,
               Tick(mem, line, cm, end)
        PROVE  out' = out + 1
    <3>1. PacketEnds(line) /\ out' = bram
      BY <2>1 DEF Tick, DataTick
    <3>2. Sending
      BY <3>1, Ends
    <3> QED
      BY <3>1, <3>2 DEF Sending, Loaded
  <2>2. CASE Start
    BY <2>2 DEF Start
  <2>3. CASE Stop \/ Sampled \/ HeadCleared \/ UNCHANGED vars
    BY <2>3 DEF Stop, Sampled, HeadCleared, vars
  <2> QED
    BY <2>1, <2>2, <2>3 DEF Next
<1> QED
  BY <1>1, SpecIInv, PTL DEF Spec, InOrder

\* The pipe interrupt, on which the firmware reports the acquisition done, is
\* raised when the last packet of the run is out and not before.
THEOREM DoneNotBefore == Backlog = 1 => (Spec => DoneWhenOut)
<1>1. IInv /\ [Next]_vars => [~pipe_int /\ pipe_int' => out = Pkts /\ ~unsent]_vars
  <2> SUFFICES ASSUME IInv, [Next]_vars, ~pipe_int, pipe_int'
               PROVE  out = Pkts /\ ~unsent
    OBVIOUS
  <2>1. ASSUME NEW mem \in BOOLEAN, NEW line \in BOOLEAN, NEW cm \in BOOLEAN, NEW end \in BOOLEAN,
               Tick(mem, line, cm, end)
        PROVE  out = Pkts /\ ~unsent
    <3>1. ft_state = "PIPE_INT" /\ pipe_cnt = Pkts
      BY <2>1 DEF Tick, FtTick
    <3>2. Sent
      BY <3>1, Ends
    <3> QED
      BY <3>1, <3>2 DEF Sent
  <2>2. CASE Start \/ Stop \/ Sampled \/ HeadCleared \/ UNCHANGED vars
    BY <2>2 DEF Start, Stop, Sampled, HeadCleared, vars, ft
  <2> QED
    BY <2>1, <2>2 DEF Next
<1> QED
  BY <1>1, SpecIInv, PTL DEF Spec, DoneWhenOut
=============================================================================
