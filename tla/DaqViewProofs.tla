---------------------------- MODULE DaqViewProofs ----------------------------
(***************************************************************************)
(* Proofs about DaqView, for blocks, rings, queues and runs of any size:   *)
(* while the view keeps up the file is the run's packets in order, a run   *)
(* that ends by itself has its whole blocks in the file, and the message   *)
(* that ends it is lost for want of a CM slot or room in a queue only.     *)
(*                                                                         *)
(* The packets of a run are numbered from 0 as the driver stores them, and *)
(* its blocks too.  Where a packet is in the ring is its number's          *)
(* remainder; what the threads know of each other is said in numbers.      *)
(***************************************************************************)
EXTENDS DaqView, SequenceTheorems, TLAPS

\* The first packet of block j, and the place in the ring of packet n
At(j)    == j * Cnt
Place(n) == n % PoolSlots

\* Packets of the run that are in the ring, or have been
Stored == At(made) + pktcnt
Busy   == IF inframe THEN 1 ELSE 0

\* What the board sends as its k-th frame
Item(k) == Numbered(run, IF k <= asked THEN k ELSE 0)

\* Frames and requests
Frame == [run : Nat, n : Nat]

\* Where blocks are in the ring
Heads == {Place(At(j)) : j \in Nat}

\* Types; a frame that is being received is still at the front of wire.
Typed ==
  /\ run \in Nat /\ asked \in Nat /\ made \in Nat /\ handled \in Nat
  /\ wire \in Seq(Frame) /\ todo \in Seq(Frame) /\ req \in Seq(Frame)
  /\ cmq \in Seq({Done}) /\ rxq \in Seq(Heads \cup {Done}) /\ file \in Seq(Frame)
  /\ ring \in [0..PoolSlots-1 -> Frame]
  /\ head \in 0..PoolSlots-1 /\ blk \in 0..PoolSlots-1 /\ pktcnt \in 0..Cnt-1
  /\ cur \in Heads /\ i \in 0..Cnt-1
  /\ inframe \in BOOLEAN /\ piped \in BOOLEAN /\ writing \in BOOLEAN /\ timer \in BOOLEAN
  /\ running \in BOOLEAN /\ open \in BOOLEAN
  /\ gui \in {"idle", "starting", "stopping"} /\ ended \in {"no", "user", "done"}
  /\ excuse \subseteq {"late", "missed", "noslot"}
  /\ inframe => wire # <<>>

\* What the GUI's thread has done of a start or a stop
Modes ==
  /\ open <=> running \/ gui # "idle"
  /\ piped <=> running \/ gui = "starting"
  /\ running => gui = "idle"
  /\ gui = "starting" => ~writing /\ file = <<>>
  /\ piped => ended = "no"
  /\ ended = "done" => ~writing

\* The run's request, which the board has still to take
Request == Numbered(run, asked)
Unserved == req # <<>> /\ Head(req).n # 0

\* What is on the way: the request, or the frames of the run that the driver has
\* not stored yet.
Stream ==
  /\ req \in {<<>>, <<Request>>, <<Numbered(run, 0)>>, <<Request, Numbered(run, 0)>>}
  /\ piped => req \in {<<>>, <<Request>>}
  /\ Unserved => Stored = 0 /\ wire = <<>> /\ todo = <<>>
  /\ Stored + Len(wire) + Len(todo) <= asked + 1 /\ Stored <= asked
  /\ \A k \in 1..Len(wire) : wire[k] = Item(Stored + k)
  /\ \A k \in 1..Len(todo) : todo[k] = Item(Stored + Len(wire) + k)
  /\ inframe => wire[1].n # 0

\* The ring holds the last packets, as many as it has places.
RingHolds ==
  /\ head = Place(Stored) /\ blk = Place(At(made))
  /\ \A n \in 0..Stored-1 : n + PoolSlots >= Stored + Busy => ring[Place(n)] = Numbered(run, n + 1)

\* DAQ_DONE_IND is in one place, and nothing is behind it.
DoneLast ==
  /\ (cmq # <<>> \/ timer \/ \E k \in 1..Len(rxq) : rxq[k] = Done) =>
       Stored = asked /\ wire = <<>> /\ todo = <<>> /\ ~Unserved
  /\ cmq # <<>> => Len(cmq) = 1 /\ ~timer /\ \A k \in 1..Len(rxq) : rxq[k] # Done
  /\ \A k \in 1..Len(rxq) : rxq[k] = Done => k = Len(rxq) /\ ~timer
  /\ timer => rxq = <<>> /\ ~writing

\* Blocks the view's thread has taken
Taken == handled + (IF writing THEN 1 ELSE 0)

\* The view's queue holds the blocks that come next, all of them while pipe
\* messages are registered.
Queued ==
  /\ Taken <= made
  /\ writing => cur = Place(At(handled))
  /\ \A k \in 1..Len(rxq) : rxq[k] # Done => rxq[k] = Place(At(Taken + k - 1)) /\ Taken + k <= made
  /\ piped => Taken + Len(rxq) = (IF rxq # <<>> /\ rxq[Len(rxq)] = Done THEN made + 1 ELSE made)

\* The driver is not a ring ahead of a block that is still to be written.
Ahead ==
  writing \/ (rxq # <<>> /\ rxq[1] # Done) => Stored + Busy <= At(handled) + PoolSlots

\* The file, from block b / Cnt on
FileFrom(b) ==
  /\ b \in 0..asked /\ b % Cnt = 0 /\ b + Len(file) <= Whole
  /\ "missed" \notin excuse => b = 0
  /\ \A k \in 1..Len(file) : file[k] = Numbered(run, b + k)
  /\ open /\ writing => b + Len(file) = At(handled) + i
  /\ piped /\ ~writing => b + Len(file) = At(handled)

\* The view keeps up with the driver.
InTime == "late" \notin excuse

\* The inductive invariant.  What the board and the driver do is in order
\* whatever the view does, while the file is open; what the view has queued and
\* written is so while it keeps up.
IInv ==
  /\ Typed /\ Modes
  /\ open => Stream /\ RingHolds /\ DoneLast
  /\ open /\ InTime => Queued /\ Ahead
  /\ InTime => \E b \in Nat : FileFrom(b)
  /\ Complete

-----------------------------------------------------------------------------
\* Sizes are positive, and a block fits in the ring.
LEMMA Sizes ==
  /\ Cnt \in Nat \ {0} /\ Blks \in Nat \ {0} /\ Que \in Nat /\ Que >= 2
  /\ PoolSlots \in Nat \ {0} /\ Cnt <= PoolSlots
<1>1. Cnt \in Nat \ {0} /\ Blks \in Nat \ {0} /\ Que \in Nat /\ Que >= 2
  BY CntAssumption, BlksAssumption, QueAssumption
<1>2. Cnt * Blks \in Nat /\ Cnt * Blks >= Cnt
  BY <1>1
<1> QED
  BY <1>1, <1>2 DEF PoolSlots

\* A remainder is what is left of a multiple.
LEMMA Remainder ==
  ASSUME NEW k \in Nat \ {0}, NEW q \in Nat, NEW r \in 0..k-1
  PROVE  (k * q + r) % k = r
OBVIOUS

\* Division with a remainder.
LEMMA Division ==
  ASSUME NEW k \in Nat \ {0}, NEW n \in Nat
  PROVE  n % k \in 0..k-1 /\ n \div k \in Nat /\ n = k * (n \div k) + (n % k)
OBVIOUS

\* Blocks are whole.
LEMMA BlockWhole ==
  ASSUME NEW j \in Nat
  PROVE  At(j) % Cnt = 0
<1>1. (Cnt * j + 0) % Cnt = 0
  BY Sizes, Remainder
<1>2. At(j) = Cnt * j + 0
  BY Sizes DEF At
<1> QED
  BY <1>1, <1>2

\* Blocks follow each other, and the blocks of a ring fill it.
LEMMA Blocks ==
  /\ At(0) = 0
  /\ \A j \in Nat : /\ At(j) \in Nat
                    /\ At(j + 1) = At(j) + Cnt
                    /\ At(j + Blks) = At(j) + PoolSlots
<1> USE Sizes
<1>1. At(0) = 0
  BY DEF At
<1>2. ASSUME NEW j \in Nat
      PROVE  At(j) \in Nat /\ At(j + 1) = At(j) + Cnt /\ At(j + Blks) = At(j) + PoolSlots
  BY DEF At, PoolSlots
<1> QED
  BY <1>1, <1>2

\* A later block is further on.
LEMMA Later ==
  ASSUME NEW j \in Nat, NEW l \in Nat, j <= l
  PROVE  At(j) <= At(l)
<1>1. PICK d \in Nat : l = j + d
  <2>1. l - j \in Nat /\ l = j + (l - j)
    OBVIOUS
  <2> QED
    BY <2>1
<1>2. d * Cnt \in Nat /\ At(l) = At(j) + d * Cnt /\ At(j) \in Nat
  BY <1>1, Sizes DEF At
<1> QED
  BY <1>2

\* The driver's next place is the next packet's.
LEMMA NextPlace ==
  /\ Place(0) = 0
  /\ \A n \in Nat : /\ Place(n) \in 0..PoolSlots-1
                    /\ Place(n + 1) = IF Place(n) + 1 = PoolSlots THEN 0 ELSE Place(n) + 1
<1> DEFINE k == PoolSlots
<1>0. k \in Nat \ {0}
  BY Sizes
<1> HIDE DEF k
<1>1. 0 % k = 0
  BY <1>0
<1>2. ASSUME NEW n \in Nat
      PROVE  /\ n % k \in 0..k-1
             /\ (n + 1) % k = IF (n % k) + 1 = k THEN 0 ELSE (n % k) + 1
  <2>1. PICK q \in Nat, r \in 0..k-1 : n = k * q + r /\ r = n % k
    BY <1>0, Division
  <2>2. CASE r + 1 = k
    <3>1. n + 1 = k * (q + 1) + 0
      <4> DEFINE v == k * q
      <4>0. v \in Nat /\ n = v + r
        BY <1>0, <2>1
      <4> HIDE DEF v
      <4>1. n + 1 = v + k
        BY <1>0, <2>2, <4>0
      <4>2. k * (q + 1) = v + k
        BY <1>0 DEF v
      <4>3. k * (q + 1) \in Nat
        BY <1>0
      <4> QED
        BY <4>1, <4>2, <4>3
    <3>2. (k * (q + 1) + 0) % k = 0
      BY <1>0, Remainder
    <3> QED
      BY <2>1, <2>2, <3>1, <3>2
  <2>3. CASE r + 1 # k
    <3>1. n + 1 = k * q + (r + 1) /\ r + 1 \in 0..k-1
      BY <1>0, <2>1, <2>3
    <3>2. (k * q + (r + 1)) % k = r + 1
      BY <1>0, <3>1, Remainder
    <3> QED
      BY <1>0, <2>1, <2>3, <3>1, <3>2
  <2> QED
    BY <2>2, <2>3
<1> QED
  BY <1>1, <1>2 DEF Place, k

\* A place is used again a ring later, not before.
LEMMA SamePlace ==
  ASSUME NEW n \in Nat, NEW m \in Nat, n < m, Place(n) = Place(m)
  PROVE  n + PoolSlots <= m
<1> DEFINE k == PoolSlots
<1>0. k \in Nat \ {0}
  BY Sizes
<1> HIDE DEF k
<1>1. PICK q \in Nat, r \in 0..k-1 : n = k * q + r /\ r = n % k
  BY <1>0, Division
<1>2. PICK p \in Nat, s \in 0..k-1 : m = k * p + s /\ s = m % k
  BY <1>0, Division
<1>3. r = s
  BY <1>1, <1>2 DEF Place, k
<1>4. k * q < k * p /\ q < p
  BY <1>0, <1>1, <1>2, <1>3
<1>5. PICK d \in Nat : p = q + 1 + d
  <2>1. p - q - 1 \in Nat /\ p = q + 1 + (p - q - 1)
    BY <1>4
  <2> QED
    BY <2>1
<1>6. k * d \in Nat /\ k * p = k * q + k + k * d
  BY <1>0, <1>5
<1>7. n + k <= m
  BY <1>0, <1>1, <1>2, <1>3, <1>6
<1> QED
  BY <1>7 DEF k

\* The packets of a block are next to each other.
LEMMA InBlock ==
  ASSUME NEW j \in Nat, NEW c \in 0..Cnt-1
  PROVE  Place(At(j) + c) = Place(At(j)) + c
<1> USE Sizes
<1>1. PICK q \in Nat, r \in 0..Blks-1 : j = Blks * q + r
  BY Division
<1> DEFINE a == At(r)
<1>2. a \in Nat /\ a + Cnt <= PoolSlots
  <2>1. At(r + 1) <= At(0 + Blks)
    BY Later
  <2>2. At(0 + Blks) = PoolSlots
    BY Blocks
  <2>3. At(r) \in Nat /\ At(r + 1) = At(r) + Cnt
    BY Blocks
  <2> QED
    BY <2>1, <2>2, <2>3
<1>3. At(j) = PoolSlots * q + a
  BY <1>1 DEF At, PoolSlots
<1> HIDE DEF a
<1>4. (PoolSlots * q + a) % PoolSlots = a
  BY <1>2, Remainder
<1>5. (PoolSlots * q + (a + c)) % PoolSlots = a + c
  BY <1>2, Remainder
<1>6. PoolSlots * q \in Nat
  OBVIOUS
<1>7. At(j) + c = PoolSlots * q + (a + c)
  BY <1>2, <1>3, <1>6
<1> QED
  BY <1>3, <1>4, <1>5, <1>7 DEF Place

\* Whole is the last block that the run fills.
LEMMA WholeBlocks ==
  ASSUME asked \in Nat
  PROVE  /\ Whole \in Nat
         /\ \A j \in Nat : At(j) <= asked => At(j) <= Whole
         /\ \A j \in Nat, c \in 0..Cnt-1 : asked = At(j) + c => Whole = At(j)
<1> USE Sizes
<1>1. PICK q \in Nat, r \in 0..Cnt-1 : asked = Cnt * q + r /\ r = asked % Cnt
  BY Division
<1>2. Whole = At(q) /\ At(q) \in Nat /\ asked = At(q) + r
  <2>1. Cnt * q = At(q) /\ Cnt * q \in Nat
    BY DEF At
  <2> QED
    BY <1>1, <2>1 DEF Whole
<1>3. ASSUME NEW j \in Nat, At(j) <= asked
      PROVE  j <= q
  <2> SUFFICES ASSUME ~(j <= q) PROVE FALSE
    OBVIOUS
  <2>1. q + 1 <= j
    OBVIOUS
  <2>2. At(q + 1) <= At(j)
    BY <2>1, Later
  <2> QED
    BY <1>2, <1>3, <2>2, Blocks
<1>4. ASSUME NEW j \in Nat, At(j) <= asked
      PROVE  At(j) <= Whole
  BY <1>2, <1>3, <1>4, Later
<1>5. ASSUME NEW j \in Nat, NEW c \in 0..Cnt-1, asked = At(j) + c
      PROVE  Whole = At(j)
  <2>1. At(j) <= asked /\ At(j) \in Nat
    BY <1>5, Blocks
  <2>2. j <= q
    BY <1>3, <2>1
  <2>3. CASE j = q
    BY <1>2, <2>3
  <2>4. CASE j + 1 <= q
    <3>1. At(j + 1) <= At(q)
      BY <2>4, Later
    <3>2. At(j + 1) = At(j) + Cnt
      BY Blocks
    <3> QED
      BY <1>2, <1>5, <2>1, <3>1, <3>2
  <2> QED
    BY <2>2, <2>3, <2>4
<1> QED
  BY <1>2, <1>4, <1>5

-----------------------------------------------------------------------------
\* A queue and what is behind its first element
LEMMA Behind ==
  ASSUME NEW S, NEW q \in Seq(S), q # <<>>
  PROVE  /\ Len(q) \in Nat \ {0} /\ q[1] \in S /\ Head(q) = q[1]
         /\ Tail(q) \in Seq(S) /\ Len(Tail(q)) = Len(q) - 1
         /\ \A k \in 1..Len(q)-1 : Tail(q)[k] = q[k + 1]
         /\ Len(q) = 1 => Tail(q) = <<>>
<1>1. Len(q) \in Nat \ {0}
  BY EmptySeq
<1>2. /\ q[1] \in S /\ Head(q) = q[1]
      /\ Tail(q) \in Seq(S) /\ Len(Tail(q)) = Len(q) - 1
  BY <1>1
<1>3. \A k \in 1..Len(q)-1 : Tail(q)[k] = q[k + 1]
  BY <1>1
<1>4. Len(q) = 1 => Tail(q) = <<>>
  <2> DEFINE t == Tail(q)
  <2>1. t \in Seq(S) /\ Len(t) = Len(q) - 1
    BY <1>2
  <2> HIDE DEF t
  <2>2. Len(q) = 1 => t = <<>>
    BY <2>1, EmptySeq
  <2> QED
    BY <2>2 DEF t
<1> QED
  BY <1>1, <1>2, <1>3, <1>4

\* A queue and one more element
LEMMA Longer ==
  ASSUME NEW S, NEW q \in Seq(S), NEW e \in S
  PROVE  /\ Len(q) \in Nat /\ Append(q, e) \in Seq(S) /\ Append(q, e) # <<>>
         /\ Len(Append(q, e)) = Len(q) + 1 /\ Append(q, e)[Len(q) + 1] = e
         /\ \A k \in 1..Len(q) : Append(q, e)[k] = q[k]
OBVIOUS

\* A function on the first numbers is a queue.
LEMMA Listed ==
  ASSUME NEW S, NEW m \in Nat, NEW f \in [1..m -> S]
  PROVE  f \in Seq(S)
  BY SeqDef

\* Queues of one and of two
LEMMA PairUp ==
  ASSUME NEW x, NEW y
  PROVE  Append(<<>>, y) = <<y>> /\ Append(<<x>>, y) = <<x, y>>
<1> DEFINE S == {x, y}
           s == Append(<<x>>, y)
           t == <<x, y>>
<1>1. <<x>> \in Seq(S) /\ t \in Seq(S) /\ Len(t) = 2 /\ t[1] = x /\ t[2] = y
  OBVIOUS
<1>2. Len(<<x>>) = 1 /\ <<x>>[1] = x
  OBVIOUS
<1>3. s \in Seq(S) /\ Len(s) = 2 /\ s[1] = x /\ s[2] = y
  BY <1>1, <1>2, AppendProperties
<1> HIDE DEF s, t
<1>4. \A k \in 1..Len(s) : s[k] = t[k]
  <2>1. \A k \in 1..2 : k = 1 \/ k = 2
    OBVIOUS
  <2> QED
    BY <1>1, <1>3, <2>1
<1>5. s = t
  BY <1>1, <1>3, <1>4, SeqEqual
<1> QED
  BY <1>5 DEF s, t

\* Only the empty queue has no elements.
LEMMA NoLength ==
  ASSUME NEW S, NEW q \in Seq(S)
  PROVE  Len(q) \in Nat /\ (q = <<>> <=> Len(q) = 0)
<1>1. Len(q) = 0 => q = <<>>
  BY EmptySeq
<1> QED
  BY <1>1

\* What counts packets and blocks counts with naturals.
LEMMA Counting ==
  ASSUME Typed
  PROVE  /\ made \in Nat /\ handled \in Nat /\ pktcnt \in 0..Cnt-1 /\ pktcnt \in Nat
         /\ At(made) \in Nat /\ At(handled) \in Nat /\ Stored \in Nat
         /\ Taken \in Nat /\ Busy \in {0, 1} /\ asked \in Nat /\ run \in Nat
<1>1. /\ made \in Nat /\ handled \in Nat /\ pktcnt \in 0..Cnt-1 /\ asked \in Nat /\ run \in Nat
  BY DEF Typed
<1>2. At(made) \in Nat /\ At(handled) \in Nat
  BY <1>1, Blocks
<1>3. pktcnt \in Nat /\ Stored \in Nat
  BY <1>1, <1>2, Sizes DEF Stored
<1>4. Taken \in Nat /\ Busy \in {0, 1}
  BY <1>1 DEF Taken, Busy
<1> QED
  BY <1>1, <1>2, <1>3, <1>4

-----------------------------------------------------------------------------
\* The board takes a request: the run's frames are the next ones, or there are
\* no more of them, or there is only the indication.
LEMMA BoardRequestKeeps ==
  ASSUME IInv, BoardRequest
  PROVE  IInv'
<1> DEFINE r == Head(req)
<1>1. /\ req # <<>> /\ req' = Tail(req)
      /\ IF r.n = 0
         THEN todo' = <<>> \/ (Len(todo) = 1 /\ todo' = todo)
         ELSE todo' = [k \in 1..r.n + 1 |-> Numbered(r.run, IF k > r.n THEN 0 ELSE k)]
  BY DEF BoardRequest
<1>2. /\ wire' = wire /\ cmq' = cmq /\ piped' = piped /\ rxq' = rxq /\ timer' = timer
      /\ file' = file /\ excuse' = excuse
      /\ ring' = ring /\ head' = head /\ blk' = blk /\ pktcnt' = pktcnt /\ inframe' = inframe
      /\ cur' = cur /\ i' = i /\ writing' = writing
      /\ gui' = gui /\ running' = running /\ open' = open /\ run' = run /\ asked' = asked
      /\ ended' = ended /\ made' = made /\ handled' = handled
  BY DEF BoardRequest, driver, view, user, counts
<1>3. Typed
  BY DEF IInv
<1>4. r \in Frame /\ Tail(req) \in Seq(Frame)
  BY <1>1, <1>3, Behind DEF Typed
<1>5. todo' \in Seq(Frame)
  <2>1. CASE r.n = 0
    <3>1. <<>> \in Seq(Frame) /\ todo \in Seq(Frame)
      BY <1>3, EmptySeq DEF Typed
    <3> QED
      BY <1>1, <2>1, <3>1
  <2>2. CASE r.n # 0
    <3>1. r.n + 1 \in Nat /\ r.run \in Nat
      BY <1>4 DEF Frame
    <3>2. ASSUME NEW k \in 1..r.n + 1
          PROVE  Numbered(r.run, IF k > r.n THEN 0 ELSE k) \in Frame
      BY <3>1 DEF Frame, Numbered
    <3>3. todo' \in [1..r.n + 1 -> Frame]
      BY <1>1, <2>2, <3>2
    <3>4. PICK m \in Nat : todo' \in [1..m -> Frame]
      BY <3>1, <3>3
    <3> QED
      BY <3>4, Listed
  <2> QED
    BY <2>1, <2>2
<1>6. Typed'
  BY <1>1, <1>2, <1>3, <1>4, <1>5 DEF Typed
<1>7. ASSUME open
      PROVE  Stream' /\ DoneLast'
  <2>1. Stream /\ DoneLast
    BY <1>7 DEF IInv
  <2>2. Stored' = Stored /\ Request' = Request
    BY <1>2 DEF Stored, Request, Numbered
  <2>3. req' \in {<<>>, <<Numbered(run, 0)>>} /\ ~Unserved' /\ r \in {Request, Numbered(run, 0)}
    <3>1. Tail(req) \in {<<>>, <<Numbered(run, 0)>>} /\ Head(req) \in {Request, Numbered(run, 0)}
      <4> DEFINE S == Numbered(run, 0)
      <4>1. /\ Head(<<Request>>) = Request /\ Tail(<<Request>>) = <<>>
            /\ Head(<<S>>) = S /\ Tail(<<S>>) = <<>>
            /\ Head(<<Request, S>>) = Request /\ Tail(<<Request, S>>) = <<S>>
        OBVIOUS
      <4>2. req \in {<<Request>>, <<S>>, <<Request, S>>}
        BY <1>1, <2>1 DEF Stream
      <4> QED
        BY <4>1, <4>2
    <3>2. Head(<<Numbered(run, 0)>>).n = 0
      BY DEF Numbered
    <3> QED
      BY <1>1, <1>2, <3>1, <3>2 DEF Unserved
  <2>4. piped => req' = <<>>
    <3>1. Tail(<<Request>>) = <<>>
      OBVIOUS
    <3> QED
      BY <1>1, <2>1, <3>1 DEF Stream
  <2>5. CASE r.n = 0
    <3>1. /\ todo' \in Seq(Frame) /\ Len(todo') \in Nat /\ Len(todo') <= Len(todo)
          /\ \A k \in 1..Len(todo') : todo'[k] = todo[k]
          /\ todo = <<>> => todo' = <<>>
      BY <1>1, <1>3, <1>5, <2>5, NoLength DEF Typed
    <3>2. Stored \in Nat /\ Len(wire) \in Nat /\ Len(todo) \in Nat /\ asked \in Nat
      BY <1>3, Counting DEF Typed
    <3>3. Stream'
      BY <1>2, <2>1, <2>2, <2>3, <2>4, <3>1, <3>2 DEF Stream, Item
    <3>4. DoneLast'
      BY <1>2, <2>1, <2>2, <2>3, <3>1 DEF DoneLast
    <3> QED
      BY <3>3, <3>4
  <2>6. CASE r.n # 0
    <3>1. Unserved /\ Stored = 0 /\ wire = <<>> /\ todo = <<>>
      BY <1>1, <2>1, <2>6 DEF Unserved, Stream
    <3>2. r = Request /\ asked \in Nat \ {0}
      BY <1>3, <2>3, <2>6 DEF Request, Numbered, Typed
    <3>3. /\ Len(todo') = asked + 1
          /\ \A k \in 1..Len(todo') : todo'[k] = Item(k)
      BY <1>1, <2>6, <3>2 DEF Request, Numbered, Item
    <3>4. Stream'
      BY <1>2, <2>1, <2>2, <2>3, <2>4, <3>1, <3>2, <3>3 DEF Stream, Item
    <3>5. DoneLast'
      BY <1>2, <2>1, <3>1 DEF DoneLast
    <3> QED
      BY <3>4, <3>5
  <2> QED
    BY <2>5, <2>6
<1>8. Modes' /\ Complete' /\ (open' => RingHolds')
  BY <1>2 DEF IInv, Modes, Complete, Whole, RingHolds, Stored, Busy, Numbered
<1>9. open' /\ InTime' => Queued' /\ Ahead'
  BY <1>2 DEF IInv, InTime, Queued, Ahead, Taken, Stored, Busy
<1>10. InTime' => \E b \in Nat : FileFrom(b)'
  BY <1>2 DEF IInv, InTime, FileFrom, Whole, Numbered
<1> QED
  BY <1>2, <1>6, <1>7, <1>8, <1>9, <1>10 DEF IInv

\* The board sends a frame: it is on the line now.
LEMMA BoardSendsKeeps ==
  ASSUME IInv, BoardSends
  PROVE  IInv'
<1>1. /\ todo # <<>> /\ wire' = Append(wire, Head(todo)) /\ todo' = Tail(todo)
      /\ req' = req /\ cmq' = cmq /\ piped' = piped /\ rxq' = rxq /\ timer' = timer
      /\ file' = file /\ excuse' = excuse
      /\ ring' = ring /\ head' = head /\ blk' = blk /\ pktcnt' = pktcnt /\ inframe' = inframe
      /\ cur' = cur /\ i' = i /\ writing' = writing
      /\ gui' = gui /\ running' = running /\ open' = open /\ run' = run /\ asked' = asked
      /\ ended' = ended /\ made' = made /\ handled' = handled
  BY DEF BoardSends, driver, view, user, counts
<1>2. Typed
  BY DEF IInv
<1>3. wire \in Seq(Frame) /\ todo \in Seq(Frame)
  BY <1>2 DEF Typed
<1>4. /\ Head(todo) = todo[1] /\ todo[1] \in Frame /\ Len(todo) \in Nat \ {0}
      /\ todo' \in Seq(Frame) /\ Len(todo') = Len(todo) - 1
      /\ \A k \in 1..Len(todo)-1 : todo'[k] = todo[k + 1]
  BY <1>1, <1>3, Behind
<1>5. /\ wire' \in Seq(Frame) /\ wire' # <<>> /\ Len(wire) \in Nat /\ Len(wire') = Len(wire) + 1
      /\ wire'[Len(wire) + 1] = todo[1]
      /\ \A k \in 1..Len(wire) : wire'[k] = wire[k]
  BY <1>1, <1>3, <1>4, Longer
<1>6. Typed'
  BY <1>1, <1>2, <1>4, <1>5 DEF Typed
<1>7. ASSUME open
      PROVE  Stream' /\ DoneLast'
  <2>1. Stream /\ DoneLast /\ Stored' = Stored /\ Request' = Request /\ Stored \in Nat
    BY <1>1, <1>2, <1>7, Counting DEF IInv, Stored, Request, Numbered
  <2>2. ~Unserved
    BY <1>1, <2>1 DEF Stream
  <2>3. /\ \A k \in 1..Len(wire') : wire'[k] = Item(Stored + k)
        /\ \A k \in 1..Len(todo') : todo'[k] = Item(Stored + Len(wire') + k)
    <3>1. ASSUME NEW k \in 1..Len(wire')
          PROVE  wire'[k] = Item(Stored + k)
      <4>1. CASE k \in 1..Len(wire)
        BY <1>5, <2>1, <4>1 DEF Stream
      <4>2. CASE k = Len(wire) + 1
        <5>1. todo[1] = Item(Stored + Len(wire) + 1)
          BY <1>4, <2>1 DEF Stream
        <5>2. Stored + k = Stored + Len(wire) + 1
          BY <4>2, <1>5, <2>1
        <5> QED
          BY <1>5, <4>2, <5>1, <5>2
      <4> QED
        BY <1>5, <3>1, <4>1, <4>2
    <3>2. ASSUME NEW k \in 1..Len(todo')
          PROVE  todo'[k] = Item(Stored + Len(wire') + k)
      <4>1. k + 1 \in 1..Len(todo) /\ Stored + Len(wire) + (k + 1) = Stored + Len(wire') + k
        BY <1>4, <1>5, <2>1, <3>2
      <4> QED
        BY <1>4, <2>1, <3>2, <4>1 DEF Stream
    <3> QED
      BY <3>1, <3>2
  <2>4. inframe => wire'[1] = wire[1] /\ wire[1].n # 0
    BY <1>2, <1>5, <2>1, NoLength DEF Stream, Typed
  <2>5. Stream'
    <3>1. Stored + Len(wire') + Len(todo') <= asked + 1
      BY <1>2, <1>4, <1>5, <2>1 DEF Stream, Typed
    <3>3. ~Unserved'
      BY <1>1, <2>2 DEF Unserved
    <3> QED
      BY <1>1, <1>5, <2>1, <2>3, <2>4, <3>1, <3>3 DEF Stream, Item
  <2>6. DoneLast'
    BY <1>1, <2>1 DEF DoneLast
  <2> QED
    BY <2>5, <2>6
<1>8. Modes' /\ Complete' /\ (open' => RingHolds')
  BY <1>1 DEF IInv, Modes, Complete, Whole, RingHolds, Stored, Busy, Numbered
<1>9. open' /\ InTime' => Queued' /\ Ahead'
  BY <1>1 DEF IInv, InTime, Queued, Ahead, Taken, Stored, Busy
<1>10. InTime' => \E b \in Nat : FileFrom(b)'
  BY <1>1 DEF IInv, InTime, FileFrom, Whole, Numbered
<1> QED
  BY <1>1, <1>6, <1>7, <1>8, <1>9, <1>10 DEF IInv

\* A start that fails resets the ring of no run.
LEMMA StartFailsKeeps ==
  ASSUME IInv, StartFails
  PROVE  IInv'
<1>1. /\ gui = "idle" /\ ~running /\ head' = 0 /\ blk' = 0 /\ pktcnt' = 0
      /\ req' = req /\ todo' = todo /\ wire' = wire
      /\ cmq' = cmq /\ piped' = piped /\ rxq' = rxq /\ timer' = timer
      /\ file' = file /\ excuse' = excuse /\ ring' = ring /\ inframe' = inframe
      /\ cur' = cur /\ i' = i /\ writing' = writing
      /\ gui' = gui /\ running' = running /\ open' = open /\ run' = run /\ asked' = asked
      /\ ended' = ended /\ made' = made /\ handled' = handled
  BY DEF StartFails, board, view, user, counts
<1>2. Typed'
  <2>1. 0 \in 0..PoolSlots-1 /\ 0 \in 0..Cnt-1
    BY Sizes
  <2> QED
    BY <1>1, <2>1 DEF IInv, Typed
<1>3. Modes' /\ ~open' /\ Complete'
  BY <1>1 DEF IInv, Modes, Complete, Whole
<1>4. InTime' => \E b \in Nat : FileFrom(b)'
  BY <1>1 DEF IInv, InTime, FileFrom, Whole, Numbered
<1> QED
  BY <1>2, <1>3, <1>4 DEF IInv

\* Until m_bRunning is set the view has written nothing; then it writes.
LEMMA StartedKeeps ==
  ASSUME IInv, Started
  PROVE  IInv'
<1>1. /\ gui = "starting" /\ gui' = "idle" /\ running' = TRUE
      /\ req' = req /\ todo' = todo /\ wire' = wire
      /\ cmq' = cmq /\ piped' = piped /\ rxq' = rxq /\ timer' = timer
      /\ file' = file /\ excuse' = excuse
      /\ ring' = ring /\ head' = head /\ blk' = blk /\ pktcnt' = pktcnt /\ inframe' = inframe
      /\ cur' = cur /\ i' = i /\ writing' = writing
      /\ open' = open /\ run' = run /\ asked' = asked
      /\ ended' = ended /\ made' = made /\ handled' = handled
  BY DEF Started, board, driver, view, counts
<1>2. Typed'
  BY <1>1 DEF IInv, Typed
<1>3. Modes' /\ Complete'
  BY <1>1 DEF IInv, Modes, Complete, Whole
<1>4. open' => Stream' /\ RingHolds' /\ DoneLast'
  BY <1>1 DEF IInv, Stream, RingHolds, DoneLast, Stored, Busy, Item, Request, Numbered, Unserved
<1>5. open' /\ InTime' => Queued' /\ Ahead'
  BY <1>1 DEF IInv, InTime, Queued, Ahead, Taken, Stored, Busy
<1>6. InTime' => \E b \in Nat : FileFrom(b)'
  BY <1>1 DEF IInv, InTime, FileFrom, Whole, Numbered
<1> QED
  BY <1>2, <1>3, <1>4, <1>5, <1>6 DEF IInv

\* Closing the file leaves what is in it.
LEMMA StoppedKeeps ==
  ASSUME IInv, Stopped
  PROVE  IInv'
<1>1. /\ gui = "stopping" /\ gui' = "idle" /\ open' = FALSE
      /\ req' = req /\ todo' = todo /\ wire' = wire
      /\ cmq' = cmq /\ piped' = piped /\ rxq' = rxq /\ timer' = timer
      /\ file' = file /\ excuse' = excuse
      /\ ring' = ring /\ head' = head /\ blk' = blk /\ pktcnt' = pktcnt /\ inframe' = inframe
      /\ cur' = cur /\ i' = i /\ writing' = writing
      /\ running' = running /\ run' = run /\ asked' = asked
      /\ ended' = ended /\ made' = made /\ handled' = handled
  BY DEF Stopped, board, driver, view, counts
<1>2. Typed'
  BY <1>1 DEF IInv, Typed
<1>3. Modes' /\ Complete'
  BY <1>1 DEF IInv, Modes, Complete, Whole
<1>4. InTime' => \E b \in Nat : FileFrom(b)'
  BY <1>1 DEF IInv, InTime, FileFrom, Whole, Numbered
<1> QED
  BY <1>1, <1>2, <1>3, <1>4 DEF IInv

-----------------------------------------------------------------------------
\* A place where a block starts is a place, and no DAQ_DONE_IND.
LEMMA HeadPlaces ==
  /\ Heads \subseteq 0..PoolSlots-1 /\ Done \notin Heads /\ 0 \in Heads
  /\ \A j \in Nat : Place(At(j)) \in Heads
<1>1. \A j \in Nat : Place(At(j)) \in Heads /\ Place(At(j)) \in 0..PoolSlots-1
  BY Blocks, NextPlace DEF Heads
<1>2. Place(At(0)) = 0
  BY Blocks, NextPlace
<1>3. 0 \in Heads
  BY <1>1, <1>2
<1>4. Heads \subseteq 0..PoolSlots-1
  BY <1>1 DEF Heads
<1> QED
  BY <1>1, <1>3, <1>4, Sizes DEF Done

\* The view's queue takes one more, unless that fills it.
LEMMA Queueing ==
  ASSUME Typed, NEW e \in Heads \cup {Done}, rxq' = Put(rxq, e)
  PROVE  /\ rxq' \in Seq(Heads \cup {Done}) /\ Len(rxq) \in Nat
         /\ rxq' = <<>> <=> Len(rxq) + 1 = Que
         /\ Len(rxq) + 1 # Que =>
              /\ Len(rxq') = Len(rxq) + 1 /\ rxq'[Len(rxq) + 1] = e
              /\ \A k \in 1..Len(rxq) : rxq'[k] = rxq[k]
<1>1. rxq \in Seq(Heads \cup {Done})
  BY DEF Typed
<1>2. CASE Len(rxq) + 1 = Que
  <2>1. rxq' = <<>>
    BY <1>2 DEF Put
  <2> QED
    BY <1>1, <1>2, <2>1, EmptySeq
<1>3. CASE Len(rxq) + 1 # Que
  <2>1. rxq' = Append(rxq, e)
    BY <1>3 DEF Put
  <2> QED
    BY <1>1, <1>3, <2>1, Longer
<1> QED
  BY <1>2, <1>3

\* The frame that comes next
LEMMA NextFrame ==
  ASSUME Typed, Stream, wire # <<>>
  PROVE  /\ wire[1] = Item(Stored + 1) /\ ~Unserved
         /\ wire[1].n # 0 => Stored + 1 <= asked /\ wire[1] = Numbered(run, Stored + 1)
         /\ wire[1].n = 0 => Stored = asked /\ Len(wire) = 1 /\ todo = <<>>
<1>1. Len(wire) \in Nat \ {0} /\ Len(todo) \in Nat /\ (Len(todo) = 0 => todo = <<>>)
  BY NoLength DEF Typed
<1>2. wire[1] = Item(Stored + 1) /\ ~Unserved
  BY <1>1 DEF Stream
<1>3. Stored \in Nat /\ asked \in Nat
  BY Counting
<1>4. wire[1].n = IF Stored + 1 <= asked THEN Stored + 1 ELSE 0
  BY <1>2 DEF Item, Numbered
<1>5. Stored + Len(wire) + Len(todo) <= asked + 1 /\ Stored <= asked
  BY DEF Stream
<1>6. wire[1].n # 0 => Stored + 1 <= asked /\ wire[1] = Numbered(run, Stored + 1)
  BY <1>2, <1>4 DEF Item
<1>7. wire[1].n = 0 => ~(Stored + 1 <= asked)
  BY <1>3, <1>4
<1>8. wire[1].n = 0 => Stored = asked /\ Len(wire) = 1 /\ Len(todo) = 0
  <2> HAVE wire[1].n = 0
  <2>1. Stored = asked
    BY <1>3, <1>5, <1>7
  <2>2. Len(wire) + Len(todo) <= 1
    BY <1>1, <1>3, <1>5, <2>1
  <2>3. \A a \in Nat \ {0}, c \in Nat : a + c <= 1 => a = 1 /\ c = 0
    OBVIOUS
  <2>4. Len(wire) = 1 /\ Len(todo) = 0
    BY <1>1, <2>2, <2>3
  <2> QED
    BY <2>1, <2>4
<1> QED
  BY <1>1, <1>2, <1>6, <1>8

\* While frames come there is no DAQ_DONE_IND.
LEMMA NoDoneYet ==
  ASSUME DoneLast, wire # <<>>
  PROVE  cmq = <<>> /\ ~timer /\ \A k \in 1..Len(rxq) : rxq[k] # Done
  BY DEF DoneLast

\* A packet begins: where it goes nothing is that the view has still to write,
\* or the run has an excuse.
LEMMA FrameStartsKeeps ==
  ASSUME IInv, FrameStarts
  PROVE  IInv'
<1>1. /\ wire # <<>> /\ ~inframe /\ Head(wire).n # 0 /\ inframe' = TRUE
      /\ ring' = [ring EXCEPT ![head] = Torn]
      /\ excuse' = excuse \cup (IF (writing \/ rxq # <<>>) /\ made - handled >= Blks
                                THEN {"late"} ELSE {})
      /\ req' = req /\ todo' = todo /\ wire' = wire
      /\ cmq' = cmq /\ piped' = piped /\ rxq' = rxq /\ timer' = timer /\ file' = file
      /\ head' = head /\ blk' = blk /\ pktcnt' = pktcnt
      /\ cur' = cur /\ i' = i /\ writing' = writing
      /\ gui' = gui /\ running' = running /\ open' = open /\ run' = run /\ asked' = asked
      /\ ended' = ended /\ made' = made /\ handled' = handled
  BY DEF FrameStarts, board, view, user, counts
<1>2. Typed
  BY DEF IInv
<1>3. Typed'
  <2>1. Torn \in Frame
    BY DEF Torn, Frame, Numbered
  <2>2. ring' \in [0..PoolSlots-1 -> Frame]
    BY <1>1, <1>2, <2>1 DEF Typed
  <2> QED
    BY <1>1, <1>2, <2>2 DEF Typed
<1>4. Modes' /\ Complete'
  BY <1>1 DEF IInv, Modes, Complete, Whole
<1>5. wire[1].n # 0
  BY <1>1, <1>2, Behind DEF Typed
<1>6. ASSUME open
      PROVE  Stream' /\ RingHolds' /\ DoneLast'
  <2>1. Stream /\ RingHolds /\ DoneLast
    BY <1>6 DEF IInv
  <2>2. Stream' /\ DoneLast'
    BY <1>1, <1>5, <2>1 DEF Stream, DoneLast, Stored, Item, Request, Numbered, Unserved
  <2>3. Stored' = Stored /\ Busy' = 1 /\ Busy = 0 /\ Stored \in Nat /\ head = Place(Stored)
    BY <1>1, <1>2, <2>1, Counting DEF Stored, Busy, RingHolds
  <2>4. ASSUME NEW n \in 0..Stored-1, n + PoolSlots >= Stored + 1
        PROVE  ring'[Place(n)] = Numbered(run, n + 1)
    <3>1. n \in Nat /\ n < Stored
      BY <2>3
    <3>2. Place(n) # Place(Stored)
      BY <2>3, <2>4, <3>1, SamePlace, Sizes
    <3>3. Place(n) \in 0..PoolSlots-1
      BY <3>1, NextPlace
    <3>4. ring'[Place(n)] = ring[Place(n)]
      BY <1>1, <1>2, <2>3, <3>2, <3>3 DEF Typed
    <3>5. n + PoolSlots >= Stored + Busy
      BY <2>3, <2>4, <3>1, Sizes
    <3> QED
      BY <2>1, <3>4, <3>5 DEF RingHolds
  <2>5. RingHolds'
    BY <1>1, <2>1, <2>3, <2>4 DEF RingHolds, Numbered
  <2> QED
    BY <2>2, <2>5
<1>7. InTime' => InTime /\ excuse' = excuse /\ ((writing \/ rxq # <<>>) => ~(made - handled >= Blks))
  BY <1>1, <1>2 DEF InTime, Typed
<1>8. ASSUME open, InTime'
      PROVE  Queued' /\ Ahead'
  <2>1. Queued /\ Ahead
    BY <1>7, <1>8 DEF IInv
  <2>2. Queued'
    BY <1>1, <2>1 DEF Queued, Taken
  <2>3. ASSUME writing \/ rxq # <<>>
        PROVE  Stored + 1 <= At(handled) + PoolSlots
    <3>1. /\ made \in Nat /\ handled \in Nat /\ pktcnt \in Nat /\ pktcnt < Cnt
          /\ At(made) \in Nat /\ At(handled) \in Nat
      BY <1>2, Counting, Sizes
    <3>2. made + 1 <= handled + Blks
      BY <1>7, <1>8, <2>3, <3>1, Sizes
    <3>3. At(made + 1) <= At(handled + Blks)
      BY <3>1, <3>2, Later, Sizes
    <3>4. At(made + 1) = At(made) + Cnt /\ At(handled + Blks) = At(handled) + PoolSlots
      BY <3>1, Blocks
    <3> QED
      BY <3>1, <3>3, <3>4, Sizes DEF Stored
  <2>4. Stored' = Stored /\ Busy' = 1
    BY <1>1 DEF Stored, Busy
  <2>5. Ahead'
    BY <1>1, <2>3, <2>4 DEF Ahead
  <2> QED
    BY <2>2, <2>5
<1>9. InTime' => \E b \in Nat : FileFrom(b)'
  BY <1>1, <1>7 DEF IInv, FileFrom, Whole, Numbered
<1> QED
  BY <1>1, <1>3, <1>4, <1>6, <1>8, <1>9 DEF IInv

\* What the end of a packet changes in the driver: one more packet stored, at
\* the next place, and maybe one more block.
LEMMA OneMoreStored ==
  ASSUME Typed, RingHolds, FrameEnds
  PROVE  /\ Stored' = Stored + 1 /\ head' = Place(Stored') /\ blk' = Place(At(made'))
         /\ pktcnt + 1 = Cnt => made' = made + 1 /\ At(made') = Stored + 1
<1>1. /\ made \in Nat /\ pktcnt \in 0..Cnt-1 /\ Cnt \in Nat \ {0} /\ Stored \in Nat /\ At(made) \in Nat
  BY Counting, Sizes
<1>2. NextHead = Place(Stored + 1)
  BY <1>1, NextPlace DEF NextHead, RingHolds
<1>3. head' = NextHead
  BY DEF FrameEnds
<1>4. CASE pktcnt + 1 = Cnt
  <2>1. pktcnt' = 0 /\ blk' = NextHead /\ made' = made + 1
    BY <1>4 DEF FrameEnds
  <2>2. At(made + 1) = At(made) + Cnt
    BY <1>1, Blocks
  <2>3. At(made') = Stored + 1
    BY <1>1, <1>4, <2>1, <2>2 DEF Stored
  <2>4. Stored' = Stored + 1
    BY <1>1, <2>1, <2>3 DEF Stored
  <2> QED
    BY <1>2, <1>3, <2>1, <2>3, <2>4
<1>5. CASE pktcnt + 1 # Cnt
  <2>1. pktcnt' = pktcnt + 1 /\ blk' = blk /\ made' = made
    BY <1>5 DEF FrameEnds
  <2>2. Stored' = Stored + 1
    BY <1>1, <2>1 DEF Stored
  <2> QED
    BY <1>2, <1>3, <1>5, <2>1, <2>2 DEF RingHolds
<1> QED
  BY <1>4, <1>5

\* A packet ends: it is in the ring, and a whole block goes to the view.
LEMMA FrameEndsKeeps ==
  ASSUME IInv, FrameEnds
  PROVE  IInv'
<1>1. /\ inframe /\ inframe' = FALSE /\ wire' = Tail(wire)
      /\ ring' = [ring EXCEPT ![head] = Head(wire)] /\ head' = NextHead
      /\ req' = req /\ todo' = todo
      /\ cmq' = cmq /\ piped' = piped /\ timer' = timer /\ file' = file
      /\ cur' = cur /\ i' = i /\ writing' = writing
      /\ gui' = gui /\ running' = running /\ open' = open /\ run' = run /\ asked' = asked
      /\ ended' = ended /\ handled' = handled
  BY DEF FrameEnds, board, view, user
<1>2. \/ /\ pktcnt + 1 = Cnt /\ piped
         /\ pktcnt' = 0 /\ blk' = NextHead /\ made' = made + 1 /\ rxq' = Put(rxq, blk)
         /\ excuse' = excuse \cup (IF Len(rxq) + 1 = Que THEN {"late"} ELSE {})
      \/ /\ pktcnt + 1 = Cnt /\ ~piped
         /\ pktcnt' = 0 /\ blk' = NextHead /\ made' = made + 1 /\ rxq' = rxq /\ excuse' = excuse
      \/ /\ pktcnt + 1 # Cnt
         /\ pktcnt' = pktcnt + 1 /\ blk' = blk /\ made' = made /\ rxq' = rxq /\ excuse' = excuse
  BY DEF FrameEnds
<1>3. Typed /\ Modes
  BY DEF IInv
<1>4. /\ wire \in Seq(Frame) /\ wire # <<>> /\ Head(wire) = wire[1] /\ wire[1] \in Frame
      /\ Len(wire) \in Nat \ {0}
      /\ wire' \in Seq(Frame) /\ Len(wire') = Len(wire) - 1
      /\ \A k \in 1..Len(wire)-1 : wire'[k] = wire[k + 1]
  BY <1>1, <1>3, Behind DEF Typed
<1>5. open \/ ~piped
  BY <1>3 DEF Modes
<1>6. piped => RingHolds /\ blk \in Heads
  BY <1>3, <1>5, HeadPlaces DEF IInv, RingHolds, Typed
<1>7. Typed'
  <2>1. ring' \in [0..PoolSlots-1 -> Frame]
    BY <1>1, <1>3, <1>4 DEF Typed
  <2>2. NextHead \in 0..PoolSlots-1 /\ head' \in 0..PoolSlots-1 /\ blk' \in 0..PoolSlots-1
    <3>1. head \in 0..PoolSlots-1 /\ blk \in 0..PoolSlots-1
      BY <1>3 DEF Typed
    <3>2. NextHead \in 0..PoolSlots-1
      BY <3>1, Sizes DEF NextHead
    <3> QED
      BY <1>1, <1>2, <3>1, <3>2
  <2>3. pktcnt' \in 0..Cnt-1 /\ made' \in Nat
    BY <1>2, <1>3, Sizes DEF Typed
  <2>4. rxq' \in Seq(Heads \cup {Done})
    <3>1. CASE rxq' = Put(rxq, blk) /\ piped
      BY <1>3, <1>6, <3>1, Queueing
    <3> QED
      BY <1>2, <1>3, <3>1 DEF Typed
  <2>5. excuse' \subseteq {"late", "missed", "noslot"}
    BY <1>2, <1>3 DEF Typed
  <2> QED
    BY <1>1, <1>3, <1>4, <2>1, <2>2, <2>3, <2>4, <2>5 DEF Typed
<1>8. Modes' /\ Complete'
  <2>1. \A x : x \notin excuse' => x \notin excuse
    BY <1>2
  <2> QED
    BY <1>1, <2>1 DEF IInv, Modes, Complete, Whole
<1>9. InTime' => InTime /\ excuse' = excuse
  BY <1>2 DEF InTime
<1>10. ASSUME open
       PROVE  Stream' /\ RingHolds' /\ DoneLast'
  <2>1. Stream /\ RingHolds /\ DoneLast
    BY <1>10 DEF IInv
  <2>2. /\ Stored' = Stored + 1 /\ head' = Place(Stored') /\ blk' = Place(At(made'))
        /\ Stored \in Nat /\ run \in Nat /\ asked \in Nat
    BY <1>3, <2>1, OneMoreStored, Counting
  <2>3. wire[1].n # 0
    BY <1>1, <2>1 DEF Stream
  <2>4. /\ Stored + 1 <= asked /\ wire[1] = Numbered(run, Stored + 1)
        /\ ~Unserved /\ ~Unserved'
    BY <1>1, <1>3, <1>4, <2>1, <2>3, NextFrame DEF Unserved
  <2>5. Stream'
    <3>1. ASSUME NEW k \in 1..Len(wire')
          PROVE  wire'[k] = Item(Stored + 1 + k)
      <4>1. k \in 1..Len(wire)-1 /\ k + 1 \in 1..Len(wire) /\ Stored + (k + 1) = Stored + 1 + k
        BY <1>4, <2>2, <3>1
      <4> QED
        BY <1>4, <2>1, <4>1 DEF Stream
    <3>2. ASSUME NEW k \in 1..Len(todo)
          PROVE  todo[k] = Item(Stored + 1 + Len(wire') + k)
      <4>1. Stored + Len(wire) + k = Stored + 1 + Len(wire') + k
        BY <1>4, <2>2
      <4> QED
        BY <2>1, <3>2, <4>1 DEF Stream
    <3>3. Stored + 1 + Len(wire') + Len(todo) = Stored + Len(wire) + Len(todo)
      <4>1. Len(todo) \in Nat
        BY <1>3, NoLength DEF Typed
      <4> QED
        BY <1>4, <2>2, <4>1
    <3>4. Request' = Request
      BY <1>1 DEF Request, Numbered
    <3> QED
      BY <1>1, <2>1, <2>2, <2>4, <3>1, <3>2, <3>3, <3>4 DEF Stream, Item, Numbered
  <2>6. RingHolds'
    <3>1. ASSUME NEW n \in 0..Stored, n + PoolSlots >= Stored + 1
          PROVE  ring'[Place(n)] = Numbered(run, n + 1)
      <4>1. CASE n = Stored
        <5>1. head = Place(n) /\ head \in 0..PoolSlots-1
          BY <1>3, <2>1, <4>1 DEF RingHolds, Typed
        <5> QED
          BY <1>1, <1>3, <1>4, <2>4, <4>1, <5>1 DEF Typed
      <4>2. CASE n # Stored
        <5>1. n \in Nat /\ n < Stored /\ n \in 0..Stored-1
          BY <2>2, <4>2
        <5>2. Place(n) # Place(Stored)
          BY <2>2, <3>1, <5>1, SamePlace, Sizes
        <5>3. Place(n) \in 0..PoolSlots-1 /\ head = Place(Stored)
          BY <2>1, <5>1, NextPlace DEF RingHolds
        <5>4. ring'[Place(n)] = ring[Place(n)]
          BY <1>1, <1>3, <5>2, <5>3 DEF Typed
        <5>5. n + PoolSlots >= Stored + Busy
          BY <1>1, <3>1 DEF Busy
        <5> QED
          BY <2>1, <5>1, <5>4, <5>5 DEF RingHolds
      <4> QED
        BY <4>1, <4>2
    <3>2. Busy' = 0 /\ (Stored + 1) + 0 = Stored + 1 /\ 0..(Stored + 1)-1 = 0..Stored
      BY <1>1, <2>2 DEF Busy
    <3> QED
      BY <1>1, <2>2, <3>1, <3>2 DEF RingHolds, Numbered
  <2>7. DoneLast'
    <3>1. cmq = <<>> /\ ~timer /\ \A k \in 1..Len(rxq) : rxq[k] # Done
      BY <1>4, <2>1, NoDoneYet
    <3>2. \A k \in 1..Len(rxq') : rxq'[k] # Done
      <4>1. CASE rxq' = Put(rxq, blk) /\ piped
        <5>1. blk # Done
          BY <1>6, <4>1, HeadPlaces
        <5> QED
          BY <1>3, <1>6, <3>1, <4>1, <5>1, Queueing
      <4> QED
        BY <1>2, <3>1, <4>1
    <3> QED
      BY <1>1, <3>1, <3>2 DEF DoneLast
  <2> QED
    BY <2>5, <2>6, <2>7
<1>11. ASSUME open, InTime'
       PROVE  Queued' /\ Ahead'
  <2>1. Queued /\ Ahead /\ RingHolds /\ DoneLast
    BY <1>9, <1>11 DEF IInv
  <2>2. /\ made \in Nat /\ handled \in Nat /\ Stored \in Nat /\ Taken \in Nat /\ Len(rxq) \in Nat
        /\ Taken' = Taken /\ At(handled) \in Nat /\ Stored' + Busy' = Stored + Busy
    <3>1. Stored' = Stored + 1 /\ Busy' = 0 /\ Busy = 1
      BY <1>1, <1>3, <2>1, OneMoreStored DEF Busy
    <3>2. Len(rxq) \in Nat
      BY <1>3, NoLength DEF Typed
    <3> QED
      BY <1>1, <1>3, <3>1, <3>2, Counting DEF Taken
  <2>3. \A k \in 1..Len(rxq) : rxq[k] # Done
    BY <1>4, <2>1, NoDoneYet
  <2>4. CASE pktcnt + 1 = Cnt /\ piped
    <3>1. /\ Len(rxq) + 1 # Que /\ rxq' = Put(rxq, blk) /\ made' = made + 1
      BY <1>2, <1>11, <2>4 DEF InTime
    <3>2. /\ Len(rxq') = Len(rxq) + 1 /\ rxq'[Len(rxq) + 1] = blk /\ rxq' # <<>>
          /\ \A k \in 1..Len(rxq) : rxq'[k] = rxq[k]
      BY <1>3, <1>6, <2>4, <3>1, Queueing
    <3>3. Taken + Len(rxq) = made /\ blk = Place(At(made)) /\ blk # Done
      <4>1. ~(rxq # <<>> /\ rxq[Len(rxq)] = Done)
        BY <1>3, <2>2, <2>3, NoLength DEF Typed
      <4> QED
        BY <1>6, <2>1, <2>4, <4>1, HeadPlaces DEF Queued, RingHolds
    <3>4. Queued'
      <4>1. ASSUME NEW k \in 1..Len(rxq')
            PROVE  rxq'[k] = Place(At(Taken + k - 1)) /\ Taken + k <= made + 1 /\ rxq'[k] # Done
        <5>1. CASE k \in 1..Len(rxq)
          BY <2>1, <2>2, <2>3, <3>2, <5>1 DEF Queued
        <5>2. CASE k = Len(rxq) + 1
          <6>1. Taken + k - 1 = made /\ Taken + k = made + 1
            BY <2>2, <3>3, <5>2
          <6> QED
            BY <2>2, <3>2, <3>3, <5>2, <6>1
        <5> QED
          BY <2>2, <3>2, <4>1, <5>1, <5>2
      <4>2. Taken <= made + 1 /\ Taken + Len(rxq') = made + 1
        BY <2>2, <3>2, <3>3
      <4>3. rxq'[Len(rxq')] # Done
        BY <2>2, <3>2, <3>3
      <4>4. writing => cur = Place(At(handled))
        BY <2>1 DEF Queued
      <4> QED
        BY <1>1, <2>2, <3>1, <4>1, <4>2, <4>3, <4>4 DEF Queued
    <3>5. Ahead'
      <4>1. CASE writing \/ rxq # <<>>
        <5>1. writing \/ (rxq # <<>> /\ rxq[1] # Done)
          BY <1>3, <2>2, <2>3, <4>1, NoLength DEF Typed
        <5> QED
          BY <1>1, <2>1, <2>2, <5>1 DEF Ahead
      <4>2. CASE ~writing /\ rxq = <<>>
        <5>1. handled = made
          BY <2>2, <3>3, <4>2 DEF Taken
        <5>2. Stored' = At(made) + Cnt /\ Busy' = 0
          <6>1. Stored' = Stored + 1 /\ At(made + 1) = Stored + 1
            BY <1>3, <2>1, <2>4, <3>1, OneMoreStored
          <6> QED
            BY <1>1, <2>2, <6>1, Blocks DEF Busy
        <5> QED
          BY <1>1, <2>2, <5>1, <5>2, Sizes DEF Ahead
      <4> QED
        BY <4>1, <4>2
    <3> QED
      BY <3>4, <3>5
  <2>5. CASE ~(pktcnt + 1 = Cnt /\ piped)
    <3>1. rxq' = rxq /\ made' \in {made, made + 1} /\ (piped => made' = made)
      BY <1>2, <2>5
    <3>2. Queued'
      BY <1>1, <2>1, <2>2, <3>1 DEF Queued
    <3>3. Ahead'
      BY <1>1, <2>1, <2>2, <3>1 DEF Ahead
    <3> QED
      BY <3>2, <3>3
  <2> QED
    BY <2>4, <2>5
<1>12. InTime' => \E b \in Nat : FileFrom(b)'
  BY <1>1, <1>9 DEF IInv, FileFrom, Whole, Numbered
<1> QED
  BY <1>1, <1>7, <1>8, <1>10, <1>11, <1>12 DEF IInv

-----------------------------------------------------------------------------
\* DAQ_DONE_IND comes after the last packet of the run.
LEMMA RxControlKeeps ==
  ASSUME IInv, RxControl
  PROVE  IInv'
<1>1. /\ wire # <<>> /\ ~inframe /\ Head(wire).n = 0
      /\ wire' = Tail(wire) /\ (cmq' = Append(cmq, Done) \/ cmq' = cmq)
      /\ req' = req /\ todo' = todo /\ piped' = piped /\ rxq' = rxq /\ timer' = timer
      /\ file' = file /\ (excuse' = excuse \/ excuse' = excuse \cup {"noslot"})
      /\ ring' = ring /\ head' = head /\ blk' = blk /\ pktcnt' = pktcnt /\ inframe' = inframe
      /\ cur' = cur /\ i' = i /\ writing' = writing
      /\ gui' = gui /\ running' = running /\ open' = open /\ run' = run /\ asked' = asked
      /\ ended' = ended /\ made' = made /\ handled' = handled
  BY DEF RxControl, board, driver, view, user, counts
<1>2. Typed
  BY DEF IInv
<1>3. /\ Head(wire) = wire[1] /\ wire' \in Seq(Frame) /\ (Len(wire) = 1 => wire' = <<>>)
  BY <1>1, <1>2, Behind DEF Typed
<1>4. cmq' \in Seq({Done}) /\ (cmq = <<>> => cmq' = <<>> \/ Len(cmq') = 1)
  <2>1. cmq \in Seq({Done})
    BY <1>2 DEF Typed
  <2>2. CASE cmq' = Append(cmq, Done)
    BY <2>1, <2>2, Longer
  <2> QED
    BY <1>1, <2>1, <2>2
<1>5. Typed'
  BY <1>1, <1>2, <1>3, <1>4 DEF Typed
<1>6. ASSUME open
      PROVE  Stream' /\ DoneLast'
  <2>1. Stream /\ DoneLast /\ Stored' = Stored /\ Request' = Request /\ Stored \in Nat
    BY <1>1, <1>2, <1>6, Counting DEF IInv, Stored, Request, Numbered
  <2>2. Stored = asked /\ wire' = <<>> /\ todo = <<>> /\ ~Unserved
    BY <1>1, <1>2, <1>3, <2>1, NextFrame
  <2>3. cmq = <<>> /\ ~timer /\ \A k \in 1..Len(rxq) : rxq[k] # Done
    BY <1>1, <2>1, NoDoneYet
  <2>4. Stream'
    BY <1>1, <2>1, <2>2 DEF Stream, Unserved
  <2>5. DoneLast'
    BY <1>1, <1>4, <2>1, <2>2, <2>3 DEF DoneLast, Unserved
  <2> QED
    BY <2>4, <2>5
<1>7. (InTime' <=> InTime) /\ ("missed" \in excuse' <=> "missed" \in excuse)
  BY <1>1 DEF InTime
<1>8. Modes' /\ Complete' /\ (open' => RingHolds')
  BY <1>1, <1>7 DEF IInv, InTime, Modes, Complete, Whole, RingHolds, Stored, Busy, Numbered
<1>9. open' /\ InTime' => Queued' /\ Ahead'
  BY <1>1, <1>7 DEF IInv, Queued, Ahead, Taken, Stored, Busy
<1>10. InTime' => \E b \in Nat : FileFrom(b)'
  BY <1>1, <1>7 DEF IInv, FileFrom, Whole, Numbered
<1> QED
  BY <1>1, <1>5, <1>6, <1>8, <1>9, <1>10 DEF IInv

\* The indication joins the queue behind the last block of the run.
LEMMA CmThreadKeeps ==
  ASSUME IInv, CmThread
  PROVE  IInv'
<1>1. /\ cmq # <<>> /\ cmq' = Tail(cmq) /\ rxq' = Put(rxq, Done)
      /\ excuse' = excuse \cup (IF Len(rxq) + 1 = Que THEN {"late"} ELSE {})
      /\ req' = req /\ todo' = todo /\ wire' = wire /\ piped' = piped /\ timer' = timer
      /\ file' = file
      /\ ring' = ring /\ head' = head /\ blk' = blk /\ pktcnt' = pktcnt /\ inframe' = inframe
      /\ cur' = cur /\ i' = i /\ writing' = writing
      /\ gui' = gui /\ running' = running /\ open' = open /\ run' = run /\ asked' = asked
      /\ ended' = ended /\ made' = made /\ handled' = handled
  BY DEF CmThread, board, driver, view, user, counts
<1>2. Typed
  BY DEF IInv
<1>3. cmq' \in Seq({Done}) /\ (Len(cmq) = 1 => cmq' = <<>>)
  BY <1>1, <1>2, Behind DEF Typed
<1>4. /\ rxq' \in Seq(Heads \cup {Done}) /\ Len(rxq) \in Nat
      /\ rxq' = <<>> <=> Len(rxq) + 1 = Que
      /\ Len(rxq) + 1 # Que =>
           /\ Len(rxq') = Len(rxq) + 1 /\ rxq'[Len(rxq) + 1] = Done
           /\ \A k \in 1..Len(rxq) : rxq'[k] = rxq[k]
  BY <1>1, <1>2, Queueing
<1>5. Typed' /\ Modes' /\ Complete'
  <2>1. excuse' \subseteq {"late", "missed", "noslot"} /\ (\A x : x \notin excuse' => x \notin excuse)
    BY <1>1, <1>2 DEF Typed
  <2>2. Typed'
    BY <1>1, <1>2, <1>3, <1>4, <2>1 DEF Typed
  <2> QED
    BY <1>1, <2>1, <2>2 DEF IInv, Modes, Complete, Whole
<1>6. InTime' => InTime /\ excuse' = excuse /\ Len(rxq) + 1 # Que
  BY <1>1 DEF InTime
<1>7. ASSUME open
      PROVE  Stream' /\ RingHolds' /\ DoneLast'
  <2>1. Stream /\ RingHolds /\ DoneLast
    BY <1>7 DEF IInv
  <2>2. Stream' /\ RingHolds'
    BY <1>1, <2>1 DEF Stream, RingHolds, Stored, Busy, Item, Request, Numbered, Unserved
  <2>3. /\ Stored = asked /\ wire = <<>> /\ todo = <<>> /\ ~Unserved
        /\ cmq' = <<>> /\ ~timer /\ \A k \in 1..Len(rxq) : rxq[k] # Done
    BY <1>1, <1>3, <2>1 DEF DoneLast
  <2>4. \A k \in 1..Len(rxq') : rxq'[k] = Done => k = Len(rxq')
    <3>1. CASE Len(rxq) + 1 = Que
      BY <1>4, <3>1
    <3>2. CASE Len(rxq) + 1 # Que
      BY <1>4, <2>3, <3>2
    <3> QED
      BY <3>1, <3>2
  <2>5. Stored' = Stored /\ ~Unserved'
    BY <1>1, <2>3 DEF Stored, Unserved
  <2>6. DoneLast'
    BY <1>1, <2>3, <2>4, <2>5 DEF DoneLast
  <2> QED
    BY <2>2, <2>6
<1>8. ASSUME open, InTime'
      PROVE  Queued' /\ Ahead'
  <2>1. Queued /\ Ahead /\ DoneLast
    BY <1>6, <1>8 DEF IInv
  <2>2. /\ \A k \in 1..Len(rxq) : rxq'[k] = rxq[k] /\ rxq[k] # Done
        /\ Len(rxq') = Len(rxq) + 1 /\ rxq'[Len(rxq) + 1] = Done /\ rxq' # <<>>
    BY <1>1, <1>4, <1>6, <1>8, <2>1 DEF DoneLast
  <2>3. Taken' = Taken /\ Stored' = Stored /\ Busy' = Busy /\ Taken \in Nat /\ made \in Nat
    BY <1>1, <1>2, Counting DEF Taken, Stored, Busy
  <2>4. Queued'
    <3>1. \A k \in 1..Len(rxq') : rxq'[k] # Done => k \in 1..Len(rxq)
      BY <1>4, <2>2
    <3>2. piped => Taken + Len(rxq) = made
      <4>1. ~(rxq # <<>> /\ rxq[Len(rxq)] = Done)
        BY <1>2, <1>4, <2>2, NoLength DEF Typed
      <4> QED
        BY <2>1, <4>1 DEF Queued
    <3>3. piped => Taken + Len(rxq') = made + 1
      BY <1>4, <2>2, <2>3, <3>2
    <3> QED
      BY <1>1, <2>1, <2>2, <2>3, <3>1, <3>3 DEF Queued
  <2>5. Ahead'
    <3>1. rxq' # <<>> /\ rxq'[1] # Done => rxq # <<>> /\ rxq[1] # Done
      BY <1>2, <1>4, <2>2, NoLength DEF Typed
    <3> QED
      BY <1>1, <2>1, <2>3, <3>1 DEF Ahead
  <2> QED
    BY <2>4, <2>5
<1>9. InTime' => \E b \in Nat : FileFrom(b)'
  BY <1>1, <1>6 DEF IInv, FileFrom, Whole, Numbered
<1> QED
  BY <1>1, <1>5, <1>7, <1>8, <1>9 DEF IInv

\* The indication leaves the queue, which is empty now.
LEMMA TakeDoneKeeps ==
  ASSUME IInv, TakeDone
  PROVE  IInv'
<1>1. /\ ~writing /\ rxq # <<>> /\ Head(rxq) = Done /\ rxq' = Tail(rxq) /\ timer' = TRUE
      /\ req' = req /\ todo' = todo /\ wire' = wire /\ cmq' = cmq /\ piped' = piped
      /\ file' = file /\ excuse' = excuse
      /\ ring' = ring /\ head' = head /\ blk' = blk /\ pktcnt' = pktcnt /\ inframe' = inframe
      /\ cur' = cur /\ i' = i /\ writing' = writing
      /\ gui' = gui /\ running' = running /\ open' = open /\ run' = run /\ asked' = asked
      /\ ended' = ended /\ made' = made /\ handled' = handled
  BY DEF TakeDone, board, driver, view, user, counts
<1>2. Typed
  BY DEF IInv
<1>3. /\ rxq' \in Seq(Heads \cup {Done}) /\ rxq[1] = Done /\ Len(rxq) \in Nat \ {0}
      /\ Len(rxq) = 1 => rxq' = <<>>
  BY <1>1, <1>2, Behind DEF Typed
<1>4. Typed' /\ Modes' /\ Complete'
  BY <1>1, <1>3 DEF IInv, Typed, Modes, Complete, Whole
<1>5. ASSUME open
      PROVE  Stream' /\ RingHolds' /\ DoneLast' /\ rxq' = <<>> /\ Len(rxq) = 1
  <2>1. Stream /\ RingHolds /\ DoneLast
    BY <1>5 DEF IInv
  <2>2. Stream' /\ RingHolds'
    BY <1>1, <2>1 DEF Stream, RingHolds, Stored, Busy, Item, Request, Numbered, Unserved
  <2>3. Len(rxq) = 1 /\ cmq = <<>> /\ Stored = asked /\ wire = <<>> /\ todo = <<>> /\ ~Unserved
    <3>1. 1 \in 1..Len(rxq) /\ rxq[1] = Done
      BY <1>3
    <3> QED
      BY <2>1, <3>1 DEF DoneLast
  <2>4. Stored' = Stored /\ ~Unserved'
    BY <1>1, <2>3 DEF Stored, Unserved
  <2>5. DoneLast'
    BY <1>1, <1>3, <2>3, <2>4 DEF DoneLast
  <2> QED
    BY <1>3, <2>2, <2>3, <2>5
<1>6. ASSUME open, InTime'
      PROVE  Queued' /\ Ahead'
  <2>1. Queued
    BY <1>1, <1>6 DEF IInv, InTime
  <2>2. rxq' = <<>> /\ Len(rxq) = 1
    BY <1>5, <1>6
  <2>3. Taken' = Taken /\ Taken \in Nat /\ made \in Nat
    BY <1>1, <1>2, Counting DEF Taken
  <2>4. piped => Taken + 0 = made
    BY <1>3, <2>1, <2>2, <2>3 DEF Queued
  <2>5. Queued'
    <3>1. Len(rxq') = 0 /\ \A k : k \notin 1..Len(rxq')
      BY <2>2
    <3>2. Taken <= made /\ (writing => cur = Place(At(handled)))
      BY <2>1 DEF Queued
    <3> QED
      BY <1>1, <2>2, <2>3, <2>4, <3>1, <3>2 DEF Queued
  <2> QED
    BY <1>1, <2>2, <2>5 DEF Ahead
<1>7. InTime' => \E b \in Nat : FileFrom(b)'
  BY <1>1 DEF IInv, InTime, FileFrom, Whole, Numbered
<1> QED
  BY <1>1, <1>4, <1>5, <1>6, <1>7 DEF IInv

\* The view takes a block: it writes it, or a run is not on and it is gone.
LEMMA TakeBlockKeeps ==
  ASSUME IInv, TakeBlock
  PROVE  IInv'
<1>1. /\ ~writing /\ rxq # <<>> /\ Head(rxq) # Done /\ rxq' = Tail(rxq)
      /\ req' = req /\ todo' = todo /\ wire' = wire /\ cmq' = cmq /\ piped' = piped
      /\ timer' = timer /\ file' = file
      /\ ring' = ring /\ head' = head /\ blk' = blk /\ pktcnt' = pktcnt /\ inframe' = inframe
      /\ gui' = gui /\ running' = running /\ open' = open /\ run' = run /\ asked' = asked
      /\ ended' = ended /\ made' = made
  BY DEF TakeBlock, board, driver, user
<1>2. \/ /\ running /\ writing' = TRUE /\ cur' = Head(rxq) /\ i' = 0
         /\ handled' = handled /\ excuse' = excuse
      \/ /\ ~running /\ handled' = handled + 1
         /\ excuse' = excuse \cup (IF gui = "starting" THEN {"missed"} ELSE {})
         /\ cur' = cur /\ i' = i /\ writing' = writing
  BY DEF TakeBlock, view
<1>3. Typed /\ Modes
  BY DEF IInv
<1>4. /\ rxq' \in Seq(Heads \cup {Done}) /\ Head(rxq) = rxq[1] /\ rxq[1] \in Heads
      /\ Len(rxq) \in Nat \ {0} /\ Len(rxq') = Len(rxq) - 1 /\ (Len(rxq) = 1 => rxq' = <<>>)
      /\ \A k \in 1..Len(rxq)-1 : rxq'[k] = rxq[k + 1]
  BY <1>1, <1>3, Behind DEF Typed
<1>5. /\ made \in Nat /\ handled \in Nat /\ Taken \in Nat /\ Taken = handled
      /\ Taken' = handled + 1 /\ Stored' = Stored /\ Busy' = Busy
  BY <1>1, <1>2, <1>3, Counting DEF Taken, Stored, Busy
<1>6. Typed'
  <2>1. cur' \in Heads /\ i' \in 0..Cnt-1 /\ writing' \in BOOLEAN /\ handled' \in Nat
    <3>1. 0 \in 0..Cnt-1
      BY Sizes
    <3>2. CASE running
      BY <1>2, <1>3, <1>4, <3>1, <3>2 DEF Typed
    <3>3. CASE ~running
      BY <1>2, <1>3, <3>3 DEF Typed
    <3> QED
      BY <3>2, <3>3
  <2>2. excuse' \subseteq {"late", "missed", "noslot"}
    BY <1>2, <1>3 DEF Typed
  <2> QED
    BY <1>1, <1>3, <1>4, <2>1, <2>2 DEF Typed
<1>7. Modes'
  BY <1>1, <1>2, <1>3 DEF Modes
<1>8. Complete'
  <2>1. ended = "done" => ~running
    BY <1>3 DEF Modes
  <2>2. \A x : x \notin excuse' => x \notin excuse
    BY <1>2
  <2> QED
    BY <1>1, <1>2, <2>1, <2>2 DEF IInv, Complete, Whole
<1>9. ASSUME open
      PROVE  Stream' /\ RingHolds' /\ DoneLast'
  <2>1. Stream /\ RingHolds /\ DoneLast
    BY <1>9 DEF IInv
  <2>2. Stream' /\ RingHolds'
    BY <1>1, <2>1 DEF Stream, RingHolds, Stored, Busy, Item, Request, Numbered, Unserved
  <2>3. \A k \in 1..Len(rxq') : rxq'[k] = Done => k + 1 \in 1..Len(rxq) /\ rxq[k + 1] = Done
    BY <1>4
  <2>4. ~timer
    BY <1>1, <2>1 DEF DoneLast
  <2>5. \A k \in 1..Len(rxq') : rxq'[k] = Done => k = Len(rxq')
    BY <1>4, <2>1, <2>3 DEF DoneLast
  <2>6. Unserved' = Unserved
    BY <1>1 DEF Unserved
  <2>7. DoneLast'
    BY <1>1, <1>5, <2>1, <2>3, <2>4, <2>5, <2>6 DEF DoneLast
  <2> QED
    BY <2>2, <2>7
<1>10. InTime' => InTime /\ (excuse' = excuse \/ (excuse' = excuse \cup {"missed"} /\ gui = "starting" /\ ~running))
  BY <1>2 DEF InTime
<1>11. ASSUME open, InTime'
       PROVE  /\ Queued' /\ Ahead' /\ handled + 1 <= made
              /\ Head(rxq) = Place(At(handled))
  <2>1. Queued /\ Ahead
    BY <1>10, <1>11 DEF IInv
  <2>2. rxq[1] = Place(At(handled)) /\ handled + 1 <= made
    <3>1. 1 \in 1..Len(rxq) /\ rxq[1] # Done /\ Taken + 1 - 1 = handled
      BY <1>1, <1>4, <1>5
    <3> QED
      BY <1>5, <2>1, <3>1 DEF Queued
  <2>3. writing' => cur' = Place(At(handled))
    BY <1>1, <1>2, <1>4, <2>2
  <2>4. writing' => handled' = handled
    BY <1>1, <1>2
  <2>5. ASSUME NEW k \in 1..Len(rxq'), rxq'[k] # Done
        PROVE  rxq'[k] = Place(At(handled + 1 + k - 1)) /\ handled + 1 + k <= made
    <3>1. /\ k + 1 \in 1..Len(rxq) /\ k \in 1..Len(rxq)-1
          /\ Taken + (k + 1) - 1 = handled + 1 + k - 1 /\ Taken + (k + 1) = handled + 1 + k
      BY <1>4, <1>5, <2>5
    <3>2. rxq[k + 1] = Place(At(Taken + (k + 1) - 1)) /\ Taken + (k + 1) <= made
      BY <1>4, <2>1, <2>5, <3>1 DEF Queued
    <3> QED
      BY <1>4, <3>1, <3>2
  <2>6. piped => handled + 1 + Len(rxq') = (IF rxq' # <<>> /\ rxq'[Len(rxq')] = Done THEN made + 1 ELSE made)
    <3>1. piped => handled + Len(rxq) = (IF rxq[Len(rxq)] = Done THEN made + 1 ELSE made)
      BY <1>1, <1>5, <2>1 DEF Queued
    <3>2. CASE Len(rxq) = 1
      <4>1. rxq[Len(rxq)] # Done /\ Len(rxq') = 0 /\ rxq' = <<>>
        BY <1>1, <1>4, <3>2
      <4>2. piped => handled + 1 = made
        BY <3>1, <3>2, <4>1
      <4>3. handled + 1 + 0 = handled + 1
        BY <1>5
      <4> QED
        BY <4>1, <4>2, <4>3
    <3>3. CASE Len(rxq) > 1
      <4>1. rxq'[Len(rxq')] = rxq[Len(rxq)] /\ rxq' # <<>>
        BY <1>4, <3>3
      <4>2. handled + 1 + Len(rxq') = handled + Len(rxq)
        BY <1>4, <1>5
      <4> QED
        BY <3>1, <4>1, <4>2
    <3> QED
      BY <1>4, <3>2, <3>3
  <2>7. Queued'
    BY <1>1, <1>5, <2>2, <2>3, <2>4, <2>5, <2>6 DEF Queued
  <2>8. Ahead'
    <3>1. Stored + Busy <= At(handled) + PoolSlots
      BY <1>1, <1>4, <2>1 DEF Ahead
    <3>2. At(handled) <= At(handled') /\ At(handled) \in Nat /\ At(handled') \in Nat
      BY <1>2, <1>5, Later, Blocks
    <3>3. Stored + Busy \in Nat
      BY <1>3, Counting
    <3> QED
      BY <1>5, <3>1, <3>2, <3>3, Sizes DEF Ahead
  <2> QED
    BY <1>4, <2>2, <2>7, <2>8
<1>12. InTime' => \E b \in Nat : FileFrom(b)'
  <2> HAVE InTime'
  <2>1. PICK b \in Nat : FileFrom(b)
    BY <1>10 DEF IInv
  <2>2. CASE running
    <3>1. piped /\ excuse' = excuse
      BY <1>2, <1>3, <2>2 DEF Modes
    <3>2. writing' /\ i' = 0 /\ handled' = handled
      BY <1>2, <2>2
    <3>3. b + Len(file) = At(handled)
      BY <1>1, <2>1, <3>1 DEF FileFrom
    <3>4. At(handled) + 0 = At(handled)
      BY <1>5, Blocks
    <3> QED
      BY <1>1, <2>1, <3>1, <3>2, <3>3, <3>4 DEF FileFrom, Whole, Numbered
  <2>3. CASE gui = "starting" /\ ~running
    <3>0. PICK c \in Nat : c = At(handled + 1)
      BY <1>5, Blocks
    <3>1. open /\ file = <<>>
      BY <1>3, <2>3 DEF Modes
    <3>2. c \in Nat /\ c <= asked /\ asked \in Nat
      <4>1. handled + 1 <= made
        BY <1>11, <3>1
      <4>2. c <= At(made)
        BY <1>5, <3>0, <4>1, Later
      <4>3. Stored <= asked
        BY <3>1 DEF IInv, Stream
      <4> QED
        BY <1>3, <4>2, <4>3, Counting DEF Stored
    <3>3. c % Cnt = 0 /\ c <= Whole
      BY <1>5, <3>0, <3>2, BlockWhole, WholeBlocks
    <3>4. /\ "missed" \in excuse' /\ handled' = handled + 1 /\ ~writing'
      BY <1>1, <1>2, <2>3
    <3>5. Len(file) = 0 /\ c + 0 = c
      BY <3>1, <3>2
    <3>6. Whole' = Whole /\ At(handled') = c
      BY <1>1, <3>0, <3>4 DEF Whole
    <3>7. FileFrom(c)'
      BY <1>1, <3>2, <3>3, <3>4, <3>5, <3>6 DEF FileFrom
    <3> QED
      BY <3>2, <3>7
  <2>4. CASE gui # "starting" /\ ~running
    <3>1. ~piped /\ ~writing'
      BY <1>1, <1>2, <1>3, <2>4 DEF Modes
    <3>2. excuse' = excuse
      BY <1>2, <2>4
    <3> QED
      BY <1>1, <2>1, <3>1, <3>2 DEF FileFrom, Whole, Numbered
  <2> QED
    BY <2>2, <2>3, <2>4
<1> QED
  BY <1>1, <1>6, <1>7, <1>8, <1>9, <1>11, <1>12 DEF IInv

\* The packet that is written is the next one of the run.
LEMMA NextWritten ==
  ASSUME Typed, Stream, RingHolds, Queued, Ahead, writing
  PROVE  /\ ring[cur + i] = Numbered(run, At(handled) + i + 1)
         /\ At(handled) \in Nat /\ At(handled + 1) <= Whole
<1>1. /\ made \in Nat /\ handled \in Nat /\ asked \in Nat /\ pktcnt \in Nat
      /\ At(made) \in Nat /\ At(handled) \in Nat /\ Stored \in Nat /\ Busy \in {0, 1}
  BY Counting
<1>2. i \in 0..Cnt-1 /\ i \in Nat
  BY Sizes DEF Typed
<1>3. handled + 1 <= made /\ cur = Place(At(handled))
  BY <1>1 DEF Queued, Taken
<1>4. At(handled + 1) <= At(made) /\ At(handled + 1) = At(handled) + Cnt
  BY <1>1, <1>3, Later, Blocks
<1>5. At(made) <= Stored /\ Stored <= asked
  BY <1>1 DEF Stored, Stream
<1>6. At(handled + 1) <= Whole
  <2>1. At(handled + 1) <= asked /\ handled + 1 \in Nat
    BY <1>1, <1>4, <1>5, Sizes
  <2> QED
    BY <1>1, <2>1, WholeBlocks
<1>7. PICK n \in Nat : n = At(handled) + i
  BY <1>1, <1>2
<1>8. n \in 0..Stored-1 /\ n + PoolSlots >= Stored + Busy
  <2>1. Stored + Busy <= At(handled) + PoolSlots
    BY DEF Ahead
  <2> QED
    BY <1>1, <1>2, <1>4, <1>5, <1>7, <2>1, Sizes
<1>9. Place(n) = cur + i
  BY <1>1, <1>2, <1>3, <1>7, InBlock
<1>10. ring[Place(n)] = Numbered(run, n + 1)
  BY <1>8 DEF RingHolds
<1> QED
  BY <1>1, <1>6, <1>7, <1>9, <1>10

\* The place the view reads is a place of the ring, whatever the driver does.
LEMMA ReadsRing ==
  ASSUME Typed
  PROVE  ring[cur + i] \in Frame
<1>1. PICK j \in Nat : cur = Place(At(j))
  BY DEF Typed, Heads
<1>2. i \in 0..Cnt-1 /\ At(j) \in Nat /\ At(j) + i \in Nat
  <2>1. i \in 0..Cnt-1
    BY DEF Typed
  <2>2. At(j) \in Nat
    BY Blocks
  <2> QED
    BY <2>1, <2>2, Sizes
<1>3. cur + i = Place(At(j) + i)
  BY <1>1, <1>2, InBlock
<1>4. cur + i \in 0..PoolSlots-1
  BY <1>2, <1>3, NextPlace
<1> QED
  BY <1>4 DEF Typed

\* The view writes a packet.
LEMMA WritePacketKeeps ==
  ASSUME IInv, WritePacket
  PROVE  IInv'
<1>1. /\ writing /\ file' = IF open THEN Append(file, ring[cur + i]) ELSE file
      /\ req' = req /\ todo' = todo /\ wire' = wire /\ cmq' = cmq /\ piped' = piped
      /\ rxq' = rxq /\ timer' = timer /\ excuse' = excuse
      /\ ring' = ring /\ head' = head /\ blk' = blk /\ pktcnt' = pktcnt /\ inframe' = inframe
      /\ gui' = gui /\ running' = running /\ open' = open /\ run' = run /\ asked' = asked
      /\ ended' = ended /\ made' = made
  BY DEF WritePacket, board, driver, user
<1>2. \/ i + 1 = Cnt /\ writing' = FALSE /\ cur' = 0 /\ i' = 0 /\ handled' = handled + 1
      \/ i + 1 # Cnt /\ i' = i + 1 /\ writing' = writing /\ cur' = cur /\ handled' = handled
  BY DEF WritePacket
<1>3. Typed /\ Modes /\ gui # "starting" /\ ended # "done"
  BY <1>1 DEF IInv, Modes
<1>4. /\ made \in Nat /\ handled \in Nat /\ Taken = handled + 1 /\ Taken' = handled + 1
      /\ i \in 0..Cnt-1 /\ i \in Nat /\ handled' \in Nat /\ handled <= handled'
  <2>1. made \in Nat /\ handled \in Nat /\ i \in 0..Cnt-1
    BY <1>3 DEF Typed
  <2>2. i \in Nat /\ Taken = handled + 1
    BY <1>1, <2>1, Sizes DEF Taken
  <2>3. CASE writing' = FALSE /\ handled' = handled + 1
    BY <2>1, <2>2, <2>3 DEF Taken
  <2>4. CASE writing' = TRUE /\ handled' = handled
    BY <2>1, <2>2, <2>4 DEF Taken
  <2> QED
    BY <1>1, <1>2, <2>1, <2>2, <2>3, <2>4
<1>5. /\ file' \in Seq(Frame) /\ Len(file) \in Nat
      /\ open => /\ Len(file') = Len(file) + 1 /\ file'[Len(file) + 1] = ring[cur + i]
                 /\ \A k \in 1..Len(file) : file'[k] = file[k]
      /\ ~open => file' = file
  <2>1. file \in Seq(Frame) /\ ring[cur + i] \in Frame
    BY <1>3, ReadsRing DEF Typed
  <2>2. CASE open
    BY <1>1, <2>1, <2>2, Longer
  <2>3. CASE ~open
    BY <1>1, <2>1, <2>3, NoLength
  <2> QED
    BY <2>2, <2>3
<1>6. Typed'
  <2>1. cur' \in Heads /\ i' \in 0..Cnt-1 /\ writing' \in BOOLEAN
    <3>1. 0 \in Heads /\ 0 \in 0..Cnt-1 /\ cur \in Heads
      BY <1>3, HeadPlaces, Sizes DEF Typed
    <3> QED
      <4>1. CASE writing' = FALSE /\ cur' = 0 /\ i' = 0
        BY <3>1, <4>1
      <4>2. CASE i + 1 # Cnt /\ i' = i + 1 /\ writing' = writing /\ cur' = cur
        BY <1>1, <1>4, <3>1, <4>2, Sizes
      <4> QED
        BY <1>2, <4>1, <4>2
  <2> QED
    BY <1>1, <1>3, <1>4, <1>5, <2>1 DEF Typed
<1>7. Modes' /\ Complete'
  BY <1>1, <1>3 DEF Modes, Complete
<1>8. ASSUME open
      PROVE  Stream' /\ RingHolds' /\ DoneLast'
  <2>1. Stream /\ RingHolds /\ DoneLast
    BY <1>8 DEF IInv
  <2>2. Stream' /\ RingHolds'
    BY <1>1, <2>1 DEF Stream, RingHolds, Stored, Busy, Item, Request, Numbered, Unserved
  <2>3. ~timer
    BY <1>1, <2>1 DEF DoneLast
  <2>4. DoneLast'
    BY <1>1, <2>1, <2>3 DEF DoneLast, Stored, Unserved
  <2> QED
    BY <2>2, <2>4
<1>9. ASSUME open, InTime
      PROVE  Queued' /\ Ahead'
  <2>1. Queued /\ Ahead
    BY <1>9 DEF IInv
  <2>2. writing' => cur' = cur /\ handled' = handled
    BY <1>2
  <2>3. Queued'
    BY <1>1, <1>4, <2>1, <2>2 DEF Queued
  <2>4. Ahead'
    <3>1. Stored + Busy <= At(handled) + PoolSlots /\ Stored + Busy \in Nat
      BY <1>1, <1>3, <2>1, Counting DEF Ahead
    <3>2. At(handled) <= At(handled') /\ At(handled) \in Nat /\ At(handled') \in Nat
      BY <1>4, Later, Blocks
    <3>3. Stored' = Stored /\ Busy' = Busy
      BY <1>1 DEF Stored, Busy
    <3> QED
      BY <3>1, <3>2, <3>3, Sizes DEF Ahead
  <2> QED
    BY <2>3, <2>4
<1>10. InTime' => \E b \in Nat : FileFrom(b)'
  <2> HAVE InTime'
  <2>0. InTime
    BY <1>1 DEF InTime
  <2>1. PICK b \in Nat : FileFrom(b)
    BY <2>0 DEF IInv
  <2>2. CASE ~open
    <3>1. ~piped
      BY <1>3, <2>2 DEF Modes
    <3> QED
      BY <1>1, <1>5, <2>1, <2>2, <3>1 DEF FileFrom, Whole, Numbered
  <2>3. CASE open
    <3>1. /\ ring[cur + i] = Numbered(run, At(handled) + i + 1)
          /\ At(handled) \in Nat /\ At(handled + 1) <= Whole
      BY <1>1, <1>3, <2>0, <2>3, NextWritten DEF IInv
    <3>2. b + Len(file) = At(handled) + i
      BY <1>1, <2>1, <2>3 DEF FileFrom
    <3>3. At(handled + 1) = At(handled) + Cnt
      BY <1>4, Blocks
    <3>4. Whole \in Nat /\ Whole' = Whole
      BY <1>1, <1>3, WholeBlocks DEF Whole, Typed
    <3>5. b + Len(file') <= Whole
      BY <1>4, <1>5, <2>3, <3>1, <3>2, <3>3, <3>4, Sizes
    <3>6. ASSUME NEW k \in 1..Len(file')
          PROVE  file'[k] = Numbered(run, b + k)
      <4>1. CASE k \in 1..Len(file)
        BY <1>5, <2>1, <2>3, <4>1 DEF FileFrom
      <4>2. CASE k = Len(file) + 1
        <5>1. b + k = At(handled) + i + 1
          BY <1>4, <1>5, <3>1, <3>2, <4>2
        <5> QED
          BY <1>5, <2>3, <3>1, <4>2, <5>1
      <4> QED
        BY <1>5, <2>3, <4>1, <4>2
    <3>7. b + Len(file') = At(handled) + i + 1
      <4>1. b + (Len(file) + 1) = b + Len(file) + 1
        BY <1>5
      <4> QED
        BY <1>5, <2>3, <3>2, <4>1
    <3>8. writing' => b + Len(file') = At(handled') + i'
      <4>1. writing' => handled' = handled /\ i' = i + 1
        BY <1>2
      <4> QED
        BY <1>4, <3>1, <3>7, <4>1
    <3>9. ~writing' => b + Len(file') = At(handled')
      <4>1. ~writing' => handled' = handled + 1 /\ i + 1 = Cnt
        BY <1>1, <1>2
      <4> QED
        BY <1>4, <3>1, <3>3, <3>7, <4>1
    <3> QED
      BY <1>1, <2>1, <3>4, <3>5, <3>6, <3>8, <3>9 DEF FileFrom, Numbered
  <2> QED
    BY <2>2, <2>3
<1>11. InTime' => InTime
  BY <1>1 DEF InTime
<1> QED
  BY <1>1, <1>6, <1>7, <1>8, <1>9, <1>10, <1>11 DEF IInv

-----------------------------------------------------------------------------
\* A start: nothing of an earlier run is under way, and all counts are reset.
LEMMA StartKeeps ==
  ASSUME IInv, NEW p \in Packets, Start(p)
  PROVE  IInv'
<1>1. /\ gui = "idle" /\ ~running /\ Quiet
      /\ head' = 0 /\ blk' = 0 /\ pktcnt' = 0
      /\ gui' = "starting" /\ open' = TRUE /\ file' = <<>> /\ piped' = TRUE
      /\ req' = Append(req, Numbered(run + 1, p))
      /\ run' = run + 1 /\ asked' = p /\ made' = 0 /\ handled' = 0 /\ ended' = "no"
      /\ excuse' = {} /\ todo' = todo /\ wire' = wire /\ ring' = ring /\ inframe' = inframe
      /\ cmq' = cmq /\ rxq' = rxq /\ cur' = cur /\ i' = i /\ writing' = writing
      /\ timer' = timer /\ running' = running
  BY DEF Start, StartWith, view
<1>2. /\ req = <<>> /\ todo' = <<>> /\ wire' = <<>> /\ cmq' = <<>> /\ rxq' = <<>>
      /\ ~inframe' /\ ~writing' /\ ~timer'
  BY <1>1 DEF Quiet
<1>3. p \in Nat /\ run \in Nat
  BY PacketsAssumption DEF IInv, Typed
<1>4. req' = <<Request>>' /\ Request' \in Frame
  BY <1>1, <1>2, <1>3 DEF Request, Numbered, Frame
<1>5. At(0) = 0 /\ Place(0) = 0 /\ Stored' = 0 /\ Taken' = 0
  BY <1>1, <1>2, Blocks, NextPlace DEF Stored, Taken
<1>6. Typed'
  <2>1. 0 \in 0..PoolSlots-1 /\ 0 \in 0..Cnt-1
    BY Sizes
  <2>2. req' \in Seq(Frame) /\ file' \in Seq(Frame)
    <3>1. req \in Seq(Frame) /\ Numbered(run + 1, p) \in Frame /\ <<>> \in Seq(Frame)
      BY <1>3, EmptySeq DEF IInv, Typed, Frame, Numbered
    <3> QED
      BY <1>1, <3>1, Longer
  <2> QED
    BY <1>1, <1>2, <1>3, <2>1, <2>2 DEF IInv, Typed
<1>7. Modes' /\ Complete'
  BY <1>1, <1>2 DEF IInv, Modes, Complete
<1>8. Stream'
  <2>1. Len(<<>>) = 0 /\ \A k : k \notin 1..0
    OBVIOUS
  <2> QED
    BY <1>1, <1>2, <1>3, <1>4, <1>5, <2>1 DEF Stream
<1>9. RingHolds'
  <2>1. \A k : k \notin 0..0-1
    OBVIOUS
  <2> QED
    BY <1>1, <1>5, <2>1 DEF RingHolds
<1>10. DoneLast' /\ Queued' /\ Ahead'
  <2>1. Len(<<>>) = 0 /\ \A k : k \notin 1..0
    OBVIOUS
  <2>2. 0 + 0 = 0 /\ 0 <= 0
    OBVIOUS
  <2> QED
    BY <1>1, <1>2, <1>5, <2>1, <2>2 DEF DoneLast, Queued, Ahead
<1>11. FileFrom(0)'
  <2>1. Whole' \in Nat
    <3>1. p % Cnt \in 0..Cnt-1 /\ p \div Cnt \in Nat /\ p = Cnt * (p \div Cnt) + (p % Cnt)
      BY <1>3, Sizes, Division
    <3>2. p - (p % Cnt) \in Nat
      <4>1. Cnt * (p \div Cnt) \in Nat
        BY <3>1, Sizes
      <4> QED
        BY <1>3, <3>1, <4>1, Sizes
    <3> QED
      BY <1>1, <3>2 DEF Whole
  <2>2. 0 % Cnt = 0
    BY <1>5, BlockWhole
  <2>3. Len(<<>>) = 0 /\ 0 + 0 = 0 /\ \A k : k \notin 1..0
    OBVIOUS
  <2>4. 0 \in 0..p
    BY <1>3
  <2> QED
    BY <1>1, <1>2, <1>5, <2>1, <2>2, <2>3, <2>4 DEF FileFrom
<1> QED
  BY <1>6, <1>7, <1>8, <1>9, <1>10, <1>11 DEF IInv

\* A stop adds the request to stop, and the view hears of no more blocks.
LEMMA StopKeeps ==
  ASSUME IInv, NEW how \in {"user", "done"}, Stop(how), timer' \in {timer, FALSE},
         how = "done" => timer, Complete'
  PROVE  IInv'
<1>1. /\ gui = "idle" /\ running /\ running' = FALSE /\ gui' = "stopping" /\ ended' = how
      /\ req' = Append(req, Numbered(run, 0)) /\ piped' = FALSE
      /\ todo' = todo /\ wire' = wire /\ cmq' = cmq /\ rxq' = rxq
      /\ file' = file /\ excuse' = excuse
      /\ ring' = ring /\ head' = head /\ blk' = blk /\ pktcnt' = pktcnt /\ inframe' = inframe
      /\ cur' = cur /\ i' = i /\ writing' = writing
      /\ open' = open /\ run' = run /\ asked' = asked /\ made' = made /\ handled' = handled
  BY DEF Stop, driver, view, counts
<1>2. Typed /\ Modes /\ open /\ piped /\ Stream /\ RingHolds /\ DoneLast
  BY <1>1 DEF IInv, Modes
<1>3. Typed'
  <2>1. req \in Seq(Frame) /\ Numbered(run, 0) \in Frame
    BY <1>2 DEF Typed, Frame, Numbered
  <2>2. req' \in Seq(Frame)
    BY <1>1, <2>1, Longer
  <2> QED
    BY <1>1, <1>2, <2>2 DEF Typed
<1>4. Modes'
  <2>1. how = "done" => ~writing
    BY <1>2 DEF DoneLast
  <2> QED
    BY <1>1, <1>2, <2>1 DEF Modes
<1>5. req' \in {<<Numbered(run, 0)>>, <<Request, Numbered(run, 0)>>} /\ (Unserved' => Unserved)
  <2> DEFINE S == Numbered(run, 0)
  <2>1. req \in {<<>>, <<Request>>}
    BY <1>2 DEF Stream
  <2>2. Append(<<>>, S) = <<S>> /\ Append(<<Request>>, S) = <<Request, S>>
    BY PairUp
  <2>3. Head(<<S>>).n = 0 /\ Head(<<Request, S>>) = Request /\ Head(<<Request>>) = Request
    BY DEF Numbered
  <2>4. CASE req = <<>>
    BY <1>1, <2>2, <2>3, <2>4 DEF Unserved
  <2>5. CASE req = <<Request>>
    BY <1>1, <2>2, <2>3, <2>5 DEF Unserved
  <2> QED
    BY <2>1, <2>4, <2>5
<1>6. Stream'
  BY <1>1, <1>2, <1>5 DEF Stream, Stored, Item, Request, Numbered
<1>7. RingHolds' /\ DoneLast'
  <2>1. Stored' = Stored /\ Busy' = Busy
    BY <1>1 DEF Stored, Busy
  <2>2. RingHolds'
    BY <1>1, <1>2, <2>1 DEF RingHolds, Numbered
  <2>3. timer' => timer
    OBVIOUS
  <2>4. DoneLast'
    BY <1>1, <1>2, <1>5, <2>1, <2>3 DEF DoneLast
  <2> QED
    BY <2>2, <2>4
<1>8. InTime' => Queued' /\ Ahead'
  BY <1>1, <1>2 DEF IInv, InTime, Queued, Ahead, Taken, Stored, Busy
<1>9. InTime' => \E b \in Nat : FileFrom(b)'
  BY <1>1, <1>2 DEF IInv, InTime, FileFrom, Whole, Numbered
<1> QED
  BY <1>3, <1>4, <1>6, <1>7, <1>8, <1>9 DEF IInv

\* When the timer of the window ends the run, the view has written its blocks.
LEMMA RanOut ==
  ASSUME IInv, timer, Stop("done")
  PROVE  Complete'
<1>1. /\ running /\ file' = file /\ excuse' = excuse /\ asked' = asked /\ writing' = writing
  BY DEF Stop, view
<1>2. Typed /\ Modes /\ open /\ piped /\ DoneLast
  BY <1>1 DEF IInv, Modes
<1>3. ~writing /\ rxq = <<>> /\ Stored = asked
  BY <1>2 DEF DoneLast
<1>4. ASSUME InTime, "missed" \notin excuse
      PROVE  Len(file) = Whole
  <2>1. Queued
    BY <1>2, <1>4 DEF IInv
  <2>2. handled = made
    BY <1>2, <1>3, <2>1, Counting DEF Queued, Taken
  <2>3. PICK b \in Nat : FileFrom(b)
    BY <1>4 DEF IInv
  <2>4. b = 0
    BY <1>4, <2>3 DEF FileFrom
  <2>5. 0 + Len(file) = At(made)
    BY <1>2, <1>3, <2>2, <2>3, <2>4 DEF FileFrom
  <2>6. Len(file) = At(made)
    BY <1>2, <2>5, NoLength DEF Typed
  <2>7. Whole = At(made)
    <3>1. asked = At(made) + pktcnt /\ asked \in Nat /\ made \in Nat /\ pktcnt \in 0..Cnt-1
      BY <1>2, <1>3, Counting DEF Stored
    <3> QED
      BY <3>1, WholeBlocks
  <2> QED
    BY <2>6, <2>7
<1>5. Whole' = Whole
  BY <1>1 DEF Whole
<1> QED
  BY <1>1, <1>3, <1>4, <1>5 DEF Complete, InTime

\* A stop that finds no slot leaves the run as it is.
LEMMA StopFailsKeeps ==
  ASSUME IInv, NEW how \in {"user", "done"}, StopFails(how), timer' \in {timer, FALSE}
  PROVE  IInv'
<1>0. timer' \in BOOLEAN /\ (timer' => timer)
  <2>1. timer \in BOOLEAN
    BY DEF IInv, Typed
  <2>2. timer' => timer
    OBVIOUS
  <2>3. timer' \in BOOLEAN
    BY <2>1
  <2> QED
    BY <2>2, <2>3
<1>1. /\ running /\ (excuse' = excuse \/ excuse' = excuse \cup {"noslot"})
      /\ req' = req /\ todo' = todo /\ wire' = wire /\ cmq' = cmq /\ piped' = piped
      /\ rxq' = rxq /\ file' = file
      /\ ring' = ring /\ head' = head /\ blk' = blk /\ pktcnt' = pktcnt /\ inframe' = inframe
      /\ cur' = cur /\ i' = i /\ writing' = writing
      /\ gui' = gui /\ running' = running /\ open' = open /\ run' = run /\ asked' = asked
      /\ ended' = ended /\ made' = made /\ handled' = handled
  <2>1. /\ running /\ UNCHANGED <<board, wire, driver, cmq, piped, rxq, view, user, file, counts>>
        /\ excuse' = excuse \cup (IF how = "done" THEN {"noslot"} ELSE {})
    BY DEF StopFails
  <2>2. excuse' = excuse \/ excuse' = excuse \cup {"noslot"}
    BY <2>1
  <2> QED
    BY <2>1, <2>2 DEF board, driver, view, user, counts
<1>2. (InTime' <=> InTime) /\ ("missed" \in excuse' <=> "missed" \in excuse)
  BY <1>1 DEF InTime
<1>3. Typed' /\ Modes' /\ Complete'
  BY <1>0, <1>1, <1>2 DEF IInv, InTime, Typed, Modes, Complete, Whole
<1>4. open' => Stream' /\ RingHolds' /\ DoneLast'
  BY <1>0, <1>1 DEF IInv, Stream, RingHolds, DoneLast, Stored, Busy, Item, Request, Numbered, Unserved
<1>5. open' /\ InTime' => Queued' /\ Ahead'
  BY <1>1, <1>2 DEF IInv, Queued, Ahead, Taken, Stored, Busy
<1>6. InTime' => \E b \in Nat : FileFrom(b)'
  BY <1>1, <1>2 DEF IInv, FileFrom, Whole, Numbered
<1> QED
  BY <1>3, <1>4, <1>5, <1>6 DEF IInv

\* The timer of the window ends a run that is on, and otherwise nothing.
LEMMA OnTimerKeeps ==
  ASSUME IInv, OnTimer
  PROVE  IInv'
<1>1. timer /\ gui = "idle" /\ timer' = FALSE
  BY DEF OnTimer
<1>2. CASE running
  <2>1. Stop("done") \/ StopFails("done")
    BY <1>2 DEF OnTimer
  <2>2. CASE Stop("done")
    <3>1. Complete'
      BY <1>1, <2>2, RanOut
    <3> QED
      BY <1>1, <2>2, <3>1, StopKeeps
  <2>3. CASE StopFails("done")
    BY <1>1, <2>3, StopFailsKeeps
  <2> QED
    BY <2>1, <2>2, <2>3
<1>3. CASE ~running
  <2>1. /\ req' = req /\ todo' = todo /\ wire' = wire /\ cmq' = cmq /\ piped' = piped
        /\ rxq' = rxq /\ file' = file /\ excuse' = excuse
        /\ ring' = ring /\ head' = head /\ blk' = blk /\ pktcnt' = pktcnt /\ inframe' = inframe
        /\ cur' = cur /\ i' = i /\ writing' = writing
        /\ gui' = gui /\ running' = running /\ open' = open /\ run' = run /\ asked' = asked
        /\ ended' = ended /\ made' = made /\ handled' = handled
    BY <1>3 DEF OnTimer, board, driver, view, user, counts
  <2>2. Typed' /\ Modes' /\ Complete'
    BY <1>1, <2>1 DEF IInv, Typed, Modes, Complete, Whole
  <2>3. ~open'
    BY <1>1, <1>3, <2>1 DEF IInv, Modes
  <2>4. InTime' => \E b \in Nat : FileFrom(b)'
    BY <2>1 DEF IInv, InTime, FileFrom, Whole, Numbered
  <2> QED
    BY <2>2, <2>3, <2>4 DEF IInv
<1> QED
  BY <1>2, <1>3

\* A click on Stop ends a run that the view has not completed, maybe.
LEMMA UserStopKeeps ==
  ASSUME IInv, Stop("user"), timer' = timer
  PROVE  IInv'
<1>1. ended' = "user"
  BY DEF Stop
<1>2. Complete'
  BY <1>1 DEF Complete
<1> QED
  BY <1>2, StopKeeps

-----------------------------------------------------------------------------
\* Nothing has run yet.
LEMMA InitIInv == Init => IInv
<1> SUFFICES ASSUME Init PROVE IInv
  OBVIOUS
<1>1. /\ req = <<>> /\ todo = <<>> /\ wire = <<>> /\ cmq = <<>> /\ rxq = <<>> /\ file = <<>>
      /\ ring = [k \in 0..PoolSlots-1 |-> Torn]
      /\ head = 0 /\ blk = 0 /\ pktcnt = 0 /\ inframe = FALSE /\ piped = FALSE
      /\ cur = 0 /\ i = 0 /\ writing = FALSE
      /\ gui = "idle" /\ timer = FALSE /\ running = FALSE /\ open = FALSE
      /\ run = 0 /\ asked = 0 /\ made = 0 /\ handled = 0 /\ ended = "no" /\ excuse = {}
  BY DEF Init
<1>2. Typed
  <2>1. 0 \in 0..PoolSlots-1 /\ 0 \in 0..Cnt-1 /\ 0 \in Heads
    BY Sizes, HeadPlaces
  <2>2. /\ <<>> \in Seq(Frame) /\ <<>> \in Seq({Done}) /\ <<>> \in Seq(Heads \cup {Done})
    BY EmptySeq
  <2>3. ring \in [0..PoolSlots-1 -> Frame]
    <3>1. Torn \in Frame
      BY DEF Torn, Frame, Numbered
    <3> QED
      BY <1>1, <3>1
  <2> QED
    BY <1>1, <2>1, <2>2, <2>3 DEF Typed
<1>3. Modes /\ Complete /\ ~open
  BY <1>1 DEF Modes, Complete
<1>4. FileFrom(0)
  <2>1. Whole \in Nat
    BY <1>2, WholeBlocks DEF Typed
  <2>2. 0 % Cnt = 0
    BY Blocks, BlockWhole
  <2>3. Len(<<>>) = 0 /\ 0 + 0 = 0 /\ \A k : k \notin 1..0
    OBVIOUS
  <2> QED
    BY <1>1, <2>1, <2>2, <2>3 DEF FileFrom
<1> QED
  BY <1>2, <1>3, <1>4 DEF IInv

\* Every step keeps it.
LEMMA StepKeepsIInv == IInv /\ [Next]_vars => IInv'
<1> SUFFICES ASSUME IInv, [Next]_vars PROVE IInv'
  OBVIOUS
<1>1. CASE Board
  BY <1>1, BoardRequestKeeps, BoardSendsKeeps DEF Board
<1>2. CASE Driver
  BY <1>2, FrameStartsKeeps, FrameEndsKeeps, RxControlKeeps DEF Driver
<1>3. CASE CmThread
  BY <1>3, CmThreadKeeps
<1>4. CASE View
  BY <1>4, TakeBlockKeeps, TakeDoneKeeps, WritePacketKeeps DEF View
<1>5. CASE Gui
  BY <1>5, StartedKeeps, StoppedKeeps, OnTimerKeeps DEF Gui
<1>6. CASE Click
  BY <1>6, StartKeeps, StartFailsKeeps, UserStopKeeps, StopFailsKeeps DEF Click
<1>7. CASE UNCHANGED vars
  <2>1. /\ req' = req /\ todo' = todo /\ wire' = wire /\ cmq' = cmq /\ piped' = piped
        /\ rxq' = rxq /\ file' = file /\ excuse' = excuse /\ timer' = timer
        /\ ring' = ring /\ head' = head /\ blk' = blk /\ pktcnt' = pktcnt /\ inframe' = inframe
        /\ cur' = cur /\ i' = i /\ writing' = writing
        /\ gui' = gui /\ running' = running /\ open' = open /\ run' = run /\ asked' = asked
        /\ ended' = ended /\ made' = made /\ handled' = handled
    BY <1>7 DEF vars, board, driver, view, user, counts
  <2>2. Typed' /\ Modes' /\ Complete'
    BY <2>1 DEF IInv, Typed, Modes, Complete, Whole
  <2>3. open' => Stream' /\ RingHolds' /\ DoneLast'
    BY <2>1 DEF IInv, Stream, RingHolds, DoneLast, Stored, Busy, Item, Request, Numbered, Unserved
  <2>4. open' /\ InTime' => Queued' /\ Ahead'
    BY <2>1 DEF IInv, InTime, Queued, Ahead, Taken, Stored, Busy
  <2>5. InTime' => \E b \in Nat : FileFrom(b)'
    BY <2>1 DEF IInv, InTime, FileFrom, Whole, Numbered
  <2> QED
    BY <2>2, <2>3, <2>4, <2>5 DEF IInv
<1> QED
  BY <1>1, <1>2, <1>3, <1>4, <1>5, <1>6, <1>7 DEF Next

\* The invariant of an acquisition: where each packet, each block and the
\* indication of the end are, and what the file holds of them.
THEOREM SpecIInv == Spec => []IInv
<1> QED
  BY InitIInv, StepKeepsIInv, PTL DEF Spec

\* The file is the run's packets from some block on (DAQView.cpp,
\* OnPipeMsgRun): in order, whole, none twice and none of another run, unless
\* the driver came a ring ahead of the view or filled its queue.
THEOREM FileInOrder == Spec => []InOrder
<1>1. IInv => InOrder
  <2> SUFFICES ASSUME IInv, InTime PROVE \E b \in 0..asked : FileFrom(b)
    BY DEF InOrder, InTime, FileFrom
  <2> QED
    BY DEF IInv, FileFrom
<1> QED
  BY <1>1, SpecIInv, PTL

\* When DAQ_DONE_IND ends a run nothing of it is on its way: all its whole
\* blocks are in the file and the view is not writing (DAQView.cpp, OnTimer).
THEOREM RunComplete == Spec => []Complete
<1>1. IInv => Complete
  BY DEF IInv
<1> QED
  BY <1>1, SpecIInv, PTL

-----------------------------------------------------------------------------
\* What ends a run that is on is under way: its request, all its frames up to
\* DAQ_DONE_IND, or the indication in one of the places it goes through.
EndComes ==
  piped /\ asked # 0 /\ InTime /\ "noslot" \notin excuse =>
    \/ Unserved
    \/ Stored + Len(wire) + Len(todo) = asked + 1
    \/ cmq # <<>> \/ timer \/ \E k \in 1..Len(rxq) : rxq[k] = Done

\* While a run is on its request is not a request to stop.
LEMMA RequestServed ==
  ASSUME Typed, Stream, piped, asked # 0, req # <<>>
  PROVE  Unserved /\ Head(req) = Request
<1>1. req = <<Request>>
  BY DEF Stream
<1>2. Head(<<Request>>) = Request /\ Request.n = asked
  BY DEF Request, Numbered
<1> QED
  BY <1>1, <1>2 DEF Unserved

\* The board and the driver hand the frames on, the last of them as a message.
LEMMA FramesGoOn ==
  ASSUME IInv, EndComes, Board \/ Driver
  PROVE  EndComes'
<1> SUFFICES ASSUME piped', asked' # 0, InTime', "noslot" \notin excuse'
             PROVE  \/ Unserved' \/ Stored' + Len(wire') + Len(todo') = asked' + 1
                    \/ cmq' # <<>> \/ timer' \/ \E k \in 1..Len(rxq') : rxq'[k] = Done
  BY DEF EndComes
<1>1. /\ piped' = piped /\ asked' = asked /\ timer' = timer /\ run' = run /\ InTime
      /\ BoardRequest \/ req' = req
      /\ "noslot" \notin excuse
  BY DEF Board, Driver, BoardRequest, BoardSends, FrameStarts, FrameEnds, RxControl, InTime,
         board, driver, view, user, counts
<1>2. Typed /\ Stream /\ RingHolds /\ DoneLast
  BY <1>1 DEF IInv, Modes
<1>3. /\ Stored \in Nat /\ asked \in Nat /\ Len(wire) \in Nat /\ Len(todo) \in Nat
  BY <1>2, Counting, NoLength DEF Typed
<1>4. CASE BoardRequest
  <2>1. req # <<>> /\ wire' = wire /\ Stored' = Stored
    BY <1>4 DEF BoardRequest, driver, counts, Stored
  <2>2. Unserved /\ Head(req) = Request
    BY <1>1, <1>2, <2>1, RequestServed
  <2>3. Stored = 0 /\ wire = <<>>
    BY <1>2, <2>2 DEF Stream
  <2>4. todo' = [k \in 1..asked + 1 |-> Numbered(run, IF k > asked THEN 0 ELSE k)]
    BY <1>1, <1>4, <2>2 DEF BoardRequest, Request, Numbered
  <2>5. Len(todo') = asked + 1
    BY <1>3, <2>4
  <2>6. Stored' + Len(wire') + Len(todo') = asked' + 1
    BY <1>1, <1>3, <2>1, <2>3, <2>5
  <2> QED
    BY <2>6
<1>5. CASE BoardSends
  <2>1. /\ todo # <<>> /\ todo' = Tail(todo) /\ wire' = Append(wire, Head(todo))
        /\ cmq' = cmq /\ rxq' = rxq /\ req' = req /\ Stored' = Stored
    BY <1>5 DEF BoardSends, driver, counts, Stored
  <2>2. wire \in Seq(Frame) /\ todo \in Seq(Frame)
    BY <1>2 DEF Typed
  <2>3. Len(todo') = Len(todo) - 1 /\ Len(todo) \in Nat \ {0} /\ Head(todo) \in Frame
    BY <2>1, <2>2, Behind
  <2>4. Len(wire') = Len(wire) + 1
    BY <2>1, <2>2, <2>3, Longer
  <2>5. Stored' + Len(wire') + Len(todo') = Stored + Len(wire) + Len(todo)
    BY <1>3, <2>1, <2>3, <2>4
  <2> QED
    BY <1>1, <2>1, <2>5 DEF EndComes, Unserved
<1>6. CASE FrameStarts
  BY <1>1, <1>6 DEF FrameStarts, EndComes, Unserved, Stored, board, counts
<1>7. CASE FrameEnds
  <2>1. todo' = todo /\ wire' = Tail(wire) /\ wire # <<>>
    BY <1>2, <1>7 DEF FrameEnds, board, Typed
  <2>2. Len(wire') = Len(wire) - 1 /\ Len(wire) \in Nat \ {0}
    BY <1>2, <2>1, Behind DEF Typed
  <2>3. Stored' = Stored + 1
    BY <1>2, <1>7, OneMoreStored
  <2>4. Stored' + Len(wire') + Len(todo') = Stored + Len(wire) + Len(todo)
    BY <1>3, <2>1, <2>2, <2>3
  <2>5. ~Unserved /\ cmq = <<>> /\ ~timer /\ \A k \in 1..Len(rxq) : rxq[k] # Done
    BY <1>2, <2>1, NextFrame, NoDoneYet
  <2> QED
    BY <1>1, <2>4, <2>5 DEF EndComes
<1>8. CASE RxControl
  <2>1. cmq' = Append(cmq, Done) /\ cmq \in Seq({Done})
    BY <1>2, <1>8 DEF RxControl, Typed
  <2> QED
    BY <2>1, Longer
<1> QED
  BY <1>4, <1>5, <1>6, <1>7, <1>8 DEF Board, Driver

\* The host hands the indication on.
LEMMA IndicationGoesOn ==
  ASSUME IInv, EndComes, CmThread \/ View
  PROVE  EndComes'
<1> SUFFICES ASSUME piped', asked' # 0, InTime', "noslot" \notin excuse'
             PROVE  \/ Unserved' \/ Stored' + Len(wire') + Len(todo') = asked' + 1
                    \/ cmq' # <<>> \/ timer' \/ \E k \in 1..Len(rxq') : rxq'[k] = Done
  BY DEF EndComes
<1>1. /\ piped' = piped /\ asked' = asked /\ wire' = wire /\ InTime
      /\ Stored' = Stored /\ Unserved' = Unserved /\ todo' = todo
      /\ "noslot" \notin excuse
  BY DEF CmThread, View, TakeBlock, TakeDone, WritePacket, InTime, Stored, Unserved,
         board, driver, view, user, counts
<1>2. Typed
  BY DEF IInv
<1>3. CASE CmThread
  <2>1. rxq' = Put(rxq, Done) /\ Len(rxq) + 1 # Que
    BY <1>3 DEF CmThread, InTime
  <2>2. Len(rxq) \in Nat /\ Len(rxq') = Len(rxq) + 1 /\ rxq'[Len(rxq) + 1] = Done
    BY <1>2, <2>1, Queueing
  <2>3. Len(rxq) + 1 \in 1..Len(rxq')
    BY <2>2
  <2> QED
    BY <2>2, <2>3
<1>4. CASE TakeBlock
  <2>1. rxq # <<>> /\ Head(rxq) # Done /\ rxq' = Tail(rxq) /\ cmq' = cmq /\ timer' = timer
    BY <1>4 DEF TakeBlock
  <2>2. /\ Len(rxq) \in Nat \ {0} /\ Head(rxq) = rxq[1] /\ Len(rxq') = Len(rxq) - 1
        /\ \A k \in 1..Len(rxq)-1 : rxq'[k] = rxq[k + 1]
    BY <1>2, <2>1, Behind DEF Typed
  <2>3. ASSUME NEW k \in 1..Len(rxq), rxq[k] = Done
        PROVE  \E l \in 1..Len(rxq') : rxq'[l] = Done
    <3>1. k # 1
      BY <2>1, <2>2, <2>3
    <3>2. k - 1 \in 1..Len(rxq') /\ k - 1 \in 1..Len(rxq)-1 /\ (k - 1) + 1 = k
      BY <2>2, <3>1
    <3>3. rxq'[k - 1] = Done
      BY <2>2, <2>3, <3>2
    <3> QED
      BY <3>2, <3>3
  <2> QED
    BY <1>1, <2>1, <2>3 DEF EndComes
<1>5. CASE TakeDone
  BY <1>5 DEF TakeDone
<1>6. CASE WritePacket
  BY <1>1, <1>6 DEF WritePacket, EndComes
<1> QED
  BY <1>3, <1>4, <1>5, <1>6 DEF View

\* The GUI's thread asks for a run, and acts on the timer only once the run is on.
LEMMA GuiActsOnIt ==
  ASSUME IInv, EndComes, Gui \/ Click
  PROVE  EndComes'
<1> SUFFICES ASSUME piped', asked' # 0, InTime', "noslot" \notin excuse'
             PROVE  Unserved' \/ EndComes'
  BY DEF EndComes
<1>1. CASE Started \/ Stopped
  BY <1>1 DEF Started, Stopped, EndComes, InTime, Unserved, Stored, board, driver, view, counts
<1>2. CASE OnTimer \/ StartFails
  <2>1. ~running /\ gui = "idle"
    BY <1>2 DEF OnTimer, StartFails, Stop, StopFails
  <2>2. piped' = piped
    BY <1>2, <2>1 DEF OnTimer, StartFails
  <2> QED
    BY <2>1, <2>2 DEF IInv, Modes
<1>3. CASE (Stop("user") \/ StopFails("user")) /\ UNCHANGED timer
  BY <1>3 DEF Stop, StopFails, EndComes, InTime, Unserved, Stored, board, driver, view, user, counts
<1>4. ASSUME NEW p \in Packets, Start(p)
      PROVE  Unserved'
  <2>1. req = <<>> /\ req' = Append(req, Numbered(run + 1, p)) /\ asked' = p
    BY <1>4 DEF Start, StartWith, Quiet
  <2>2. req' = <<Numbered(run + 1, p)>>
    BY <2>1
  <2> QED
    BY <2>1, <2>2 DEF Unserved, Numbered
<1> QED
  BY <1>1, <1>2, <1>3, <1>4 DEF Gui, Click

\* Unless the view's queue fills, or cm_alloc fails for the indication or for the
\* stop it asks for (opto.cpp, opto_thread; DAQView.cpp, OnBnClickedDAQStart), the
\* end of a run that nobody stops is always still to come: the request, the
\* frames, the message, its place in the view's queue and the timer hand it on, and
\* no other step drops it (a run of no packets has no end).  With fairness this is
\* why Ends holds.
THEOREM EndNeverLost == Spec => []EndComes
<1>1. Init => EndComes
  BY DEF Init, EndComes
<1>2. IInv /\ EndComes /\ [Next]_vars => EndComes'
  <2>1. ASSUME EndComes, UNCHANGED vars
        PROVE  EndComes'
    BY <2>1 DEF vars, board, driver, view, user, counts, EndComes, InTime, Unserved, Stored
  <2> QED
    BY <2>1, FramesGoOn, IndicationGoesOn, GuiActsOnIt DEF Next
<1> QED
  BY <1>1, <1>2, SpecIInv, PTL DEF Spec
=============================================================================
