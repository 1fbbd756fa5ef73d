---------------------------- MODULE OptoRxProofs ----------------------------
(***************************************************************************)
(* Proofs about OptoRx, for any number of hardware and CM slots and any    *)
(* number of lost bytes: types, that the handler's test before it          *)
(* acknowledges leaves no frame behind, and that frames come whole and in  *)
(* order while no more than HwSlots - 1 of them are unread at a time.      *)
(***************************************************************************)
EXTENDS OptoRx, TLAPS

InSlots == Frames \cup {None, Bad}

\* The CM slot the handler holds
Held == slot = <<>> \/ \E f \in InSlots : slot = <<f>>

\* The interrupt that called the handler is pending until it has acknowledged it.
Called == isr # "idle" => rx_int

\* What the handler has read of the status is still true when it acknowledges,
\* but for a frame that has ended since.
Fresh == isr = "ack" => sta = rx_head \/ raced

IInv == TypeOK /\ Held /\ Called /\ Fresh /\ NotStranded

-----------------------------------------------------------------------------
\* The constants' arithmetic: a level pair of indices is an empty ring, and the
\* cyclic successors stay in range.
LEMMA Level == ASSUME NEW i \in 0..HwSlots-1 PROVE (i + HwSlots - i) % HwSlots = 0
<1>1. HwSlots \in Nat /\ HwSlots >= 2
  BY HwAssumption
<1>2. i + HwSlots - i = HwSlots
  BY <1>1
<1>3. HwSlots % HwSlots = 0
  BY <1>1
<1> QED
  BY <1>2, <1>3

\* A remainder is less than what it was divided by.
LEMMA Cyclic == ASSUME NEW n \in Nat, NEW k \in Nat \ {0} PROVE n % k \in 0..k-1
OBVIOUS

\* After opto_init the ring is empty and the handler idle.
LEMMA InitIInv == Init => IInv
<1> SUFFICES ASSUME Init PROVE IInv
  OBVIOUS
<1> USE HwAssumption, PoolAssumption, LossesAssumption DEF Init
<1>1. TypeOK
  <2>1. rx_buf \in [0..HwSlots-1 -> Frames \cup {None, Bad}]
    OBVIOUS
  <2>2. pos \in DOMAIN Flags /\ frame \in Frames
    BY DEF Flags, Frames
  <2> QED
    BY <2>1, <2>2 DEF TypeOK, Size
<1>2. Held /\ Called /\ Fresh
  BY DEF Held, Called, Fresh
<1>3. NotStranded
  BY Level DEF NotStranded, Unread
<1> QED
  BY <1>1, <1>2, <1>3 DEF IInv

\* What every byte does to the host's own state.
LEMMA SendTyped ==
  ASSUME TypeOK, NEW lost \in BOOLEAN, Send(lost)
  PROVE  pos' \in DOMAIN Flags /\ frame' \in Frames /\ hurt' \in BOOLEAN
<1>1. HwSlots \in Nat \ {0}
  BY HwAssumption
<1>2. DOMAIN Flags = 1..5 /\ Len(Flags) = 5
  BY DEF Flags
<1>3. pos \in 1..5
  BY <1>2 DEF TypeOK
<1>4. pos' \in 1..5
  BY <1>2, <1>3 DEF Send
<1>5. frame \in 1..HwSlots
  BY DEF TypeOK, Frames
<1>6. frame % HwSlots \in 0..HwSlots-1
  BY <1>1, <1>5, Cyclic
<1>7. (frame % HwSlots) + 1 \in 1..HwSlots
  BY <1>1, <1>6
<1>8. frame' \in 1..HwSlots
  BY <1>5, <1>7 DEF Send
<1> QED
  BY <1>2, <1>4, <1>8 DEF Send, TypeOK, Frames

\* A byte that arrives inside a frame touches only the parser.
LEMMA InsideKeeps == IInv /\ (Start \/ Escape \/ Store \/ Lose) => IInv'
<1> SUFFICES ASSUME IInv, Start \/ Escape \/ Store \/ Lose PROVE IInv'
  OBVIOUS
<1>1. UNCHANGED <<slots, driver>> /\ TypeOK
  BY DEF Start, StartWith, Escape, Store, Lose, IInv
<1>2. pos' \in DOMAIN Flags /\ frame' \in Frames /\ hurt' \in BOOLEAN
  BY <1>1, SendTyped DEF Start, StartWith, Escape, Store, Lose, Get
<1>3. /\ losses' \in 0..Losses /\ rx_ptr' \in 0..Size-1 /\ kept' \subseteq 0..Size-1
      /\ cut' \in BOOLEAN /\ rx_esc' \in BOOLEAN /\ rx_busy' \in BOOLEAN
  <2>1. CASE Start
    <3>1. 0 \in 0..Size-1
      BY DEF Size
    <3> QED
      BY <1>1, <2>1, <3>1 DEF Start, StartWith, Get, TypeOK
  <2>2. CASE Escape
    BY <1>1, <2>2 DEF Escape, Get, TypeOK, Size
  <2>3. CASE Store
    <3>1. rx_ptr \in 0..Size-1 /\ (rx_ptr + 1) % Size \in 0..Size-1
      BY <1>1 DEF TypeOK, Size
    <3>2. kept' \subseteq 0..Size-1
      BY <1>1, <2>3, <3>1 DEF Store, TypeOK
    <3> QED
      BY <1>1, <2>3, <3>1, <3>2 DEF Store, Get, TypeOK
  <2>4. CASE Lose
    <3>1. kept' \subseteq 0..Size-1 /\ UNCHANGED parser
      BY <1>1, <2>4 DEF Lose, TypeOK
    <3>2. losses' \in 0..Losses
      BY <1>1, <2>4, LossesAssumption DEF Lose, TypeOK
    <3>3. cut' \in BOOLEAN
      BY <2>4 DEF Lose
    <3> QED
      BY <1>1, <3>1, <3>2, <3>3 DEF TypeOK, parser
  <2> QED
    BY <2>1, <2>2, <2>3, <2>4
<1>4. TypeOK'
  BY <1>1, <1>2, <1>3 DEF TypeOK, slots, driver
<1>5. Held' /\ Called' /\ Fresh' /\ NotStranded'
  BY <1>1 DEF IInv, Held, Called, Fresh, NotStranded, Unread, slots, driver
<1> QED
  BY <1>4, <1>5 DEF IInv

\* The end of a frame sets the interrupt, and is what can come between the
\* handler's look at the status and its acknowledge.
LEMMA EndKeeps == IInv /\ End => IInv'
<1> SUFFICES ASSUME IInv, End PROVE IInv'
  OBVIOUS
<1>1. /\ UNCHANGED <<rx_ptr, driver, losses>> /\ TypeOK
      /\ rx_esc' = FALSE /\ rx_busy' = FALSE /\ rx_int' = TRUE /\ kept' = {} /\ cut' = FALSE
      /\ raced' = (isr = "ack") /\ overrun' = (overrun \/ Unread = HwSlots - 1)
      /\ Send(FALSE)
  BY DEF End, EndWith, Get, IInv
<1>2. pos' \in DOMAIN Flags /\ frame' \in Frames /\ hurt' \in BOOLEAN
  BY <1>1, SendTyped
<1>3. rx_head' \in 0..HwSlots-1
  <2>1. rx_head \in 0..HwSlots-1 /\ HwSlots \in Nat \ {0}
    BY <1>1, HwAssumption DEF TypeOK
  <2>2. (rx_head + 1) % HwSlots \in 0..HwSlots-1
    BY <2>1, Cyclic
  <2> QED
    BY <2>2 DEF End, EndWith
<1>4. rx_buf' \in [0..HwSlots-1 -> Frames \cup {None, Bad}]
  BY <1>1 DEF End, EndWith, TypeOK
<1>5. raced' \in BOOLEAN /\ overrun' \in BOOLEAN
  BY <1>1
<1>6. TypeOK'
  BY <1>1, <1>2, <1>3, <1>4, <1>5 DEF TypeOK, driver
<1>7. Held' /\ Called' /\ NotStranded'
  BY <1>1 DEF IInv, Held, Called, NotStranded, driver
<1>8. Fresh'
  BY <1>1 DEF Fresh, driver
<1> QED
  BY <1>6, <1>7, <1>8 DEF IInv

\* The handler takes a frame, if there is a CM slot for it.
LEMMA IsrTakeKeeps == IInv /\ IsrTake => IInv'
<1> SUFFICES ASSUME IInv, IsrTake PROVE IInv'
  OBVIOUS
<1>1. /\ UNCHANGED <<host, parser, rx_head, rx_int, raced, overrun, sta, out>>
      /\ TypeOK /\ isr = "idle" /\ rx_int /\ isr' = "sample" /\ Held
  BY DEF IsrTake, IInv
<1>2. HwSlots \in Nat /\ HwSlots >= 2 /\ rx_tail \in 0..HwSlots-1 /\ free \in 0..Pool /\ Pool \in Nat
  BY <1>1, HwAssumption, PoolAssumption DEF TypeOK
<1>3. NextRx(rx_tail) \in 0..HwSlots-1
  BY <1>2 DEF NextRx
<1>4. rx_buf[rx_tail] \in InSlots /\ Bad \in InSlots
  BY <1>1, <1>2 DEF TypeOK, InSlots
<1>5. /\ free' \in 0..Pool /\ rx_tail' \in 0..HwSlots-1
      /\ rx_buf' \in [0..HwSlots-1 -> Frames \cup {None, Bad}]
      /\ Held'
  <2>1. CASE free # 0
    <3>1. free' \in 0..Pool
      BY <1>2, <2>1 DEF IsrTake
    <3>2. rx_tail' \in 0..HwSlots-1
      BY <1>3, <2>1 DEF IsrTake
    <3>3. rx_buf' \in [0..HwSlots-1 -> Frames \cup {None, Bad}]
      BY <1>1, <2>1 DEF IsrTake, TypeOK
    <3>4. \E f \in InSlots : slot' = <<f>>
      BY <1>4, <2>1 DEF IsrTake
    <3> QED
      BY <3>1, <3>2, <3>3, <3>4 DEF Held
  <2>2. CASE free = 0
    BY <1>1, <2>2 DEF IsrTake, TypeOK, Held
  <2> QED
    BY <2>1, <2>2
<1>6. TypeOK'
  BY <1>1, <1>5 DEF TypeOK, host, parser
<1>7. Called' /\ Fresh' /\ NotStranded'
  BY <1>1 DEF Called, Fresh, NotStranded
<1> QED
  BY <1>5, <1>6, <1>7 DEF IInv

\* What the handler reads of the status is true when it reads it.
LEMMA IsrSampleKeeps == IInv /\ IsrSample => IInv'
<1> SUFFICES ASSUME IInv, IsrSample PROVE IInv'
  OBVIOUS
<1>1. /\ UNCHANGED <<host, parser, slots, rx_tail, slot, free, out>>
      /\ sta' = rx_head /\ isr' = "ack" /\ isr = "sample"
      /\ TypeOK /\ Held /\ Called
  BY DEF IsrSample, IInv
<1>2. TypeOK'
  BY <1>1 DEF TypeOK, host, parser, slots
<1>3. Held' /\ Called' /\ Fresh' /\ NotStranded'
  BY <1>1 DEF Held, Called, Fresh, NotStranded, slots
<1> QED
  BY <1>2, <1>3 DEF IInv

\* An acknowledge that clears the interrupt leaves an empty ring, or the frame
\* that has just ended.
LEMMA IsrAckKeeps == IInv /\ IsrAck => IInv'
<1> SUFFICES ASSUME IInv, IsrAck PROVE IInv'
  OBVIOUS
<1>1. /\ UNCHANGED <<host, parser, rx_head, rx_buf, raced, overrun, rx_tail, free>>
      /\ isr = "ack" /\ isr' = "idle" /\ slot' = <<>> /\ sta' = 0
      /\ rx_int' = (rx_int /\ ~(sta = rx_tail))
      /\ out' = IF slot \in {<<>>, <<None>>} THEN out ELSE Head(slot)
      /\ TypeOK /\ Held /\ Called /\ Fresh
  BY DEF IsrAck, IsrAckIf, IInv
<1>2. out' \in Frames \cup {None, Bad}
  <2>1. CASE slot = <<>>
    BY <1>1, <2>1 DEF TypeOK
  <2>2. ASSUME NEW f \in InSlots, slot = <<f>> PROVE out' \in Frames \cup {None, Bad}
    <3>1. Head(slot) = f
      BY <2>2
    <3> QED
      BY <1>1, <3>1 DEF InSlots, TypeOK
  <2> QED
    BY <1>1, <2>1, <2>2 DEF Held
<1>3. rx_int' \in BOOLEAN /\ 0 \in 0..HwSlots-1
  BY <1>1, HwAssumption
<1>4. TypeOK'
  BY <1>1, <1>2, <1>3 DEF TypeOK, host, parser
<1>5. NotStranded'
  <2>1. CASE rx_int'
    BY <2>1 DEF NotStranded
  <2>2. CASE ~rx_int' /\ raced
    BY <1>1, <2>2 DEF NotStranded
  <2>3. CASE ~rx_int' /\ ~raced
    <3>1. rx_int /\ sta = rx_head
      BY <1>1, <2>3 DEF Called, Fresh
    <3>2. sta = rx_tail
      BY <1>1, <2>3, <3>1
    <3>3. Unread = 0
      BY <1>1, <3>1, <3>2, Level DEF Unread, TypeOK
    <3>4. Unread' = Unread
      BY <1>1 DEF Unread
    <3> QED
      BY <3>3, <3>4 DEF NotStranded
  <2> QED
    BY <2>1, <2>2, <2>3
<1>6. Held' /\ Called' /\ Fresh'
  BY <1>1 DEF Held, Called, Fresh
<1> QED
  BY <1>4, <1>5, <1>6 DEF IInv

\* A slot that is freed is out of the link's hands.
LEMMA CmFreeKeeps == IInv /\ CmFree => IInv'
<1> SUFFICES ASSUME IInv, CmFree PROVE IInv'
  OBVIOUS
<1>1. UNCHANGED <<host, parser, slots, rx_tail, slot, sta, isr, out>> /\ TypeOK
  BY DEF CmFree, IInv
<1>2. free' \in 0..Pool
  BY <1>1, PoolAssumption DEF CmFree, TypeOK
<1>3. TypeOK'
  BY <1>1, <1>2 DEF TypeOK, host, parser, slots
<1>4. Held' /\ Called' /\ Fresh' /\ NotStranded'
  BY <1>1 DEF IInv, Held, Called, Fresh, NotStranded, Unread, slots
<1> QED
  BY <1>3, <1>4 DEF IInv

\* Every step keeps the invariant.
LEMMA StepKeeps == IInv /\ [Next]_vars => IInv'
<1> SUFFICES ASSUME IInv, [Next]_vars PROVE IInv'
  OBVIOUS
<1>1. CASE UNCHANGED vars
  BY <1>1 DEF IInv, TypeOK, Held, Called, Fresh, NotStranded, Unread, vars, host, parser, slots, driver
<1> QED
  BY <1>1, InsideKeeps, EndKeeps, IsrTakeKeeps, IsrSampleKeeps, IsrAckKeeps, CmFreeKeeps
     DEF Next, Byte, Isr

\* The invariant holds in every state.
LEMMA SpecIInv == Spec => []IInv
BY InitIInv, StepKeeps, PTL DEF Spec

-----------------------------------------------------------------------------
\* Types: the parser never leaves the slot the FPGA gives it, the indices stay in
\* their rings and what the handler queues is a frame.
THEOREM TypeCorrect == Spec => []TypeOK
<1>1. IInv => TypeOK
  BY DEF IInv
<1> QED
  BY <1>1, SpecIInv, PTL

\* A frame in a hardware slot has the interrupt pending, or the handler still to
\* look, unless it ended just before an acknowledge: whatever was lost before,
\* however many frames wait and however few CM slots there are.
THEOREM NobodyStranded == Spec => []NotStranded
<1>1. IInv => NotStranded
  BY DEF IInv
<1> QED
  BY <1>1, SpecIInv, PTL

-----------------------------------------------------------------------------
(***************************************************************************)
(* Which frames reach cm_thread's queue.  Every place of the ring gets a   *)
(* label, the last frame without a loss before it; then a frame is in its  *)
(* order when it is the one after its label.                               *)
(***************************************************************************)

\* The frame after x, None counting as the last one.
After(x) == (x % HwSlots) + 1

\* A frame that has lost no byte has the parser where it should be.
InStep ==
  ~hurt => /\ pos = 2 => rx_ptr = 0 /\ rx_esc = FALSE /\ kept = {}
           /\ pos = 3 => rx_ptr = 1 /\ rx_esc = FALSE /\ kept = {0}
           /\ pos = 4 => rx_ptr = 1 /\ rx_esc = TRUE /\ kept = {0}
           /\ pos = 5 => kept = {0, 1}

\* Place p of the ring holds a frame that the handler has not taken.
Between(t, h, p) == IF t <= h THEN t <= p /\ p < h ELSE t <= p \/ p < h
Waits(p) == Between(rx_tail, rx_head, p)

\* The last frame before the ring: the one in the handler's CM slot, or the last
\* one queued
Base == IF slot \in {<<>>, <<None>>} THEN out ELSE Head(slot)

\* The host has sent the frames up to x without a loss, or is sending the next.
Sends(x) == IF pos = 1 /\ ~hurt THEN After(frame) = After(x) ELSE frame = After(x)

Labels(g) ==
  /\ g[rx_tail] = Base
  /\ Sends(g[rx_head])
  /\ \A p \in 0..HwSlots-1 :
       Waits(p) => IF rx_buf[p] = None THEN g[NextRx(p)] = g[p]
                   ELSE rx_buf[p] = After(g[p]) /\ g[NextRx(p)] = rx_buf[p]

\* The handler never looks in vain.
NotInVain == /\ isr = "idle" => slot = <<>>
             /\ isr = "idle" /\ rx_int => rx_head # rx_tail
             /\ isr = "ack" /\ sta # rx_tail => rx_head # rx_tail

InLine == \E g \in [0..HwSlots-1 -> 0..HwSlots] : Labels(g)

FInv ==
  /\ InStep
  /\ ~overrun => /\ NotInVain
                 /\ slot \notin {<<>>, <<None>>} => Head(slot) = After(out)
                 /\ InLine

-----------------------------------------------------------------------------
\* The bytes of a frame, one by one.
LEMMA FlagsAt ==
  /\ DOMAIN Flags = 1..5
  /\ Flags[1] = "SOF" /\ Flags[2] = "PART" /\ Flags[3] = "ESC" /\ Flags[4] = "PART" /\ Flags[5] = "EOF"
BY DEF Flags

\* The frame after one is a frame.
LEMMA AfterTyped == ASSUME NEW x \in Nat PROVE After(x) \in Frames /\ After(x) \in 0..HwSlots
<1>1. HwSlots \in Nat \ {0}
  BY HwAssumption
<1>2. x % HwSlots \in 0..HwSlots-1
  BY <1>1, Cyclic
<1> QED
  BY <1>1, <1>2 DEF After, Frames

\* The ring's places: what the end of a frame adds and what the handler takes.
LEMMA NextPlace ==
  ASSUME NEW h \in 0..HwSlots-1
  PROVE  NextRx(h) \in 0..HwSlots-1 /\ (h + 1) % HwSlots = NextRx(h) /\ NextRx(h) # h
<1>1. HwSlots \in Nat /\ HwSlots >= 2
  BY HwAssumption
<1>2. CASE h + 1 = HwSlots
  <2>1. HwSlots % HwSlots = 0
    BY <1>1
  <2> QED
    BY <1>1, <1>2, <2>1 DEF NextRx
<1>3. CASE h + 1 # HwSlots
  <2>1. h + 1 \in 0..HwSlots-1
    BY <1>1, <1>3
  <2>2. (h + 1) % HwSlots = h + 1
    BY <1>1, <2>1
  <2> QED
    BY <1>1, <1>3, <2>1, <2>2 DEF NextRx
<1> QED
  BY <1>2, <1>3

\* The end of a frame adds the place at rx_head to those that wait.
LEMMA Adds ==
  ASSUME NEW t \in 0..HwSlots-1, NEW h \in 0..HwSlots-1, NextRx(h) # t, NEW p \in 0..HwSlots-1
  PROVE  /\ Between(t, NextRx(h), p) <=> Between(t, h, p) \/ p = h
         /\ Between(t, h, p) => p # h /\ p # NextRx(h) /\ NextRx(p) # NextRx(h)
<1>1. HwSlots \in Nat /\ HwSlots >= 2
  BY HwAssumption
<1> QED
  BY <1>1 DEF Between, NextRx

\* The handler takes the place at rx_tail out of them.
LEMMA Takes ==
  ASSUME NEW t \in 0..HwSlots-1, NEW h \in 0..HwSlots-1, t # h, NEW p \in 0..HwSlots-1
  PROVE  /\ Between(t, h, t)
         /\ Between(NextRx(t), h, p) => Between(t, h, p) /\ p # t
<1>1. HwSlots \in Nat /\ HwSlots >= 2
  BY HwAssumption
<1> QED
  BY <1>1 DEF Between, NextRx

\* The ring is full when the next end would meet the tail.
LEMMA FullRing ==
  ASSUME NEW t \in 0..HwSlots-1, NEW h \in 0..HwSlots-1,
         (h + HwSlots - t) % HwSlots # HwSlots - 1
  PROVE  NextRx(h) # t
<1>1. HwSlots \in Nat /\ HwSlots >= 2
  BY HwAssumption
<1> SUFFICES ASSUME NextRx(h) = t PROVE FALSE
  OBVIOUS
<1>2. h + HwSlots - t \in {HwSlots - 1, 2 * HwSlots - 1}
  BY <1>1 DEF NextRx
<1>3. (HwSlots - 1) % HwSlots = HwSlots - 1
  <2>1. HwSlots - 1 \in 0..HwSlots-1
    BY <1>1
  <2> QED
    BY <1>1, <2>1
<1>4. (2 * HwSlots - 1) % HwSlots = HwSlots - 1
  <2>1. HwSlots - 1 \in 0..HwSlots-1 /\ 2 * HwSlots - 1 = HwSlots * 1 + (HwSlots - 1)
    BY <1>1
  <2>2. (HwSlots * 1 + (HwSlots - 1)) % HwSlots = HwSlots - 1
    BY <1>1, <2>1
  <2> QED
    BY <2>1, <2>2
<1> QED
  BY <1>2, <1>3, <1>4

-----------------------------------------------------------------------------
\* What a byte does to the number of the frame, but for an end that is not lost.
LEMMA SendsOn ==
  ASSUME TypeOK, NEW x, NEW lost \in BOOLEAN, Send(lost), Sends(x), pos # 5 \/ lost
  PROVE  /\ IF pos' = 1 /\ ~hurt' THEN After(frame') = After(x) ELSE frame' = After(x)
         /\ pos' = IF pos = 5 THEN 1 ELSE pos + 1
<1>1. pos \in 1..5 /\ pos' = (pos % 5) + 1
  BY DEF TypeOK, Send, Flags
<1>2. pos' = IF pos = 5 THEN 1 ELSE pos + 1
  BY <1>1
<1>3. CASE pos = 1
  <2>1. pos' # 1
    BY <1>1, <1>2, <1>3
  <2>2. frame' = After(x)
    BY <1>3 DEF Send, Sends, After
  <2> QED
    BY <1>2, <2>1, <2>2
<1>4. CASE pos # 1
  <2>1. frame' = frame /\ frame = After(x)
    BY <1>4 DEF Send, Sends
  <2>2. ~(pos' = 1 /\ ~hurt')
    BY <1>1, <1>2, <1>4 DEF Send
  <2> QED
    BY <1>2, <2>1, <2>2
<1> QED
  BY <1>3, <1>4

\* Before the first frame everything is in line.
LEMMA InitFInv == Init => FInv
<1> SUFFICES ASSUME Init PROVE FInv
  OBVIOUS
<1>1. HwSlots \in Nat /\ HwSlots >= 2 /\ 0 \in 0..HwSlots-1
  BY HwAssumption
<1>2. InStep
  BY DEF Init, InStep
<1>3. NotInVain /\ slot \in {<<>>, <<None>>} /\ Base = None
  BY DEF Init, NotInVain, Base
<1>4. InLine
  <2> DEFINE g == [p \in 0..HwSlots-1 |-> None]
  <2>1. g \in [0..HwSlots-1 -> 0..HwSlots] /\ g[0] = None
    BY <1>1 DEF None
  <2>2. Sends(None)
    <3>1. After(HwSlots) = After(None)
      <4>1. HwSlots % HwSlots = 0 /\ 0 % HwSlots = 0
        BY <1>1
      <4> QED
        BY <4>1 DEF After, None
    <3> QED
      BY <3>1 DEF Sends, Init
  <2>3. ASSUME NEW p \in 0..HwSlots-1 PROVE ~Waits(p)
    BY <1>1, <2>3 DEF Waits, Between, Init
  <2> HIDE DEF g
  <2>4. Labels(g)
    <3>1. rx_tail = 0 /\ rx_head = 0
      BY DEF Init
    <3> QED
      BY <1>3, <2>1, <2>2, <2>3, <3>1 DEF Labels
  <2> QED
    BY <2>1, <2>4 DEF InLine
<1> QED
  BY <1>2, <1>3, <1>4 DEF FInv

\* A byte inside a frame keeps the parser in step and leaves the ring alone.
LEMMA InsideInLine == IInv /\ FInv /\ (Start \/ Escape \/ Store \/ Lose) => FInv'
<1> SUFFICES ASSUME IInv, FInv, Start \/ Escape \/ Store \/ Lose PROVE FInv'
  OBVIOUS
<1>1. UNCHANGED <<slots, driver>> /\ TypeOK /\ InStep /\ pos \in 1..5
  <2>1. UNCHANGED <<slots, driver>> /\ TypeOK /\ InStep
    BY DEF Start, StartWith, Escape, Store, Lose, IInv, FInv
  <2> QED
    BY <2>1, FlagsAt DEF TypeOK
<1>2. PICK lost \in BOOLEAN : Send(lost) /\ (pos # 5 \/ lost) /\ (Lose => lost)
                              /\ (~Lose => lost = FALSE)
  <2>1. CASE Lose
    BY <2>1 DEF Lose
  <2>2. CASE ~Lose
    <3>1. Send(FALSE) /\ pos # 5
      BY <2>2, FlagsAt DEF Start, StartWith, Escape, Store, Get
    <3> QED
      BY <2>2, <3>1
  <2> QED
    BY <2>1, <2>2
<1>3. InStep'
  <2>1. hurt' = (lost \/ (hurt /\ pos # 1))
    BY <1>2 DEF Send
  <2>2. pos' = IF pos = 5 THEN 1 ELSE pos + 1
    BY <1>1, <1>2 DEF Send, Flags
  <2>3. CASE Lose
    BY <1>2, <2>1, <2>3 DEF InStep
  <2>4. CASE Start
    <3>1. pos = 1 /\ rx_ptr' = 0 /\ rx_esc' = FALSE /\ kept' = {}
      BY <1>1, <2>4, FlagsAt DEF Start, StartWith, Get
    <3>2. pos' = 2
      BY <2>2, <3>1
    <3> QED
      BY <3>1, <3>2 DEF InStep
  <2>5. CASE Escape /\ ~Lose
    <3>1. pos = 3 /\ UNCHANGED <<rx_ptr, kept>> /\ rx_esc' = TRUE
      BY <1>1, <2>5, FlagsAt DEF Escape, Get
    <3>2. pos' = 4 /\ hurt' = hurt
      BY <1>1, <1>2, <2>1, <2>2, <2>5, <3>1 DEF TypeOK
    <3> QED
      BY <1>1, <3>1, <3>2 DEF InStep
  <2>6. CASE Store /\ ~Lose
    <3>1. pos \in {2, 4}
      BY <1>1, <2>6, FlagsAt DEF Store, Get
    <3>2. hurt' = hurt
      BY <1>1, <1>2, <2>1, <2>6, <3>1 DEF TypeOK
    <3>3. CASE pos = 2 /\ ~hurt
      <4>1. rx_ptr = 0 /\ rx_esc = FALSE /\ kept = {}
        BY <1>1, <3>3 DEF InStep
      <4>2. (pos \div 2) - 1 = 0 /\ (rx_esc = (Flags[pos - 1] = "ESC"))
        <5>1. (2 \div 2) - 1 = 0 /\ 2 - 1 = 1 /\ Flags[1] # "ESC"
          BY FlagsAt
        <5> QED
          BY <3>3, <4>1, <5>1
      <4>3. kept' = {0} /\ rx_ptr' = 1 /\ rx_esc' = FALSE
        BY <2>6, <4>1, <4>2 DEF Store, Size
      <4>4. pos' = 3
        BY <2>2, <3>3
      <4> QED
        BY <4>3, <4>4 DEF InStep
    <3>4. CASE pos = 4 /\ ~hurt
      <4>1. rx_ptr = 1 /\ rx_esc = TRUE /\ kept = {0}
        BY <1>1, <3>4 DEF InStep
      <4>2. (pos \div 2) - 1 = 1 /\ (rx_esc = (Flags[pos - 1] = "ESC"))
        <5>1. (4 \div 2) - 1 = 1 /\ 4 - 1 = 3 /\ Flags[3] = "ESC"
          BY FlagsAt
        <5> QED
          BY <3>4, <4>1, <5>1
      <4>3. kept' = {0, 1}
        BY <2>6, <4>1, <4>2 DEF Store
      <4>4. pos' = 5
        BY <2>2, <3>4
      <4> QED
        BY <4>3, <4>4 DEF InStep
    <3>5. CASE hurt
      BY <3>2, <3>5 DEF InStep
    <3> QED
      BY <3>1, <3>3, <3>4, <3>5
  <2> QED
    BY <2>3, <2>4, <2>5, <2>6
<1>4. ASSUME ~overrun'
      PROVE  /\ NotInVain' /\ InLine'
             /\ slot' \notin {<<>>, <<None>>} => Head(slot') = After(out')
  <2>1. ~overrun /\ NotInVain /\ InLine /\ (slot \notin {<<>>, <<None>>} => Head(slot) = After(out))
    BY <1>1, <1>4 DEF FInv, slots
  <2>2. NotInVain'
    BY <1>1, <2>1 DEF NotInVain, slots, driver
  <2>3. PICK g \in [0..HwSlots-1 -> 0..HwSlots] : Labels(g)
    BY <2>1 DEF InLine
  <2>4. Base' = Base
    BY <1>1 DEF Base, driver
  <2>5. \A p \in 0..HwSlots-1 : Waits(p)' <=> Waits(p)
    BY <1>1 DEF Waits, slots, driver
  <2>6. Sends(g[rx_head])'
    <3>1. PICK x : x = g[rx_head]
      OBVIOUS
    <3>2. Sends(x)
      BY <2>3, <3>1 DEF Labels
    <3>3. g[rx_head]' = x
      BY <1>1, <3>1 DEF slots
    <3>4. IF pos' = 1 /\ ~hurt' THEN After(frame') = After(x) ELSE frame' = After(x)
      BY <1>1, <1>2, <3>2, SendsOn
    <3> QED
      BY <3>3, <3>4 DEF Sends
  <2>7. Labels(g)'
    BY <1>1, <2>3, <2>4, <2>5, <2>6 DEF Labels, slots, driver
  <2>8. InLine'
    BY <2>7 DEF InLine
  <2> QED
    BY <1>1, <2>1, <2>2, <2>8 DEF driver
<1> QED
  BY <1>3, <1>4 DEF FInv

\* The end of a frame labels the place behind it.
LEMMA EndInLine == IInv /\ FInv /\ End => FInv'
<1> SUFFICES ASSUME IInv, FInv, End PROVE FInv'
  OBVIOUS
<1>1. /\ UNCHANGED driver /\ TypeOK /\ InStep /\ pos = 5 /\ Send(FALSE)
      /\ rx_head' = (rx_head + 1) % HwSlots
      /\ overrun' = (overrun \/ Unread = HwSlots - 1)
  <2>1. Flags[pos] = "EOF" /\ pos \in 1..5
    BY FlagsAt DEF End, EndWith, Get, IInv, TypeOK
  <2>2. pos = 5
    BY <2>1, FlagsAt
  <2> QED
    BY <2>2 DEF End, EndWith, Get, IInv, FInv
<1>2. pos' = 1 /\ frame' = frame /\ (hurt' <=> hurt)
  <2>1. Len(Flags) = 5 /\ (5 % 5) + 1 = 1
    BY DEF Flags
  <2>2. pos' = (pos % Len(Flags)) + 1
    BY <1>1 DEF Send
  <2>3. frame' = frame
    BY <1>1 DEF Send
  <2>4. hurt' <=> hurt
    <3>1. hurt' = (FALSE \/ (hurt /\ pos # 1))
      BY <1>1 DEF Send
    <3>2. pos # 1
      BY <1>1
    <3> QED
      BY <3>1, <3>2
  <2> QED
    BY <1>1, <2>1, <2>2, <2>3, <2>4
<1>3. InStep'
  BY <1>2 DEF InStep
<1>4. ASSUME ~overrun'
      PROVE  /\ NotInVain' /\ InLine'
             /\ slot' \notin {<<>>, <<None>>} => Head(slot') = After(out')
  <2>1. /\ ~overrun /\ NotInVain /\ InLine /\ (slot \notin {<<>>, <<None>>} => Head(slot) = After(out))
        /\ Unread # HwSlots - 1
    BY <1>1, <1>4 DEF FInv
  <2>2. PICK h \in 0..HwSlots-1 : h = rx_head
    BY <1>1 DEF TypeOK
  <2>3. PICK t \in 0..HwSlots-1 : t = rx_tail
    BY <1>1 DEF TypeOK
  <2>4. /\ NextRx(h) # t /\ rx_head' = NextRx(h) /\ rx_tail' = t /\ NextRx(h) # h
        /\ NextRx(h) \in 0..HwSlots-1
    <3>1. NextRx(h) # t
      BY <2>1, <2>2, <2>3, FullRing DEF Unread
    <3> QED
      BY <1>1, <2>2, <2>3, <3>1, NextPlace DEF driver
  <2>5. NotInVain'
    BY <1>1, <2>1, <2>4 DEF NotInVain, driver
  <2>6. PICK g \in [0..HwSlots-1 -> 0..HwSlots] : Labels(g)
    BY <2>1 DEF InLine
  <2>7. g[h] \in 0..HwSlots /\ g[h] \in Nat /\ frame = After(g[h])
    <3>1. Sends(g[h])
      BY <2>2, <2>6 DEF Labels
    <3> QED
      BY <1>1, <2>6, <3>1, HwAssumption DEF Sends
  <2>8. PICK f \in {None} \cup Frames :
          /\ rx_buf' = [rx_buf EXCEPT ![h] = f]
          /\ f = IF hurt THEN None ELSE frame
    <3>1. CASE hurt
      BY <2>2, <3>1 DEF End, EndWith
    <3>2. CASE ~hurt
      <4>1. kept = {0, 1}
        BY <1>1, <3>2 DEF InStep
      <4>2. frame \in Frames
        BY <1>1 DEF TypeOK
      <4> QED
        BY <2>2, <3>2, <4>1, <4>2 DEF End, EndWith
    <3> QED
      BY <3>1, <3>2
  <2>9. PICK x \in 0..HwSlots : x = IF hurt THEN g[h] ELSE After(g[h])
    BY <2>7, AfterTyped
  <2> DEFINE G == [g EXCEPT ![NextRx(h)] = x]
  <2>10. /\ G \in [0..HwSlots-1 -> 0..HwSlots] /\ G[NextRx(h)] = x
         /\ \A p \in 0..HwSlots-1 : p # NextRx(h) => G[p] = g[p]
    BY <2>4, <2>6, <2>9
  <2> HIDE DEF G
  <2>11. G[rx_tail]' = Base'
    <3>1. Base' = Base
      BY <1>1 DEF Base, driver
    <3>2. G[t] = g[t]
      BY <2>4, <2>10
    <3> QED
      BY <2>3, <2>4, <2>6, <3>1, <3>2 DEF Labels
  <2>12. Sends(G[rx_head])'
    <3>1. Sends(x)'
      <4>1. CASE hurt
        BY <1>2, <2>7, <2>9, <4>1 DEF Sends
      <4>2. CASE ~hurt
        <5>1. frame' = x
          BY <1>2, <2>7, <2>9, <4>2
        <5>2. After(frame') = After(x)
          BY <5>1
        <5> QED
          BY <1>2, <4>2, <5>2 DEF Sends
      <4> QED
        BY <4>1, <4>2
    <3>2. G[rx_head]' = x
      BY <2>4, <2>10
    <3> QED
      BY <3>1, <3>2
  <2>13. ASSUME NEW p \in 0..HwSlots-1, Waits(p)'
         PROVE  IF rx_buf'[p] = None THEN G[NextRx(p)] = G[p]
                ELSE rx_buf'[p] = After(G[p]) /\ G[NextRx(p)] = rx_buf'[p]
    <3>1. Between(t, NextRx(h), p)
      BY <2>3, <2>4, <2>13 DEF Waits
    <3>2. Between(t, h, p) \/ p = h
      BY <2>4, <3>1, Adds
    <3>3. CASE p = h
      <4>1. rx_buf'[p] = f /\ G[p] = g[h] /\ G[NextRx(p)] = x
        BY <1>1, <2>4, <2>8, <2>10, <3>3 DEF TypeOK
      <4>2. CASE hurt
        BY <2>8, <2>9, <4>1, <4>2
      <4>3. CASE ~hurt
        <5>1. f = After(g[h]) /\ x = After(g[h]) /\ f # None
          <6>1. frame # None
            BY <1>1 DEF TypeOK, Frames, None
          <6> QED
            BY <2>7, <2>8, <2>9, <4>3, <6>1
        <5> QED
          BY <4>1, <5>1
      <4> QED
        BY <4>2, <4>3
    <3>4. CASE p # h
      <4>1. Between(t, h, p) /\ p # NextRx(h) /\ NextRx(p) # NextRx(h) /\ NextRx(p) \in 0..HwSlots-1
        BY <2>4, <3>2, <3>4, Adds, NextPlace
      <4>2. rx_buf'[p] = rx_buf[p] /\ G[p] = g[p] /\ G[NextRx(p)] = g[NextRx(p)]
        BY <1>1, <2>8, <2>10, <3>4, <4>1 DEF TypeOK
      <4>3. Waits(p)
        BY <2>2, <2>3, <4>1 DEF Waits
      <4> QED
        BY <2>6, <4>2, <4>3 DEF Labels
    <3> QED
      BY <3>3, <3>4
  <2>14. Labels(G)'
    BY <2>11, <2>12, <2>13 DEF Labels
  <2>15. InLine'
    BY <2>10, <2>14 DEF InLine
  <2> QED
    BY <1>1, <2>1, <2>5, <2>15 DEF driver
<1> QED
  BY <1>3, <1>4 DEF FInv

\* What the handler takes is the frame after the last one queued.
LEMMA TakeInLine == IInv /\ FInv /\ IsrTake => FInv'
<1> SUFFICES ASSUME IInv, FInv, IsrTake PROVE FInv'
  OBVIOUS
<1>1. /\ UNCHANGED <<host, parser, rx_head, rx_int, raced, overrun, sta, out>>
      /\ TypeOK /\ isr = "idle" /\ rx_int /\ isr' = "sample" /\ InStep
  BY DEF IsrTake, IInv, FInv
<1>2. InStep'
  BY <1>1 DEF InStep, host, parser
<1>3. ASSUME ~overrun'
      PROVE  /\ NotInVain' /\ InLine'
             /\ slot' \notin {<<>>, <<None>>} => Head(slot') = After(out')
  <2>1. ~overrun /\ slot = <<>> /\ rx_head # rx_tail /\ InLine
    BY <1>1, <1>3 DEF FInv, NotInVain
  <2>2. NotInVain'
    BY <1>1 DEF NotInVain
  <2>3. PICK g \in [0..HwSlots-1 -> 0..HwSlots] : Labels(g)
    BY <2>1 DEF InLine
  <2>4. CASE free = 0
    <3>1. UNCHANGED <<slot, rx_buf, rx_tail>>
      BY <2>4 DEF IsrTake
    <3>2. Base' = Base
      BY <1>1, <3>1 DEF Base
    <3>3. \A p \in 0..HwSlots-1 : Waits(p)' <=> Waits(p)
      BY <1>1, <3>1 DEF Waits
    <3>4. Sends(g[rx_head])'
      BY <1>1, <2>3 DEF Labels, Sends, host
    <3>5. Labels(g)'
      BY <1>1, <2>3, <3>1, <3>2, <3>3, <3>4 DEF Labels
    <3>6. InLine'
      BY <3>5 DEF InLine
    <3> QED
      BY <2>1, <2>2, <3>1, <3>6
  <2>5. CASE free # 0
    <3>1. PICK t \in 0..HwSlots-1 : t = rx_tail
      BY <1>1 DEF TypeOK
    <3>2. PICK h \in 0..HwSlots-1 : h = rx_head
      BY <1>1 DEF TypeOK
    <3>3. PICK f : f = rx_buf[t]
      OBVIOUS
    <3>4. /\ slot' = <<f>> /\ rx_buf' = [rx_buf EXCEPT ![t] = None] /\ rx_tail' = NextRx(t)
          /\ rx_head' = h /\ t # h /\ NextRx(t) \in 0..HwSlots-1
      BY <1>1, <2>1, <2>5, <3>1, <3>2, <3>3, NextPlace DEF IsrTake
    <3>5. Waits(t)
      BY <3>1, <3>2, <3>4, Takes DEF Waits
    <3>6. g[t] = out /\ IF f = None THEN g[NextRx(t)] = out ELSE f = After(out) /\ g[NextRx(t)] = f
      <4>1. Base = out
        BY <2>1 DEF Base
      <4> QED
        BY <2>3, <3>1, <3>3, <3>5, <4>1 DEF Labels
    <3>7. g[rx_tail]' = Base'
      <4>1. Head(slot') = f /\ slot' # <<>> /\ (slot' = <<None>> <=> f = None)
        BY <3>4
      <4> QED
        BY <1>1, <3>4, <3>6, <4>1 DEF Base
    <3>8. Sends(g[rx_head])'
      BY <1>1, <2>3 DEF Labels, Sends, host
    <3>9. ASSUME NEW p \in 0..HwSlots-1, Waits(p)'
          PROVE  IF rx_buf'[p] = None THEN g[NextRx(p)] = g[p]
                 ELSE rx_buf'[p] = After(g[p]) /\ g[NextRx(p)] = rx_buf'[p]
      <4>1. Between(NextRx(t), h, p)
        BY <3>4, <3>9 DEF Waits
      <4>2. Between(t, h, p) /\ p # t
        BY <3>4, <4>1, Takes
      <4>3. rx_buf'[p] = rx_buf[p]
        BY <1>1, <3>4, <4>2 DEF TypeOK
      <4>4. Waits(p)
        BY <3>1, <3>2, <4>2 DEF Waits
      <4> QED
        BY <2>3, <4>3, <4>4 DEF Labels
    <3>10. Labels(g)'
      BY <3>7, <3>8, <3>9 DEF Labels
    <3>11. InLine'
      BY <3>10 DEF InLine
    <3>12. slot' \notin {<<>>, <<None>>} => Head(slot') = After(out')
      BY <1>1, <3>4, <3>6
    <3> QED
      BY <2>2, <3>11, <3>12
  <2> QED
    BY <2>4, <2>5
<1> QED
  BY <1>2, <1>3 DEF FInv

\* The rest of the handler: it looks at the status, and queues what it took.
LEMMA AckInLine == IInv /\ FInv /\ (IsrSample \/ IsrAck \/ CmFree) => FInv'
<1> SUFFICES ASSUME IInv, FInv, IsrSample \/ IsrAck \/ CmFree PROVE FInv'
  OBVIOUS
<1>1. /\ UNCHANGED <<host, parser, rx_head, rx_buf, raced, overrun, rx_tail>>
      /\ TypeOK /\ InStep
  BY DEF IsrSample, IsrAck, IsrAckIf, CmFree, IInv, FInv, slots
<1>2. InStep'
  BY <1>1 DEF InStep, host, parser
<1>3. ASSUME ~overrun'
      PROVE  /\ NotInVain' /\ InLine'
             /\ slot' \notin {<<>>, <<None>>} => Head(slot') = After(out')
  <2>1. ~overrun /\ NotInVain /\ InLine /\ (slot \notin {<<>>, <<None>>} => Head(slot) = After(out))
    BY <1>1, <1>3 DEF FInv
  <2>2. PICK g \in [0..HwSlots-1 -> 0..HwSlots] : Labels(g)
    BY <2>1 DEF InLine
  <2>3. ASSUME Base' = Base PROVE InLine'
    <3>1. \A p \in 0..HwSlots-1 : Waits(p)' <=> Waits(p)
      BY <1>1 DEF Waits
    <3>2. Sends(g[rx_head])'
      BY <1>1, <2>2 DEF Labels, Sends, host
    <3>3. Labels(g)'
      BY <1>1, <2>2, <2>3, <3>1, <3>2 DEF Labels
    <3> QED
      BY <3>3 DEF InLine
  <2>4. CASE IsrSample \/ CmFree
    <3>1. UNCHANGED <<slot, out>>
      BY <2>4 DEF IsrSample, CmFree
    <3>2. Base' = Base
      BY <3>1 DEF Base
    <3>3. NotInVain'
      BY <1>1, <2>1, <2>4 DEF NotInVain, IsrSample, CmFree, slots
    <3> QED
      BY <2>1, <2>3, <3>1, <3>2, <3>3
  <2>5. CASE IsrAck
    <3>1. /\ slot' = <<>> /\ isr = "ack" /\ isr' = "idle"
          /\ rx_int' = (rx_int /\ ~(sta = rx_tail))
          /\ out' = Base
      BY <2>5 DEF IsrAck, IsrAckIf, Base
    <3>2. Base' = Base
      BY <3>1 DEF Base
    <3>3. NotInVain'
      BY <1>1, <2>1, <3>1 DEF NotInVain
    <3> QED
      BY <2>3, <3>1, <3>2, <3>3
  <2> QED
    BY <2>4, <2>5
<1> QED
  BY <1>2, <1>3 DEF FInv

\* Every step keeps the frames in line.
LEMMA StepInLine == IInv /\ FInv /\ [Next]_vars => FInv'
<1> SUFFICES ASSUME IInv, FInv, [Next]_vars PROVE FInv'
  OBVIOUS
<1>1. CASE UNCHANGED vars
  <2>1. UNCHANGED <<pos, frame, hurt, kept, rx_ptr, rx_esc, rx_head, rx_buf, rx_int, overrun,
                    rx_tail, slot, sta, isr, out>>
    BY <1>1 DEF vars, host, parser, slots, driver
  <2>2. InStep' /\ (NotInVain => NotInVain') /\ Base' = Base
    BY <2>1 DEF FInv, InStep, NotInVain, Base
  <2>3. ASSUME NEW g, Labels(g) PROVE Labels(g)'
    BY <2>1, <2>2, <2>3 DEF Labels, Waits, Sends
  <2>4. InLine => InLine'
    BY <2>3 DEF InLine
  <2> QED
    BY <2>1, <2>2, <2>4 DEF FInv
<1> QED
  BY <1>1, InsideInLine, EndInLine, TakeInLine, AckInLine DEF Next, Byte, Isr

\* The frames are in line in every state.
LEMMA SpecFInv == Spec => []FInv
BY InitIInv, InitFInv, StepKeeps, StepInLine, PTL DEF Spec

-----------------------------------------------------------------------------
\* A frame that loses no byte is stored whole, whatever the frames before it have
\* lost: a start flag sets the parser right.
THEOREM StoredWhole ==
  Spec => [][~hurt /\ End => rx_buf' = [rx_buf EXCEPT ![rx_head] = frame]]_vars
<1>1. IInv /\ FInv => (~hurt /\ End => rx_buf' = [rx_buf EXCEPT ![rx_head] = frame])
  <2> SUFFICES ASSUME IInv, FInv, ~hurt, End
               PROVE  rx_buf' = [rx_buf EXCEPT ![rx_head] = frame]
    OBVIOUS
  <2>1. pos = 5
    <3>1. Flags[pos] = "EOF" /\ pos \in 1..5
      BY FlagsAt DEF End, EndWith, Get, IInv, TypeOK
    <3> QED
      BY <3>1, FlagsAt
  <2>2. kept = {0, 1}
    BY <2>1 DEF FInv, InStep
  <2> QED
    BY <2>2 DEF End, EndWith
<1> QED
  BY <1>1, SpecIInv, SpecFInv, PTL

\* The frames that lose no byte reach cm_thread's queue once each and in the order
\* they came, none left out, and nothing else does, as long as no frame has ended
\* while HwSlots - 1 others were unread (the fourth, of the code's four slots,
\* makes rx_head equal rx_tail): what InOrder says of the queue's end.
THEOREM QueuedInOrder == Spec => [][out' # out => overrun' \/ out' = After(out)]_vars
<1>1. IInv /\ FInv /\ [Next]_vars => [out' # out => overrun' \/ out' = After(out)]_vars
  <2> SUFFICES ASSUME FInv, [Next]_vars, out' # out, ~overrun'
               PROVE  out' = After(out)
    OBVIOUS
  <2>1. IsrAck
    BY DEF Next, Byte, Isr, Start, StartWith, Escape, Store, End, EndWith, Lose, IsrTake, IsrSample,
           CmFree, vars, driver
  <2>2. ~overrun
    BY <2>1 DEF IsrAck, IsrAckIf
  <2>3. slot \notin {<<>>, <<None>>} /\ out' = Head(slot)
    BY <2>1 DEF IsrAck, IsrAckIf
  <2> QED
    BY <2>2, <2>3 DEF FInv
<1> QED
  BY <1>1, SpecIInv, SpecFInv, PTL DEF Spec

\* Until such a frame none is left out on the way either: from the frame queued last,
\* over the handler's CM slot and the hardware's slots, to the one that the host
\* sends next, each that has lost no byte follows the one before, and the
\* slots between hold nothing.
THEOREM NoneLeftOut == Spec => [](~overrun => InLine)
<1>1. FInv => (~overrun => InLine)
  BY DEF FInv
<1> QED
  BY <1>1, SpecFInv, PTL
=============================================================================
