---------------------------- MODULE OptoTxProofs ----------------------------
(***************************************************************************)
(* Proofs about OptoTx, for every size of the queues and whether or not a  *)
(* frame may end between opto_cmio and opto_tx.                            *)
(***************************************************************************)
EXTENDS OptoTx, FiniteSetTheorems, FunctionTheorems, SequenceTheorems, TLAPS

\* Between opto_msgtx's two reads "arg" is an index, after them a pointer.
ArgTyped ==
  /\ bg = "load" => arg \in 0..Que-1
  /\ bg = "tx"   => arg \in Msgs \cup {NULL}

\* The hardware's tail is the driver's head, or the slot before it.
HwEmptyOrOne == tx_head = tx_tail \/ tx_head = (tx_tail + 1) % HwSlots

IInv == TypeOK /\ ArgTyped /\ HwEmptyOrOne

-----------------------------------------------------------------------------
\* The two ways the code advances an index modulo the hardware's slots agree
\* and stay in range (opto_tx's two increments).
LEMMA HwNext ==
  ASSUME NEW i \in 0..HwSlots-1
  PROVE  /\ (i + 1) % HwSlots \in 0..HwSlots-1
         /\ (i + 1) % HwSlots = IF i + 1 = HwSlots THEN 0 ELSE i + 1
         /\ (i + 1) % HwSlots # i
<1>1. CASE i + 1 = HwSlots
  BY <1>1, HwAssumption
<1>2. CASE i + 1 < HwSlots
  BY <1>2, HwAssumption
<1> QED
  BY <1>1, <1>2, HwAssumption

\* The increment of a txq index stays in the queue.
LEMMA QueNext == ASSUME NEW i \in 0..Que-1 PROVE NextQue(i) \in 0..Que-1
  BY QueAssumption DEF NextQue

\* A number of the next message is the number of a message.
LEMMA NextMsg == ASSUME NEW m \in Msgs \cup {NULL} PROVE (m % (Window + 1)) + 1 \in Msgs
  BY WindowAssumption, QueAssumption DEF Msgs, NULL

\* opto_tx keeps the types and the hardware's slots, whichever pointer it is
\* called with.
LEMMA OptoTxKeeps ==
  ASSUME TypeOK, HwEmptyOrOne, NEW m \in Msgs \cup {NULL}, OptoTx(m)
  PROVE  /\ buf' \in [0..Que-1 -> Msgs \cup {NULL}] /\ tail' \in 0..Que-1
         /\ tx_head' \in 0..HwSlots-1 /\ tx_buf' \in [0..HwSlots-1 -> Msgs \cup {NULL}]
         /\ owed' \subseteq Msgs
         /\ tx_tail' = tx_tail => HwEmptyOrOne'
<1>1. NextQue(tail) \in 0..Que-1
  BY QueNext DEF TypeOK
<1>2. /\ (tx_tail + 1) % HwSlots \in 0..HwSlots-1
      /\ (tx_head + 1) % HwSlots = IF tx_head + 1 = HwSlots THEN 0 ELSE tx_head + 1
      /\ (tx_head + 1) % HwSlots \in 0..HwSlots-1
  BY HwNext DEF TypeOK
<1> QED
  BY <1>1, <1>2 DEF TypeOK, HwEmptyOrOne, OptoTx

-----------------------------------------------------------------------------
\* Every step of the background, the handler and the FPGA keeps the invariant.
LEMMA StepKeepsIInv == ASSUME IInv, [Next]_vars PROVE IInv'
<1> USE DEF IInv, ArgTyped
<1>1. CASE Cmio
  <2>1. (last % (Window + 1)) + 1 \in Msgs
    BY NextMsg DEF TypeOK
  <2>2. NextQue(head) \in 0..Que-1
    BY QueNext DEF TypeOK
  <2> QED
    BY <1>1, <2>1, <2>2 DEF Cmio, Background, TypeOK, HwEmptyOrOne, fpga
<1>2. CASE Check
  BY <1>2 DEF Check, Background, TypeOK, HwEmptyOrOne, txq, fpga
<1>3. CASE Load
  BY <1>3 DEF Load, Background, TypeOK, HwEmptyOrOne, txq, fpga
<1>4. CASE Transmit
  <2>1. arg \in Msgs \cup {NULL} /\ OptoTx(arg) /\ tx_tail' = tx_tail
    BY <1>4 DEF Transmit, Background, fpga
  <2> QED
    BY <1>4, <2>1, OptoTxKeeps DEF Transmit, Background, TypeOK, fpga
<1>5. CASE IsrAck
  BY <1>5 DEF IsrAck, TypeOK, HwEmptyOrOne, txq
<1>6. CASE IsrMsgtx
  <2>1. CASE head # tail
    <3>1. buf[tail] \in Msgs \cup {NULL} /\ OptoTx(buf[tail]) /\ tx_tail' = tx_tail
      BY <1>6, <2>1 DEF IsrMsgtx, TypeOK, fpga
    <3> QED
      BY <1>6, <3>1, OptoTxKeeps DEF IsrMsgtx, TypeOK, fpga
  <2>2. CASE head = tail
    BY <1>6, <2>2 DEF IsrMsgtx, TypeOK, HwEmptyOrOne, fpga
  <2> QED
    BY <2>1, <2>2
<1>7. CASE TxEnd
  <2>1. (tx_tail + 1) % HwSlots \in 0..HwSlots-1
    BY HwNext DEF TypeOK
  <2>2. tx_head' = tx_tail'
    BY <1>7 DEF TxEnd, HwEmptyOrOne
  <2> QED
    BY <1>7, <2>1, <2>2 DEF TxEnd, TypeOK, HwEmptyOrOne, txq
<1>8. CASE PipeEnd
  BY <1>8 DEF PipeEnd, TypeOK, HwEmptyOrOne, txq
<1>9. CASE UNCHANGED vars
  BY <1>9 DEF vars, TypeOK, HwEmptyOrOne
<1> QED
  BY <1>1, <1>2, <1>3, <1>4, <1>5, <1>6, <1>7, <1>8, <1>9 DEF Next, Msgtx, Isr

\* The initial state satisfies the invariant (opto_init).
LEMMA InitIInv == Init => IInv
<1> SUFFICES ASSUME Init PROVE IInv
  OBVIOUS
<1>1. 0 \in 0..Que-1 /\ 0 \in 0..HwSlots-1
  BY QueAssumption, HwAssumption
<1>2. TypeOK
  BY <1>1 DEF Init, TypeOK
<1>3. ArgTyped /\ HwEmptyOrOne
  BY DEF Init, ArgTyped, HwEmptyOrOne
<1> QED
  BY <1>2, <1>3 DEF IInv

\* The indices stay in their queues and the pointers are messages or NULL,
\* also when the handler comes between opto_msgtx's reads.
THEOREM TypeCorrect == Spec => []TypeOK
<1>1. IInv => TypeOK
  BY DEF IInv
<1> QED
  BY <1>1, InitIInv, StepKeepsIInv, PTL DEF Spec

\* opto_tx's test for a hardware slot never lets a second frame in while one
\* is going out, whoever calls it and when.
THEOREM OneFrame == Spec => []OneInFlight
<1>1. IInv => OneInFlight
  <2> SUFFICES ASSUME IInv PROVE OneInFlight
    OBVIOUS
  <2>1. CASE tx_head = tx_tail
    BY <2>1, HwAssumption DEF IInv, TypeOK, OneInFlight, InFlight
  <2>2. CASE tx_tail + 1 = HwSlots /\ tx_head = 0
    BY <2>2, HwAssumption DEF IInv, TypeOK, OneInFlight, InFlight
  <2>3. CASE tx_head = tx_tail + 1
    <3>1. tx_head + HwSlots - tx_tail = HwSlots + 1
      BY <2>3, HwAssumption DEF IInv, TypeOK
    <3>2. (HwSlots + 1) % HwSlots = 1
      BY HwAssumption
    <3> QED
      BY <3>1, <3>2 DEF OneInFlight, InFlight
  <2> QED
    BY <2>1, <2>2, <2>3, HwNext DEF IInv, TypeOK, HwEmptyOrOne
<1> QED
  BY <1>1, InitIInv, StepKeepsIInv, PTL DEF Spec

-----------------------------------------------------------------------------
(***************************************************************************)
(* What is in txq, when no frame ends between opto_cmio and opto_tx.       *)
(***************************************************************************)

\* The number of messages in txq, and how far an entry is from txq's head.
Count   == IF head >= tail THEN head - tail ELSE head + Que - tail
Dist(i) == IF i < head THEN head - i ELSE head + Que - i

\* The number of the message that came as the d-th last, m being the last one.
Nth(m, d) == IF m >= d THEN m - d + 1 ELSE m - d + 1 + (Window + 1)

\* The driver's and the hardware's entries hold the last messages that came, the
\* one on the wire among them, and the CM slots of those in txq are to be freed.
Line ==
  /\ Count + InFlight <= Window
  /\ \A i \in 0..Que-1 : buf[i] = IF Dist(i) <= Count THEN Nth(last, Dist(i)) ELSE NULL
  /\ owed = {Nth(last, d) : d \in 1..Count}
  /\ InFlight = 1 => tx_buf[tx_tail] = Nth(last, Count + 1)

\* The interrupt stays away from opto_msgtx's two reads: what they have read is
\* the head of the line.
Undisturbed ==
  /\ bg # "idle" => ~tx_int /\ isr = "idle"
  /\ bg \in {"load", "tx"} => head # tail
  /\ bg = "load" => arg = tail
  /\ bg = "tx" => arg = buf[tail]

QInv == Line /\ Undisturbed /\ WakeupPending

\* The remainder by an index' range, of what is not twice as large.
LEMMA ModTwice ==
  ASSUME NEW n \in Nat \ {0}, NEW a \in 0..2 * n - 1
  PROVE  a % n = IF a < n THEN a ELSE a - n
<1>1. CASE a < n
  BY <1>1
<1>2. CASE a >= n
  <2> DEFINE b == a - n
  <2>1. b \in 0..n - 1 /\ a = n + b
    BY <1>2
  <2> HIDE DEF b
  <2>2. (n + b) % n = b
    BY <2>1
  <2> QED
    BY <1>2, <2>1, <2>2 DEF b
<1> QED
  BY <1>1, <1>2

\* The hardware's slots in use, when there is at most one.
LEMMA SlotsInUse ==
  ASSUME NEW h \in 0..HwSlots-1, NEW t \in 0..HwSlots-1,
         h = t \/ h = (t + 1) % HwSlots
  PROVE  (h + HwSlots - t) % HwSlots = IF h = t THEN 0 ELSE 1
<1> DEFINE a == h + HwSlots - t
<1>1. HwSlots \in Nat \ {0} /\ a \in 0..2 * HwSlots - 1
  BY HwAssumption
<1>2. (t + 1) % HwSlots = IF t + 1 = HwSlots THEN 0 ELSE t + 1
  BY HwNext
<1> HIDE DEF a
<1>3. a % HwSlots = IF a < HwSlots THEN a ELSE a - HwSlots
  BY <1>1, ModTwice
<1>4. h = t \/ h = IF t + 1 = HwSlots THEN 0 ELSE t + 1
  BY <1>2
<1>5. a % HwSlots = IF h = t THEN 0 ELSE 1
  BY <1>3, <1>4, HwAssumption DEF a
<1> QED
  BY <1>5 DEF a

\* The lengths of txq and of the hardware's queue, without remainders.
LEMMA Lengths ==
  ASSUME IInv
  PROVE  /\ Queued = Count /\ Count \in 0..Que - 1
         /\ Count = 0 <=> head = tail
         /\ InFlight = IF tx_head = tx_tail THEN 0 ELSE 1
<1>1. Queued = Count
  <2> DEFINE a == head + Que - tail
  <2>1. Que \in Nat \ {0} /\ a \in 0..2 * Que - 1
    BY QueAssumption DEF IInv, TypeOK
  <2>2. Queued = a % Que
    BY DEF Queued
  <2> HIDE DEF a
  <2>3. a % Que = IF a < Que THEN a ELSE a - Que
    BY <2>1, ModTwice
  <2> QED
    BY <2>2, <2>3, QueAssumption DEF IInv, TypeOK, Count, a
<1>2. Count \in 0..Que - 1 /\ (Count = 0 <=> head = tail)
  BY QueAssumption DEF IInv, TypeOK, Count
<1>3. InFlight = IF tx_head = tx_tail THEN 0 ELSE 1
  BY SlotsInUse DEF IInv, TypeOK, HwEmptyOrOne, InFlight
<1> QED
  BY <1>1, <1>2, <1>3

\* The last messages have different numbers, and the next one a new one.
LEMMA Numbers ==
  ASSUME TypeOK
  PROVE  /\ \A d \in 1..Window + 1 : Nth(last, d) \in Msgs /\ Nth(last, d) # NULL
         /\ \A d, e \in 1..Window + 1 : Nth(last, d) = Nth(last, e) => d = e
<1>1. Window \in Nat /\ last \in 0..Window + 1
  BY WindowAssumption, QueAssumption DEF TypeOK, Msgs, NULL
<1>2. ASSUME NEW d \in 1..Window + 1
      PROVE  Nth(last, d) \in 1..Window + 1
  BY <1>1 DEF Nth
<1>3. ASSUME NEW d \in 1..Window + 1, NEW e \in 1..Window + 1, Nth(last, d) = Nth(last, e)
      PROVE  d = e
  BY <1>1, <1>3 DEF Nth
<1> QED
  BY <1>2, <1>3 DEF Msgs, NULL

\* The last of the line is the last that came.
LEMMA NthLast == \A m \in Msgs : Nth(m, 1) = m
  BY WindowAssumption, QueAssumption DEF Nth, Msgs

\* Each message in txq has its CM slot.
LEMMA OwedCount ==
  ASSUME IInv, Line
  PROVE  Cardinality(owed) = Count
<1>1. Count \in Nat /\ Count <= Window + 1 /\ InFlight \in Nat
  BY Lengths, WindowAssumption, QueAssumption DEF Line, IInv, TypeOK
<1> DEFINE f == [d \in 1..Count |-> Nth(last, d)]
<1>2. f \in Bijection(1..Count, owed)
  <2>1. \A d, e \in 1..Count : f[d] = f[e] => d = e
    BY <1>1, Numbers, WindowAssumption DEF IInv
  <2>2. f \in Injection(1..Count, owed)
    BY <2>1, Fun_IsInj DEF Line
  <2>3. f \in Surjection(1..Count, owed)
    BY <2>1, Fun_IsSurj DEF Line
  <2> QED
    BY <2>2, <2>3 DEF Bijection
<1> HIDE DEF f
<1> QED
  BY <1>1, <1>2, FS_CountingElements DEF ExistsBijection

\* What is accepted is the last of the line, and every number moves up.
LEMMA CmioKeepsLine ==
  ASSUME IInv, IInv', Line, Cmio
  PROVE  /\ Line'
         /\ Count' = Count + 1 /\ InFlight' = InFlight /\ Count + InFlight < Window
         /\ \A d \in 1..Window : Nth(last, d + 1)' = Nth(last, d)
<1> DEFINE m == (last % (Window + 1)) + 1
<1>1. /\ Que \in Nat /\ Window \in Nat /\ Window <= Que - 1
      /\ head \in 0..Que-1 /\ tail \in 0..Que-1 /\ last \in 0..Window + 1
      /\ Count \in 0..Que-1 /\ InFlight \in 0..1
  BY QueAssumption, WindowAssumption, Lengths DEF IInv, TypeOK, Msgs, NULL
<1>2. /\ buf' = [buf EXCEPT ![head] = m] /\ owed' = owed \cup {m} /\ last' = m
      /\ head' = (IF head + 1 = Que THEN 0 ELSE head + 1)
      /\ tail' = tail /\ tx_buf' = tx_buf /\ tx_tail' = tx_tail /\ tx_head' = tx_head
      /\ Cardinality(owed) + InFlight < Window
  BY DEF Cmio, NextQue, fpga
<1>3. m = IF last = Window + 1 THEN 1 ELSE last + 1
  <2> DEFINE n == Window + 1
  <2>1. n \in Nat \ {0} /\ last \in 0..2 * n - 1
    BY <1>1
  <2> HIDE DEF n
  <2>2. last % n = IF last < n THEN last ELSE last - n
    BY <2>1, ModTwice
  <2> QED
    BY <1>1, <2>2 DEF n
<1> HIDE DEF m
<1>4. Count + InFlight < Window
  BY <1>2, OwedCount
<1>5. Count' = Count + 1 /\ InFlight' = InFlight
  <2>1. Count' = Count + 1
    BY <1>1, <1>2, <1>4 DEF Count
  <2> QED
    BY <1>2, <2>1 DEF InFlight
<1>6. /\ \A i \in 0..Que-1 : Dist(i) \in 1..Que
      /\ \A i \in 0..Que-1 : Dist(i)' = IF i = head THEN 1 ELSE Dist(i) + 1
  BY <1>1, <1>2 DEF Dist
<1>7. /\ \A d \in 1..Window : Nth(last, d + 1)' = Nth(last, d)
      /\ Nth(last, 1)' = m
  BY <1>1, <1>2, <1>3 DEF Nth
<1>8. Line'
  <2>1. (Count + InFlight <= Window)'
    BY <1>1, <1>4, <1>5
  <2>2. ASSUME NEW i \in 0..Que-1
        PROVE  (buf[i] = IF Dist(i) <= Count THEN Nth(last, Dist(i)) ELSE NULL)'
    <3>1. PICK d \in 1..Que : d = Dist(i)
      BY <1>6
    <3>2. Dist(i)' = IF i = head THEN 1 ELSE d + 1
      BY <1>6, <3>1
    <3>3. buf'[i] = IF i = head THEN m ELSE IF d <= Count THEN Nth(last, d) ELSE NULL
      BY <1>2, <3>1 DEF Line, IInv, TypeOK
    <3>4. CASE i = head
      <4>1. (Nth(last, Dist(i)) = Nth(last, 1))'
        BY <3>2, <3>4 DEF Nth
      <4> QED
        BY <1>1, <1>5, <1>7, <3>2, <3>3, <3>4, <4>1
    <3>5. CASE i # head
      <4>1. Nth(last, Dist(i))' = Nth(last, d + 1)'
        BY <3>2, <3>5 DEF Nth
      <4>2. d <= Count => Nth(last, d + 1)' = Nth(last, d)
        BY <1>1, <1>4, <1>7, <3>1
      <4> QED
        BY <1>1, <1>5, <3>1, <3>2, <3>3, <3>5, <4>1, <4>2
    <3> QED
      BY <3>4, <3>5
  <2>3. owed' = {Nth(last, d)' : d \in 1..Count'}
    <3>1. owed' = {Nth(last, d) : d \in 1..Count} \cup {m}
      BY <1>2 DEF Line
    <3> QED
      BY <1>1, <1>4, <1>5, <1>7, <3>1
  <2>4. (InFlight = 1 => tx_buf[tx_tail] = Nth(last, Count + 1))'
    <3>1. PICK c \in 0..Que-1 : c = Count
      BY <1>1
    <3>2. c + 1 \in 1..Window /\ Nth(last, c + 2)' = Nth(last, c + 1)
      <4>1. c + 1 \in 1..Window /\ c + 2 = (c + 1) + 1
        BY <1>1, <1>4, <3>1
      <4> QED
        BY <1>7, <4>1
    <3>3. Nth(last, Count + 1)' = Nth(last, c + 2)'
      BY <1>1, <1>5, <3>1 DEF Nth
    <3> QED
      BY <1>2, <1>5, <3>1, <3>2, <3>3 DEF Line
  <2> QED
    BY <2>1, <2>2, <2>3, <2>4 DEF Line
<1> QED
  BY <1>4, <1>5, <1>7, <1>8

\* opto_tx takes the first of the line, and has it on the wire unless there is
\* one before it.
LEMMA OptoTxKeepsLine ==
  ASSUME IInv, IInv', Line, head # tail, OptoTx(buf[tail]),
         UNCHANGED <<head, tx_tail, last>>
  PROVE  /\ Line'
         /\ InFlight' = 1
         /\ Count' + InFlight' = Count + InFlight
<1>1. /\ Que \in Nat /\ Window \in Nat /\ Window <= Que - 1
      /\ head \in 0..Que-1 /\ tail \in 0..Que-1 /\ last \in 0..Window + 1
      /\ Count \in 1..Que-1 /\ InFlight \in 0..1 /\ Count + InFlight <= Window
  BY QueAssumption, WindowAssumption, Lengths DEF IInv, TypeOK, Msgs, NULL, Line
<1>2. Dist(tail) = Count /\ buf[tail] = Nth(last, Count) /\ buf[tail] # NULL
  <2>1. Dist(tail) = Count
    BY <1>1 DEF Dist, Count
  <2> QED
    BY <1>1, <2>1, Numbers DEF Line, IInv
<1>3. CASE tx_head = tx_tail
  <2>1. tx_head # (tx_tail + 1) % HwSlots
    BY <1>3, HwNext DEF IInv, TypeOK
  <2>2. /\ tx_buf' = [tx_buf EXCEPT ![tx_head] = buf[tail]]
        /\ buf' = [buf EXCEPT ![tail] = NULL]
        /\ tail' = (IF tail + 1 = Que THEN 0 ELSE tail + 1)
        /\ tx_head' = (IF tx_head + 1 = HwSlots THEN 0 ELSE tx_head + 1)
        /\ owed' = owed \ {buf[tail]}
    BY <1>2, <2>1 DEF OptoTx, NextQue
  <2>3. InFlight = 0 /\ InFlight' = 1 /\ Count' = Count - 1
    <3>1. tx_head' # tx_tail'
      BY <1>3, <2>2, HwAssumption DEF IInv, TypeOK
    <3>2. InFlight = 0 /\ InFlight' = 1
      BY <1>3, <3>1, SlotsInUse DEF IInv, TypeOK, HwEmptyOrOne, InFlight
    <3>3. Count' = Count - 1
      BY <1>1, <2>2 DEF Count
    <3> QED
      BY <3>2, <3>3
  <2>4. \A d : Nth(last, d)' = Nth(last, d)
    BY DEF Nth
  <2>5. PICK c \in 1..Que-1 : c = Count
    BY <1>1
  <2>6. ASSUME NEW i \in 0..Que-1
        PROVE  (buf[i] = IF Dist(i) <= Count THEN Nth(last, Dist(i)) ELSE NULL)'
    <3>1. Dist(i) \in 1..Que /\ Dist(i)' = Dist(i)
      BY <1>1 DEF Dist
    <3>2. PICK d \in 1..Que : d = Dist(i)
      BY <3>1
    <3>3. d = c <=> i = tail
      BY <1>1, <2>5, <3>2 DEF Dist, Count
    <3>4. buf'[i] = IF i = tail THEN NULL ELSE IF d <= c THEN Nth(last, d) ELSE NULL
      BY <2>2, <2>5, <3>2 DEF Line, IInv, TypeOK
    <3>5. buf'[i] = IF d <= c - 1 THEN Nth(last, d) ELSE NULL
      BY <1>1, <2>5, <3>2, <3>3, <3>4
    <3>6. Nth(last, Dist(i))' = Nth(last, d)
      BY <3>1, <3>2 DEF Nth
    <3> QED
      BY <2>3, <2>5, <3>1, <3>2, <3>5, <3>6
  <2>7. owed' = {Nth(last, d)' : d \in 1..Count'}
    <3>1. owed' = {Nth(last, d) : d \in 1..c} \ {Nth(last, c)}
      BY <1>2, <2>2, <2>5 DEF Line
    <3>2. \A d \in 1..c : Nth(last, d) = Nth(last, c) => d = c
      BY <1>1, <2>5, Numbers DEF IInv
    <3>3. owed' = {Nth(last, d) : d \in 1..c-1}
      BY <1>1, <2>5, <3>1, <3>2
    <3> QED
      BY <2>3, <2>4, <2>5, <3>3
  <2>8. (InFlight = 1 => tx_buf[tx_tail] = Nth(last, Count + 1))'
    <3>1. tx_buf'[tx_tail'] = Nth(last, c)
      BY <1>2, <1>3, <2>2, <2>5 DEF IInv, TypeOK
    <3>2. Nth(last, Count + 1)' = Nth(last, c)
      BY <1>1, <2>3, <2>5 DEF Nth
    <3> QED
      BY <3>1, <3>2
  <2> QED
    BY <1>1, <2>3, <2>6, <2>7, <2>8 DEF Line
<1>4. CASE tx_head # tx_tail
  <2>1. tx_head = (tx_tail + 1) % HwSlots
    BY <1>4 DEF IInv, HwEmptyOrOne
  <2>2. UNCHANGED <<buf, tail, tx_head, tx_buf, owed>>
    BY <1>2, <2>1 DEF OptoTx
  <2>3. Line' /\ InFlight' = InFlight /\ Count' = Count
    BY <2>2 DEF Line, InFlight, Count, Nth, Dist
  <2> QED
    BY <1>1, <1>4, <2>3, Lengths
<1> QED
  BY <1>3, <1>4

\* Every step keeps the line, and whoever leaves a message in txq wakes opto_tx.
LEMMA StepKeepsQInv == IInv /\ IInv' /\ QInv /\ ~Overlap /\ [Next]_vars => QInv'
<1> SUFFICES ASSUME IInv, IInv', QInv, ~Overlap, [Next]_vars PROVE QInv'
  OBVIOUS
<1> USE DEF QInv
<1>0. /\ Queued = Count /\ Count \in 0..Que - 1
      /\ Count = 0 <=> head = tail
      /\ InFlight = IF tx_head = tx_tail THEN 0 ELSE 1
  BY Lengths
<1>1. CASE Cmio
  <2>1. Line'
    BY <1>1, CmioKeepsLine
  <2>2. bg' = "check" /\ ~tx_int' /\ isr' = "idle"
    BY <1>1 DEF Cmio, Background, fpga
  <2> QED
    BY <2>1, <2>2 DEF Undisturbed, WakeupPending
<1>2. CASE Check \/ Load
  <2>1. UNCHANGED <<buf, head, tail, tx_head, tx_tail, tx_buf, tx_int, owed, isr, last>>
    BY <1>2 DEF Check, Load, txq, fpga
  <2>2. Line'
    BY <2>1 DEF Line, Count, InFlight, Dist, Nth
  <2>3. Undisturbed'
    BY <1>2, <2>1 DEF Undisturbed, Check, Load, Background
  <2>4. WakeupPending'
    <3>1. bg' = "idle" => head = tail
      BY <1>2 DEF Check, Load, Background
    <3> QED
      BY <1>0, <2>1, <3>1 DEF WakeupPending, Queued, InFlight
  <2> QED
    BY <2>2, <2>3, <2>4
<1>3. CASE Transmit \/ (IsrMsgtx /\ head # tail)
  <2>1. /\ head # tail /\ OptoTx(buf[tail])
        /\ UNCHANGED <<head, tx_tail, last>>
        /\ bg' = "idle"
    BY <1>3 DEF Transmit, IsrMsgtx, Background, Undisturbed, fpga
  <2>2. Line' /\ InFlight' = 1
    BY <2>1, OptoTxKeepsLine
  <2> QED
    BY <2>1, <2>2 DEF Undisturbed, WakeupPending
<1>4. CASE IsrAck
  <2>1. UNCHANGED <<buf, head, tail, tx_head, tx_tail, tx_buf, owed, last, bg, arg>> /\ isr' = "msgtx"
        /\ bg = "idle"
    BY <1>4 DEF IsrAck, txq, Undisturbed
  <2>2. Line'
    BY <2>1 DEF Line, Count, InFlight, Dist, Nth
  <2> QED
    BY <2>1, <2>2 DEF Undisturbed, WakeupPending
<1>5. CASE IsrMsgtx /\ head = tail
  <2>1. UNCHANGED <<buf, head, tail, tx_head, tx_tail, tx_buf, owed, last, bg>>
        /\ bg = "idle"
    BY <1>5 DEF IsrMsgtx, fpga, Undisturbed
  <2>2. Line'
    BY <2>1 DEF Line, Count, InFlight, Dist, Nth
  <2>3. Queued' = 0
    BY <1>0, <1>5, <2>1 DEF Queued
  <2> QED
    BY <2>1, <2>2, <2>3 DEF Undisturbed, WakeupPending
<1>6. CASE TxEnd
  <2>1. /\ UNCHANGED <<buf, head, tail, tx_head, tx_buf, owed, last, bg>>
        /\ tx_int' /\ bg = "idle" /\ tx_head # tx_tail
        /\ tx_tail' = (tx_tail + 1) % HwSlots
    BY <1>6 DEF TxEnd, MayEnd, txq, IInv, TypeOK
  <2>2. tx_head' = tx_tail'
    BY <2>1 DEF IInv, HwEmptyOrOne
  <2>3. InFlight' = 0 /\ InFlight = 1
    BY <1>0, <2>1, <2>2, SlotsInUse DEF IInv, TypeOK, InFlight
  <2>4. Line'
    <3>1. Count' = Count /\ \A d : Nth(last, d)' = Nth(last, d)
      BY <2>1 DEF Count, Nth
    <3>2. \A i : /\ Dist(i)' = Dist(i)
                 /\ Nth(last, Dist(i))' = Nth(last, Dist(i))
      BY <2>1 DEF Dist, Nth
    <3>3. (Count + InFlight <= Window)'
      BY <1>0, <2>3, <3>1, WindowAssumption, QueAssumption DEF Line
    <3> QED
      BY <2>1, <2>3, <3>1, <3>2, <3>3 DEF Line
  <2> QED
    BY <2>1, <2>4 DEF Undisturbed, WakeupPending
<1>7. CASE PipeEnd
  <2>1. /\ UNCHANGED <<buf, head, tail, tx_head, tx_tail, tx_buf, owed, last, bg>>
        /\ tx_int' /\ bg = "idle"
    BY <1>7 DEF PipeEnd, MayEnd, txq
  <2>2. Line'
    BY <2>1 DEF Line, Count, InFlight, Dist, Nth
  <2> QED
    BY <2>1, <2>2 DEF Undisturbed, WakeupPending
<1>8. CASE UNCHANGED vars
  <2>1. Line'
    BY <1>8 DEF vars, Line, Count, InFlight, Dist, Nth
  <2>2. Undisturbed' /\ WakeupPending'
    BY <1>8 DEF vars, Undisturbed, WakeupPending, Queued, InFlight
  <2> QED
    BY <2>1, <2>2
<1> QED
  BY <1>1, <1>2, <1>3, <1>4, <1>5, <1>6, <1>7, <1>8 DEF Next, Msgtx, Isr

\* The line as it is in every execution without a frame that ends there.
LEMMA SpecQInv == ~Overlap => (Spec => [](IInv /\ QInv))
<1>1. Init => QInv
  <2> SUFFICES ASSUME Init PROVE QInv
    OBVIOUS
  <2>1. IInv
    BY InitIInv
  <2>2. Count = 0 /\ InFlight = 0 /\ Queued = 0
    BY <2>1, Lengths DEF Init
  <2>3. \A i \in 0..Que-1 : ~(Dist(i) <= 0)
    BY QueAssumption DEF Init, Dist
  <2>4. Line
    BY <2>2, <2>3, WindowAssumption, QueAssumption DEF Init, Line
  <2> QED
    BY <2>2, <2>4 DEF QInv, Undisturbed, WakeupPending, Init
<1>2. CASE ~Overlap
  <2>1. IInv /\ IInv' /\ QInv /\ [Next]_vars => QInv'
    BY <1>2, StepKeepsQInv
  <2>2. IInv /\ [Next]_vars => IInv'
    BY StepKeepsIInv
  <2> QED
    BY <1>1, <2>1, <2>2, InitIInv, PTL DEF Spec
<1> QED
  BY <1>2

\* When no frame ends between opto_cmio and opto_tx, the slots that opto_tx has
\* still to free are exactly those in txq, each there once.
THEOREM FreedOnce == ~Overlap => (Spec => []OwesQueued)
<1>1. ASSUME IInv, QInv PROVE OwesQueued
  <2>1. /\ Que \in Nat /\ Que >= 2 /\ Window \in Nat /\ Window <= Que - 1
        /\ head \in 0..Que-1 /\ tail \in 0..Que-1
        /\ Queued = Count /\ Count \in 0..Que-1 /\ Count <= Window + 1
    <3>1. Queued = Count /\ Count \in 0..Que-1 /\ InFlight \in 0..1
      BY <1>1, Lengths
    <3>2. Count <= Window
      BY <1>1, <3>1, WindowAssumption DEF QInv, Line
    <3> QED
      BY <1>1, <3>1, <3>2, QueAssumption, WindowAssumption DEF IInv, TypeOK
  <2>2. ASSUME NEW k \in 0..Count-1
        PROVE  /\ (tail + k) % Que \in 0..Que-1
               /\ buf[(tail + k) % Que] = Nth(last, Count - k)
    <3> DEFINE a == tail + k
    <3>1. a \in 0..2 * Que - 1 /\ Que \in Nat \ {0}
      BY <2>1
    <3> HIDE DEF a
    <3>2. a % Que = IF a < Que THEN a ELSE a - Que
      BY <3>1, ModTwice
    <3>3. a % Que \in 0..Que-1 /\ Dist(a % Que) = Count - k
      BY <2>1, <3>2 DEF a, Dist, Count
    <3> QED
      BY <1>1, <2>1, <3>3 DEF a, QInv, Line
  <2>3. owed = {buf[(tail + i) % Que] : i \in 0..Queued-1}
    <3>1. ASSUME NEW m \in owed PROVE \E i \in 0..Count-1 : m = buf[(tail + i) % Que]
      <4>1. PICK d \in 1..Count : m = Nth(last, d)
        BY <1>1, <3>1 DEF QInv, Line
      <4>2. Count - d \in 0..Count-1 /\ Count - (Count - d) = d
        BY <2>1
      <4> QED
        BY <2>2, <4>1, <4>2
    <3>2. ASSUME NEW i \in 0..Count-1 PROVE buf[(tail + i) % Que] \in owed
      <4>1. Count - i \in 1..Count
        BY <2>1
      <4> QED
        BY <1>1, <2>2, <4>1 DEF QInv, Line
    <3> QED
      BY <2>1, <3>1, <3>2
  <2>4. ASSUME NEW i \in 1..Queued, NEW j \in 1..Queued, i # j
        PROVE  TxqLine[i] # TxqLine[j]
    <3>1. /\ TxqLine[i] = buf[(tail + i - 1) % Que]
          /\ TxqLine[j] = buf[(tail + j - 1) % Que]
      BY DEF TxqLine
    <3>2. /\ i - 1 \in 0..Count-1 /\ tail + (i - 1) = tail + i - 1
          /\ j - 1 \in 0..Count-1 /\ tail + (j - 1) = tail + j - 1
      BY <2>1
    <3>3. TxqLine[i] = Nth(last, Count - (i - 1)) /\ TxqLine[j] = Nth(last, Count - (j - 1))
      BY <2>2, <3>1, <3>2
    <3>4. /\ Count - (i - 1) \in 1..Window + 1 /\ Count - (j - 1) \in 1..Window + 1
          /\ Count - (i - 1) # Count - (j - 1)
      BY <2>1, <2>4
    <3> QED
      BY <1>1, <3>3, <3>4, Numbers DEF IInv
  <2> QED
    BY <2>3, <2>4 DEF OwesQueued
<1>2. IInv /\ QInv => OwesQueued
  BY <1>1
<1>3. CASE ~Overlap
  BY <1>2, <1>3, SpecQInv, PTL
<1> QED
  BY <1>3

\* A message is never left in txq with the hardware idle and nobody on the way to
\* opto_tx.
THEOREM NeverAsleep == ~Overlap => (Spec => []WakeupPending)
<1>1. IInv /\ QInv => WakeupPending
  BY DEF QInv
<1>2. CASE ~Overlap
  BY <1>1, <1>2, SpecQInv, PTL
<1> QED
  BY <1>2

-----------------------------------------------------------------------------
(***************************************************************************)
(* txq and the hardware's slots are a first-in first-out link.             *)
(***************************************************************************)

\* What has been accepted and is not out, as ImplementsFifo sees it.
Waiting == HwLine \o TxqLine

\* The n last messages that came, l being the last one, the oldest first.
Newest(w, n, l) ==
  /\ w \in Seq(Msgs) /\ Len(w) = n
  /\ \A i \in 1..n : w[i] = Nth(l, n - i + 1)

WaitingNumbered == \E n \in Nat : n = Count + InFlight /\ Newest(Waiting, n, last)

\* The number of messages and the last one say what the line is.
LEMMA SameNewest ==
  ASSUME NEW n \in Nat, NEW l, NEW v, NEW w, Newest(v, n, l), Newest(w, n, l)
  PROVE  w = v
  BY SeqEqual DEF Newest

\* One more message is one at the end.
LEMMA NewestEnter ==
  ASSUME NEW n \in Nat, n < Window, NEW l, NEW m \in Msgs, NEW v, NEW w,
         Newest(v, n, l), Newest(w, n + 1, m),
         \A d \in 1..Window : Nth(m, d + 1) = Nth(l, d)
  PROVE  w = Append(v, m)
<1>1. /\ v \in Seq(Msgs) /\ Len(v) = n /\ w \in Seq(Msgs) /\ Len(w) = n + 1
      /\ Append(v, m) \in Seq(Msgs) /\ Len(Append(v, m)) = n + 1
      /\ \A i \in 1..n : Append(v, m)[i] = v[i]
      /\ Append(v, m)[n + 1] = m
  BY AppendProperties DEF Newest
<1>2. ASSUME NEW i \in 1..n PROVE w[i] = v[i]
  <2>1. w[i] = Nth(m, n + 1 - i + 1) /\ v[i] = Nth(l, n - i + 1)
    BY DEF Newest
  <2>2. n + 1 - i + 1 = (n - i + 1) + 1 /\ n - i + 1 \in 1..Window
    BY WindowAssumption, QueAssumption
  <2> QED
    BY <2>1, <2>2
<1>3. w[n + 1] = m
  <2>1. PICK k \in 1..n + 1 : k = n + 1
    OBVIOUS
  <2>2. w[k] = Nth(m, n + 1 - k + 1)
    BY DEF Newest
  <2>3. n + 1 - k + 1 = 1
    BY <2>1
  <2> QED
    BY <2>1, <2>2, <2>3, NthLast
<1>4. \A i \in 1..n + 1 : w[i] = Append(v, m)[i]
  BY <1>1, <1>2, <1>3
<1> QED
  BY <1>1, <1>4, SeqEqual

\* One message less is the first one taken.
LEMMA NewestLeave ==
  ASSUME NEW n \in Nat, n >= 1, NEW l, NEW v, NEW w, Newest(v, n, l), Newest(w, n - 1, l)
  PROVE  v # <<>> /\ Head(v) = Nth(l, n) /\ w = Tail(v)
<1>1. v \in Seq(Msgs) /\ Len(v) = n /\ w \in Seq(Msgs) /\ Len(w) = n - 1
  BY DEF Newest
<1>2. v # <<>>
  BY <1>1, EmptySeq
<1>3. /\ Tail(v) \in Seq(Msgs) /\ Len(Tail(v)) = n - 1
      /\ \A i \in 1..n - 1 : Tail(v)[i] = v[i + 1]
      /\ Head(v) = v[1]
  BY <1>1, <1>2, HeadTailProperties
<1>4. v[1] = Nth(l, n)
  <2>1. v[1] = Nth(l, n - 1 + 1) /\ n - 1 + 1 = n
    BY DEF Newest
  <2> QED
    BY <2>1
<1>5. ASSUME NEW i \in 1..n - 1 PROVE w[i] = Tail(v)[i]
  <2>1. /\ w[i] = Nth(l, n - 1 - i + 1)
        /\ i + 1 \in 1..n /\ n - 1 - i + 1 = n - (i + 1) + 1
    BY DEF Newest
  <2>2. v[i + 1] = Nth(l, n - (i + 1) + 1)
    BY <2>1 DEF Newest
  <2> QED
    BY <1>3, <2>1, <2>2
<1> QED
  BY <1>1, <1>2, <1>3, <1>4, <1>5, SeqEqual

\* The hardware's slot and the entries of txq, in this order, are those messages.
LEMMA WaitingIs == IInv /\ Line => WaitingNumbered
<1> SUFFICES ASSUME IInv, Line PROVE WaitingNumbered
  OBVIOUS
<1>1. /\ Que \in Nat /\ Que >= 2 /\ Window \in Nat /\ Window <= Que - 1
      /\ head \in 0..Que-1 /\ tail \in 0..Que-1
      /\ tx_tail \in 0..HwSlots-1 /\ HwSlots \in Nat /\ HwSlots >= 3
  BY QueAssumption, WindowAssumption, HwAssumption DEF IInv, TypeOK
<1>2. Queued = Count /\ Count \in 0..Que-1 /\ InFlight \in 0..1 /\ Count + InFlight <= Window
  BY Lengths DEF Line
<1>3. ASSUME NEW i \in 1..Count
      PROVE  buf[(tail + i - 1) % Que] = Nth(last, Count - i + 1)
  <2> DEFINE a == tail + i - 1
  <2>1. a \in 0..2 * Que - 1 /\ Que \in Nat \ {0}
    BY <1>1, <1>2
  <2> HIDE DEF a
  <2>2. a % Que = IF a < Que THEN a ELSE a - Que
    BY <2>1, ModTwice
  <2>3. a % Que \in 0..Que-1 /\ Dist(a % Que) = Count - i + 1
    BY <1>1, <1>2, <2>2 DEF a, Dist, Count
  <2> QED
    BY <1>2, <2>3 DEF a, Line
<1>4. /\ TxqLine \in Seq(Msgs) /\ Len(TxqLine) = Count
      /\ \A i \in 1..Count : TxqLine[i] = Nth(last, Count - i + 1)
  <2>1. \A i \in 1..Count : Count - i + 1 \in 1..Window + 1
    BY <1>1, <1>2
  <2>2. TxqLine = [i \in 1..Count |-> buf[(tail + i - 1) % Que]]
    BY <1>2 DEF TxqLine
  <2>3. \A i \in 1..Count : TxqLine[i] = Nth(last, Count - i + 1)
    BY <1>3, <2>2
  <2>4. TxqLine \in [1..Count -> Msgs]
    BY <2>1, <2>2, <2>3, Numbers DEF IInv
  <2> QED
    BY <1>2, <2>2, <2>3, <2>4
<1>5. /\ HwLine \in Seq(Msgs) /\ Len(HwLine) = InFlight
      /\ InFlight = 1 => HwLine[1] = Nth(last, Count + 1)
  <2>1. HwLine = [i \in 1..InFlight |-> tx_buf[(tx_tail + i - 1) % HwSlots]]
    BY DEF HwLine
  <2>2. (tx_tail + 1 - 1) % HwSlots = tx_tail
    BY <1>1
  <2>3. ASSUME NEW i \in 1..InFlight PROVE i = 1 /\ HwLine[i] = Nth(last, Count + 1)
    <3>1. i = 1 /\ InFlight = 1
      BY <1>2
    <3> QED
      BY <2>1, <2>2, <3>1 DEF Line
  <2>4. Count + 1 \in 1..Window + 1
    BY <1>1, <1>2
  <2>5. HwLine \in [1..InFlight -> Msgs]
    BY <2>1, <2>3, <2>4, Numbers DEF IInv
  <2> QED
    BY <1>2, <2>1, <2>3, <2>5
<1>6. PICK n \in Nat : n = Count + InFlight
  BY <1>2
<1>7. /\ Waiting \in Seq(Msgs) /\ Len(Waiting) = n
      /\ \A i \in 1..n :
           Waiting[i] = IF i <= InFlight THEN HwLine[i] ELSE TxqLine[i - InFlight]
  <2> HIDE DEF HwLine, TxqLine
  <2>1. /\ Waiting \in Seq(Msgs) /\ Len(Waiting) = InFlight + Count
        /\ \A i \in 1..InFlight + Count :
             Waiting[i] = IF i <= InFlight THEN HwLine[i] ELSE TxqLine[i - InFlight]
    BY <1>4, <1>5, ConcatProperties DEF Waiting
  <2> QED
    BY <1>2, <1>6, <2>1
<1>8. ASSUME NEW i \in 1..n PROVE Waiting[i] = Nth(last, n - i + 1)
  <2>1. CASE i <= InFlight
    <3>1. i = 1 /\ InFlight = 1 /\ n - i + 1 = Count + 1
      BY <1>2, <1>6, <2>1
    <3> QED
      BY <1>5, <1>7, <3>1
  <2>2. CASE i > InFlight
    <3>1. i - InFlight \in 1..Count /\ Count - (i - InFlight) + 1 = n - i + 1
      BY <1>2, <1>6, <2>2
    <3> QED
      BY <1>2, <1>4, <1>7, <2>2, <3>1
  <2> QED
    BY <1>2, <2>1, <2>2
<1>9. Newest(Waiting, n, last)
  BY <1>7, <1>8 DEF Newest
<1> QED
  BY <1>6, <1>9 DEF WaitingNumbered

\* What is accepted enters the line at its end, what is out was its first, and
\* opto_tx changes nothing in it.
LEMMA StepIsFifo ==
  IInv /\ IInv' /\ QInv /\ QInv' /\ WaitingNumbered /\ WaitingNumbered' /\ ~Overlap
    /\ [Next]_vars => [Link!Enter \/ Link!Leave]_<<Waiting, out>>
<1> SUFFICES ASSUME IInv, IInv', QInv, QInv', WaitingNumbered, WaitingNumbered', ~Overlap,
                    [Next]_vars
             PROVE  [Link!Enter \/ Link!Leave]_<<Waiting, out>>
  OBVIOUS
<1>0. /\ Count \in Nat /\ InFlight \in Nat /\ Count + InFlight \in Nat
      /\ InFlight = IF tx_head = tx_tail THEN 0 ELSE 1
  BY Lengths
<1>1. PICK n \in Nat : n = Count + InFlight /\ Newest(Waiting, n, last)
  BY DEF WaitingNumbered
<1>2. PICK k \in Nat : k = Count' + InFlight' /\ Newest(Waiting', k, last')
  BY DEF WaitingNumbered
<1>3. CASE Cmio
  <2>1. /\ Count' + InFlight' = Count + InFlight + 1
        /\ Count + InFlight < Window /\ out' = out
        /\ \A d \in 1..Window : Nth(last', d + 1) = Nth(last, d)
    BY <1>0, <1>3, CmioKeepsLine DEF QInv, Cmio, fpga
  <2>2. k = n + 1 /\ n < Window
    BY <1>0, <1>1, <1>2, <2>1
  <2>3. last' \in Msgs
    BY <1>3, NextMsg DEF Cmio, IInv, TypeOK
  <2>4. Waiting' = Append(Waiting, last')
    BY <1>1, <1>2, <2>2, <2>1, <2>3, NewestEnter
  <2> QED
    BY <2>1, <2>3, <2>4 DEF Link!Enter, Waiting
<1>4. ASSUME Count' + InFlight' = Count + InFlight, last' = last
      PROVE  Waiting' = Waiting
  <2>1. k = n
    BY <1>1, <1>2, <1>4
  <2> QED
    BY <1>1, <1>2, <1>4, <2>1, SameNewest
<1>5. CASE Transmit \/ (IsrMsgtx /\ head # tail)
  <2>1. /\ head # tail /\ OptoTx(buf[tail])
        /\ UNCHANGED <<head, tx_tail, last, out>>
    BY <1>5 DEF Transmit, IsrMsgtx, Background, QInv, Undisturbed, fpga
  <2>2. Count' + InFlight' = Count + InFlight
    BY <2>1, OptoTxKeepsLine DEF QInv
  <2> QED
    BY <1>4, <2>1, <2>2
<1>6. CASE \/ Check \/ Load \/ IsrAck \/ PipeEnd \/ UNCHANGED vars
           \/ IsrMsgtx /\ head = tail
  <2>1. UNCHANGED <<head, tail, tx_head, tx_tail, last, out>>
    BY <1>6 DEF Check, Load, IsrAck, PipeEnd, IsrMsgtx, vars, txq, fpga
  <2>2. Count' = Count /\ InFlight' = InFlight
    BY <2>1 DEF Count, InFlight
  <2> QED
    BY <1>4, <2>1, <2>2
<1>7. CASE TxEnd
  <2>1. /\ UNCHANGED <<head, tail, last, tx_head>> /\ tx_head # tx_tail
        /\ tx_tail' = (tx_tail + 1) % HwSlots /\ out' = tx_buf[tx_tail]
    BY <1>7 DEF TxEnd, txq
  <2>2. InFlight = 1 /\ out' = Nth(last, n)
    <3>1. InFlight = 1 /\ out' = Nth(last, Count + 1)
      BY <1>0, <2>1 DEF QInv, Line
    <3> QED
      BY <1>1, <3>1
  <2>3. InFlight' = 0
    <3>1. tx_head' = tx_tail'
      BY <2>1 DEF IInv, HwEmptyOrOne
    <3> QED
      BY <3>1, SlotsInUse DEF IInv, TypeOK, InFlight
  <2>4. k = n - 1 /\ n >= 1
    <3>1. Count' = Count
      BY <2>1 DEF Count
    <3> QED
      BY <1>0, <1>1, <1>2, <2>2, <2>3, <3>1
  <2>5. Waiting # <<>> /\ Head(Waiting) = Nth(last, n) /\ Waiting' = Tail(Waiting)
    BY <1>1, <1>2, <2>1, <2>4, NewestLeave
  <2> QED
    BY <2>2, <2>5 DEF Link!Leave, Waiting
<1> QED
  BY <1>3, <1>5, <1>6, <1>7 DEF Next, Msgtx, Isr, Waiting

\* Seen from outside, every accepted message goes out once, in the order in which
\* it was accepted.
THEOREM FirstInFirstOut == ~Overlap => (Spec => Link!Safe)
<1>1. Init => Link!Init
  <2> SUFFICES ASSUME Init PROVE Link!Init
    OBVIOUS
  <2>1. Count = 0 /\ InFlight = 0 /\ Queued = 0 /\ IInv
    BY InitIInv, Lengths DEF Init
  <2>2. HwLine = <<>> /\ TxqLine = <<>>
    BY <2>1 DEF HwLine, TxqLine
  <2>3. HwLine \o TxqLine = <<>>
    BY <2>2
  <2> QED
    BY <2>3 DEF Link!Init, Link!None, Init, NULL
<1>2. CASE ~Overlap
  <2>1. IInv /\ QInv => WaitingNumbered
    BY WaitingIs DEF QInv
  <2>2. IInv /\ IInv' /\ QInv /\ QInv' /\ WaitingNumbered /\ WaitingNumbered' /\ [Next]_vars
          => [Link!Enter \/ Link!Leave]_<<Waiting, out>>
    BY <1>2, StepIsFifo
  <2>3. Spec => [](IInv /\ QInv)
    BY <1>2, SpecQInv
  <2> QED
    BY <1>1, <2>1, <2>2, <2>3, PTL DEF Spec, Link!Safe, Waiting
<1> QED
  BY <1>2
=============================================================================
