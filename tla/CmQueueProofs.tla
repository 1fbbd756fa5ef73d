--------------------------- MODULE CmQueueProofs ---------------------------
(***************************************************************************)
(* Proofs about CmQueue, for every size of the ring and any set of         *)
(* contexts and holders.  The inductive invariant is the conjunction of    *)
(* the four state invariants the model checker checks: the count is exact  *)
(* only because a slot enters and leaves DELIVER one at a time, and nobody *)
(* else holds a slot cm_alloc hands out only because a slot is IDLE just   *)
(* when nobody holds it and it is not queued.                              *)
(***************************************************************************)
EXTENDS CmQueue, FiniteSetTheorems, TLAPS

IInv == TypeOK /\ Exclusive /\ HeldIsInUse /\ CountExact

----------------------------------------------------------------------------
(***************************************************************************)
(* The ring's arithmetic.                                                  *)
(***************************************************************************)

\* The increment with wrap-around stays inside the ring.
LEMMA AfterInRing == ASSUME NEW s \in Slots PROVE After(s) \in Slots
  BY NAssumption DEF After, Slots

\* Slots(cmq) is finite and has N members.
LEMMA RingSize == IsFiniteSet(Slots) /\ Cardinality(Slots) = N
  BY NAssumption, FS_Interval DEF Slots

\* The mask in cm_qmsg counts modulo the ring's size.
LEMMA MaskedCount ==
  ASSUME NEW k \in Nat, k <= N
  PROVE  /\ k % N \in Slots
         /\ k < N => k % N = k
         /\ ((k % N) + 1) % N = (k + 1) % N
<1>1. N % N = 0
  BY NAssumption
<1>2. ASSUME k < N PROVE k % N = k
  BY <1>2, NAssumption
<1> QED
  BY <1>1, <1>2, NAssumption DEF Slots

\* The queued slots are finitely many, and all of them only in a full ring.
LEMMA QueuedFinite ==
  ASSUME TypeOK
  PROVE  /\ IsFiniteSet(Queued) /\ Cardinality(Queued) \in 0..N
         /\ Cardinality(Queued) = N => Queued = Slots
<1>1. Queued \in SUBSET Slots
  BY DEF Queued
<1> QED
  BY <1>1, RingSize, FS_Subset, FS_CardinalityType, NAssumption

\* From any tail, an earlier slot of the scan comes strictly nearer once the
\* tail has moved past the delivered one.
LEMMA DistShrinks ==
  ASSUME NEW i \in Slots, NEW d \in Slots, NEW s \in Slots,
         d # s, Dist(i, d) <= Dist(i, s)
  PROVE  Dist(After(d), s) < Dist(i, s)
  BY NAssumption DEF Dist, After, Slots

----------------------------------------------------------------------------
(***************************************************************************)
(* Initialisation.                                                         *)
(***************************************************************************)

\* cm_init establishes the inductive invariant.
LEMMA InitIInv == Init => IInv
<1> SUFFICES ASSUME Init PROVE IInv
  OBVIOUS
<1>1. TypeOK
  BY NAssumption DEF Init, TypeOK, Slots, SlotState
<1>2. Exclusive
  BY DEF Init, Exclusive
<1>3. HeldIsInUse
  BY DEF Init, HeldIsInUse
<1>4. Queued = {}
  BY DEF Init, Queued
<1>5. CountExact
  BY <1>4, FS_EmptySet, NAssumption DEF Init, CountExact
<1> QED
  BY <1>1, <1>2, <1>3, <1>5 DEF IInv

----------------------------------------------------------------------------
(***************************************************************************)
(* Each operation preserves the invariant: a lemma per operation, and in   *)
(* it a step per conjunct.                                                 *)
(***************************************************************************)

\* cm_alloc hands out a slot nobody holds and nobody waits for.
LEMMA AllocIInv ==
  ASSUME IInv, NEW h \in Contexts, Alloc(h) PROVE IInv'
<1>1. PICK s \in Slots :
        /\ qstate[s] = "IDLE"
        /\ qstate' = [qstate EXCEPT ![s] = "ALLOC"]
        /\ q_head' = After(s)
        /\ held'   = [held EXCEPT ![h] = @ \cup {s}]
  BY DEF Alloc, FirstFrom
<1>2. UNCHANGED <<q_tail, q_msg_cnt>>
  BY DEF Alloc
<1>3. h \in Holders
  BY HoldersAssumption
<1>4. \A k \in Holders : s \notin held[k]
  BY <1>1 DEF IInv, HeldIsInUse
<1>5. TypeOK'
  BY <1>1, <1>2, AfterInRing DEF IInv, TypeOK, SlotState
<1>6. Exclusive'
  BY <1>1, <1>3, <1>4 DEF IInv, TypeOK, Exclusive
<1>7. HeldIsInUse'
  BY <1>1, <1>3, <1>4 DEF IInv, TypeOK, HeldIsInUse
<1>8. Queued' = Queued
  BY <1>1 DEF IInv, TypeOK, Queued
<1>9. CountExact'
  BY <1>2, <1>8 DEF IInv, CountExact
<1> QED
  BY <1>5, <1>6, <1>7, <1>9 DEF IInv

\* cm_qmsg moves a held slot into the waiting room and counts it.
LEMMA QmsgIInv ==
  ASSUME IInv, NEW h \in Contexts, NEW s \in Slots, Qmsg(h, s) PROVE IInv'
<1>1. /\ s \in held[h]
      /\ qstate[s] = "ALLOC"
      /\ qstate'    = [qstate EXCEPT ![s] = "DELIVER"]
      /\ q_msg_cnt' = (q_msg_cnt + 1) % N
      /\ held'      = [held EXCEPT ![h] = @ \ {s}]
      /\ UNCHANGED <<q_head, q_tail>>
  BY DEF Qmsg
<1>2. h \in Holders
  BY HoldersAssumption
<1>3. Queued' = Queued \cup {s} /\ s \notin Queued
  BY <1>1 DEF IInv, TypeOK, Queued
<1>4. /\ Cardinality(Queued') = Cardinality(Queued) + 1
      /\ Cardinality(Queued) \in Nat
      /\ Cardinality(Queued) <= N
  BY <1>3, QueuedFinite, FS_AddElement, NAssumption DEF IInv
<1>5. CountExact'
  BY <1>1, <1>4, MaskedCount DEF IInv, CountExact
<1>6. q_msg_cnt' \in Slots
  BY <1>1, NAssumption DEF IInv, TypeOK, Slots
<1>7. TypeOK'
  BY <1>1, <1>6 DEF IInv, TypeOK, SlotState
<1>8. Exclusive'
  BY <1>1, <1>2 DEF IInv, TypeOK, Exclusive
<1>9. \A k \in Holders : s \notin held'[k]
  BY <1>1, <1>2 DEF IInv, TypeOK, Exclusive
<1>10. HeldIsInUse'
  BY <1>1, <1>2, <1>9 DEF IInv, TypeOK, HeldIsInUse
<1> QED
  BY <1>5, <1>7, <1>8, <1>10 DEF IInv

\* cm_free returns a held slot: nobody else had it, so nobody loses it.
LEMMA FreeIInv ==
  ASSUME IInv, NEW h \in Contexts, NEW s \in Slots, Free(h, s) PROVE IInv'
<1>1. /\ s \in held[h]
      /\ qstate' = [qstate EXCEPT ![s] = "IDLE"]
      /\ held'   = [held EXCEPT ![h] = @ \ {s}]
      /\ UNCHANGED <<q_head, q_tail, q_msg_cnt>>
  BY DEF Free
<1>2. h \in Holders
  BY HoldersAssumption
<1>3. qstate[s] # "DELIVER"
  BY <1>1, <1>2 DEF IInv, HeldIsInUse
<1>4. Queued' = Queued
  BY <1>1, <1>3 DEF IInv, TypeOK, Queued
<1>5. TypeOK'
  BY <1>1 DEF IInv, TypeOK, SlotState
<1>6. Exclusive'
  BY <1>1, <1>2 DEF IInv, TypeOK, Exclusive
<1>7. \A k \in Holders : s \notin held'[k]
  BY <1>1, <1>2 DEF IInv, TypeOK, Exclusive
<1>8. HeldIsInUse'
  BY <1>1, <1>2, <1>7 DEF IInv, TypeOK, HeldIsInUse
<1>9. CountExact'
  BY <1>1, <1>4 DEF IInv, CountExact
<1> QED
  BY <1>5, <1>6, <1>8, <1>9 DEF IInv

\* cm_thread takes one queued slot and counts it off: the counter was the
\* exact number, not zero, so it does not go below zero.
LEMMA DeliverIInv ==
  ASSUME IInv, Deliver PROVE IInv'
<1>1. PICK s \in Slots :
        /\ qstate[s] = "DELIVER"
        /\ qstate' = [qstate EXCEPT ![s] = "BUSY"]
        /\ q_tail' = After(s)
        /\ held'   = [held EXCEPT ![Bg] = @ \cup {s}]
  BY DEF Deliver, FirstFrom
<1>2. q_msg_cnt # 0 /\ q_msg_cnt' = q_msg_cnt - 1 /\ UNCHANGED q_head
  BY DEF Deliver
<1>3. Bg \in Holders
  BY HoldersAssumption
<1>4. \A k \in Holders : s \notin held[k]
  BY <1>1 DEF IInv, HeldIsInUse
<1>5. Queued' = Queued \ {s} /\ s \in Queued
  BY <1>1 DEF IInv, TypeOK, Queued
<1>6. /\ Cardinality(Queued') = Cardinality(Queued) - 1
      /\ Cardinality(Queued) \in Nat
      /\ Cardinality(Queued) <= N
  BY <1>5, QueuedFinite, FS_RemoveElement, NAssumption DEF IInv
<1>7. Cardinality(Queued) # 0
  BY <1>5, QueuedFinite, FS_EmptySet DEF IInv
<1>8. Cardinality(Queued) < N
  <2>1. N % N = 0
    BY NAssumption
  <2> QED
    BY <2>1, <1>2, <1>6, NAssumption DEF IInv, CountExact
<1>9. q_msg_cnt = Cardinality(Queued)
  BY <1>6, <1>8, MaskedCount DEF IInv, CountExact
<1>10. CountExact'
  <2> DEFINE c == Cardinality(Queued) - 1
  <2>1. c \in Nat /\ c < N
    BY <1>6, <1>7, <1>8, NAssumption
  <2>2. c % N = c
    BY <2>1, MaskedCount, NAssumption
  <2> QED
    BY <2>2, <1>2, <1>6, <1>9 DEF CountExact
<1>11. TypeOK'
  <2>1. q_msg_cnt' \in Slots
    BY <1>2, NAssumption DEF IInv, TypeOK, Slots
  <2> QED
    BY <2>1, <1>1, <1>2, <1>3, AfterInRing DEF IInv, TypeOK, SlotState
<1>12. Exclusive'
  BY <1>1, <1>3, <1>4 DEF IInv, TypeOK, Exclusive
<1>13. HeldIsInUse'
  BY <1>1, <1>3, <1>4 DEF IInv, TypeOK, HeldIsInUse
<1> QED
  BY <1>10, <1>11, <1>12, <1>13 DEF IInv

\* A software queue passes a pointer on and keeps none.
LEMMA HandOverIInv ==
  ASSUME IInv, NEW h \in Holders, NEW k \in Holders, NEW s \in Slots,
         HandOver(h, k, s)
  PROVE  IInv'
<1>1. /\ h # k
      /\ s \in held[h]
      /\ qstate[s] = "BUSY"
      /\ held' = [held EXCEPT ![h] = @ \ {s}, ![k] = @ \cup {s}]
      /\ UNCHANGED <<qstate, q_head, q_tail, q_msg_cnt>>
  BY DEF HandOver
<1>2. /\ held'[h] = held[h] \ {s}
      /\ held'[k] = held[k] \cup {s}
      /\ \A j \in Holders \ {h, k} : held'[j] = held[j]
  BY <1>1 DEF IInv, TypeOK
<1>3. TypeOK'
  BY <1>1 DEF IInv, TypeOK
<1>4. Exclusive'
  <2> SUFFICES ASSUME NEW i \in Holders, NEW j \in Holders, i # j,
                      NEW t \in held'[i], t \in held'[j]
               PROVE  FALSE
    BY DEF Exclusive
  <2>1. \A m \in Holders : s \in held[m] => m = h
    BY <1>1 DEF IInv, TypeOK, Exclusive
  <2>2. CASE t = s
    <3>1. \A m \in Holders : s \in held'[m] => m = k
      BY <1>2, <2>1
    <3> QED
      BY <3>1, <2>2
  <2>3. CASE t # s
    <3>1. t \in held[i] /\ t \in held[j]
      BY <1>2, <2>3
    <3> QED
      BY <3>1 DEF IInv, Exclusive
  <2> QED
    BY <2>2, <2>3
<1>5. HeldIsInUse'
  <2>1. \A t \in Slots : t # s =>
          ((\E j \in Holders : t \in held'[j]) <=> \E j \in Holders : t \in held[j])
    BY <1>2
  <2>2. s \in held'[k]
    BY <1>2
  <2> QED
    BY <1>1, <2>1, <2>2 DEF IInv, HeldIsInUse
<1>6. CountExact'
  BY <1>1 DEF IInv, CountExact, Queued
<1> QED
  BY <1>3, <1>4, <1>5, <1>6 DEF IInv

\* Every step of the queue preserves the invariant.
LEMMA NextIInv == IInv /\ [Next]_vars => IInv'
<1> SUFFICES ASSUME IInv, [Next]_vars PROVE IInv'
  OBVIOUS
<1>1. ASSUME NEW h \in Contexts, Alloc(h) PROVE IInv'
  BY <1>1, AllocIInv
<1>2. ASSUME NEW h \in Contexts, NEW s \in Slots, Qmsg(h, s) PROVE IInv'
  BY <1>2, QmsgIInv
<1>3. ASSUME NEW h \in Contexts, NEW s \in Slots, Free(h, s) PROVE IInv'
  BY <1>3, FreeIInv
<1>4. CASE Deliver
  BY <1>4, DeliverIInv
<1>5. ASSUME NEW h \in Holders, NEW k \in Holders, NEW s \in Slots, HandOver(h, k, s)
      PROVE  IInv'
  BY <1>5, HandOverIInv
<1>6. CASE UNCHANGED vars
  BY <1>6 DEF vars, IInv, TypeOK, Exclusive, HeldIsInUse, CountExact, Queued
<1> QED
  BY <1>1, <1>2, <1>3, <1>4, <1>5, <1>6 DEF Next

\* The inductive invariant holds in every behaviour.
LEMMA SpecIInv == Spec => []IInv
  BY InitIInv, NextIInv, PTL DEF Spec

----------------------------------------------------------------------------
(***************************************************************************)
(* The results.                                                            *)
(***************************************************************************)

\* cm.q_head, cm.q_tail and cm.q_msg_cnt stay inside the ring whatever the
\* interleaving of cm_alloc, cm_qmsg, cm_thread and cm_free.
THEOREM TypeCorrect == Spec => []TypeOK
  BY SpecIInv, PTL DEF IInv

\* cm_alloc never hands out a slot that somebody still composes, processes or
\* transmits, for every ring size and number of contexts.
THEOREM SlotsExclusive == Spec => []Exclusive
  BY SpecIInv, PTL DEF IInv

\* A slot is ALLOC or BUSY exactly while somebody holds a pointer to it.
THEOREM HeldSlotsInUse == Spec => []HeldIsInUse
  BY SpecIInv, PTL DEF IInv

\* q_msg_cnt is the number of queued slots modulo the ring's size.
THEOREM CountCorrect == Spec => []CountExact
  BY SpecIInv, PTL DEF IInv

\* cm_thread skips a queued message only when every slot is queued.
THEOREM StallOnlyFull == Spec => []StallOnlyWhenFull
<1>1. IInv => StallOnlyWhenFull
  <2> SUFFICES ASSUME IInv, q_msg_cnt = 0 PROVE Queued \in {{}, Slots}
    BY DEF StallOnlyWhenFull
  <2>1. Cardinality(Queued) \in 0..N /\ IsFiniteSet(Queued)
    BY QueuedFinite DEF IInv
  <2>2. ASSUME Cardinality(Queued) < N PROVE Cardinality(Queued) = 0
    <3>1. Cardinality(Queued) \in Nat /\ Cardinality(Queued) <= N
      BY <2>1, NAssumption
    <3>2. Cardinality(Queued) % N = Cardinality(Queued)
      BY <3>1, <2>2, MaskedCount
    <3> QED
      BY <3>2 DEF IInv, CountExact
  <2>3. CASE Cardinality(Queued) = 0
    BY <2>1, <2>3, FS_EmptySet
  <2>4. CASE Cardinality(Queued) = N
    BY <2>4, QueuedFinite DEF IInv
  <2> QED
    BY <2>1, <2>2, <2>3, <2>4, NAssumption
<1> QED
  BY <1>1, SpecIInv, PTL

\* Every delivery by cm_thread brings each message that keeps waiting nearer
\* to the tail: no message is overtaken more than N - 1 times.
THEOREM NoStarvation == Spec => Approaches
<1>1. IInv /\ [Next]_vars =>
        [Delivers => \A s \in Slots : (qstate[s] = "DELIVER" /\ qstate'[s] = "DELIVER")
                       => Dist(q_tail', s) < Dist(q_tail, s)]_vars
  <2> SUFFICES ASSUME IInv, [Next]_vars, Delivers,
                      NEW s \in Slots, qstate[s] = "DELIVER", qstate'[s] = "DELIVER"
               PROVE  Dist(q_tail', s) < Dist(q_tail, s)
    OBVIOUS
  <2>1. PICK t \in Slots : qstate[t] = "DELIVER" /\ qstate'[t] = "BUSY"
    BY DEF Delivers
  <2>2. Deliver
    <3>1. ASSUME NEW h \in Contexts, Alloc(h) PROVE FALSE
      BY <2>1, <3>1 DEF Alloc, FirstFrom, IInv, TypeOK
    <3>2. ASSUME NEW h \in Contexts, NEW u \in Slots, Qmsg(h, u) PROVE FALSE
      BY <2>1, <3>2 DEF Qmsg, IInv, TypeOK
    <3>3. ASSUME NEW h \in Contexts, NEW u \in Slots, Free(h, u) PROVE FALSE
      BY <2>1, <3>3 DEF Free, IInv, TypeOK
    <3>4. ASSUME NEW h \in Holders, NEW k \in Holders, NEW u \in Slots, HandOver(h, k, u)
          PROVE  FALSE
      BY <2>1, <3>4 DEF HandOver
    <3>5. CASE UNCHANGED vars
      BY <2>1, <3>5 DEF vars
    <3> QED
      BY <3>1, <3>2, <3>3, <3>4, <3>5 DEF Next
  <2>3. PICK d \in Slots :
          /\ FirstFrom(q_tail, d, "DELIVER")
          /\ qstate' = [qstate EXCEPT ![d] = "BUSY"]
          /\ q_tail' = After(d)
    BY <2>2 DEF Deliver
  <2>4. d # s
    BY <2>3 DEF IInv, TypeOK
  <2>5. Dist(q_tail, d) <= Dist(q_tail, s)
    BY <2>3 DEF FirstFrom
  <2> QED
    BY <2>3, <2>4, <2>5, DistShrinks DEF IInv, TypeOK
<1> QED
  BY <1>1, SpecIInv, PTL DEF Spec, Approaches

----------------------------------------------------------------------------
(***************************************************************************)
(* The ring's steps implement the pool's.                                  *)
(***************************************************************************)

PlaceSound ==
  \A s \in Slots :
    /\ qstate[s] = "IDLE" => place[s] = "pool"
    /\ qstate[s] = "DELIVER" => place[s] = "waiting"
    /\ \A h \in Holders : s \in held[h] => place[s] = h

\* Where a slot is follows from its state, or from its only holder.
LEMMA PlaceFaithful == IInv => PlaceSound
<1> SUFFICES ASSUME IInv, NEW s \in Slots
             PROVE  /\ qstate[s] = "IDLE" => place[s] = "pool"
                    /\ qstate[s] = "DELIVER" => place[s] = "waiting"
                    /\ \A h \in Holders : s \in held[h] => place[s] = h
  BY DEF PlaceSound
<1>1. qstate[s] = "IDLE" => place[s] = "pool"
  BY DEF place
<1>2. qstate[s] = "DELIVER" => place[s] = "waiting"
  BY DEF place
<1>3. ASSUME NEW h \in Holders, s \in held[h] PROVE place[s] = h
  <2>1. qstate[s] # "IDLE" /\ qstate[s] # "DELIVER"
    BY <1>3 DEF IInv, HeldIsInUse
  <2>2. place[s] = CHOOSE k \in Holders : s \in held[k]
    BY <2>1 DEF place
  <2>3. place[s] \in Holders /\ s \in held[place[s]]
    BY <2>2, <1>3
  <2> QED
    BY <2>3, <1>3 DEF IInv, Exclusive
<1> QED
  BY <1>1, <1>2, <1>3

\* A step that leaves every other slot's state and holders alone moves one
\* slot and no other.
LEMMA OneSlotMoves ==
  ASSUME IInv, PlaceSound, PlaceSound', NEW s \in Slots, NEW x, place'[s] = x,
         \A t \in Slots \ {s} : /\ qstate'[t] = qstate[t]
                                /\ \A h \in Holders : t \in held'[h] <=> t \in held[h]
  PROVE  place' = [place EXCEPT ![s] = x]
<1>1. ASSUME NEW t \in Slots \ {s} PROVE place'[t] = place[t]
  <2>1. CASE qstate[t] \in {"IDLE", "DELIVER"}
    BY <2>1 DEF PlaceSound
  <2>2. CASE qstate[t] \in {"ALLOC", "BUSY"}
    <3>1. PICK h \in Holders : t \in held[h]
      BY <2>2 DEF IInv, HeldIsInUse
    <3> QED
      BY <3>1 DEF PlaceSound
  <2> QED
    BY <2>1, <2>2 DEF IInv, TypeOK, SlotState
<1>2. place = [t \in Slots |-> place[t]] /\ place' = [t \in Slots |-> place'[t]]
  BY DEF place
<1> QED
  BY <1>1, <1>2

\* Every operation on the ring is one move of the pool.
LEMMA NextMoves == IInv /\ IInv' /\ PlaceSound /\ PlaceSound' /\ [Next]_vars
                     => [Pool!Next]_place
<1> SUFFICES ASSUME IInv, IInv', PlaceSound, PlaceSound', [Next]_vars
             PROVE  [Pool!Next]_place
  OBVIOUS
<1> USE DEF Pool!Next, Pool!Move
<1>1. ASSUME NEW h \in Contexts, Alloc(h) PROVE Pool!Next
  <2>1. PICK s \in Slots :
          /\ qstate[s] = "IDLE"
          /\ qstate' = [qstate EXCEPT ![s] = "ALLOC"]
          /\ held'   = [held EXCEPT ![h] = @ \cup {s}]
    BY <1>1 DEF Alloc, FirstFrom
  <2>2. h \in Holders
    BY HoldersAssumption
  <2>3. place[s] = "pool" /\ place'[s] = h
    BY <2>1, <2>2 DEF PlaceSound, IInv, TypeOK
  <2>4. place' = [place EXCEPT ![s] = h]
    BY <2>1, <2>2, <2>3, OneSlotMoves DEF IInv, TypeOK
  <2> QED
    BY <2>2, <2>3, <2>4 DEF Pool!Take
<1>2. ASSUME NEW h \in Contexts, NEW s \in Slots, Qmsg(h, s) PROVE Pool!Next
  <2>1. h \in Holders
    BY HoldersAssumption
  <2>2. place[s] = h /\ place'[s] = "waiting"
    BY <1>2, <2>1 DEF Qmsg, PlaceSound, IInv, TypeOK
  <2>3. place' = [place EXCEPT ![s] = "waiting"]
    BY <1>2, <2>1, <2>2, OneSlotMoves DEF Qmsg, IInv, TypeOK
  <2> QED
    BY <2>1, <2>2, <2>3 DEF Pool!Post
<1>3. ASSUME NEW h \in Contexts, NEW s \in Slots, Free(h, s) PROVE Pool!Next
  <2>1. h \in Holders
    BY HoldersAssumption
  <2>2. place[s] = h /\ place'[s] = "pool"
    BY <1>3, <2>1 DEF Free, PlaceSound, IInv, TypeOK
  <2>3. place' = [place EXCEPT ![s] = "pool"]
    BY <1>3, <2>1, <2>2, OneSlotMoves DEF Free, IInv, TypeOK
  <2> QED
    BY <2>1, <2>2, <2>3 DEF Pool!GiveBack
<1>4. ASSUME Deliver PROVE Pool!Next
  <2>1. PICK s \in Slots :
          /\ qstate[s] = "DELIVER"
          /\ qstate' = [qstate EXCEPT ![s] = "BUSY"]
          /\ held'   = [held EXCEPT ![Bg] = @ \cup {s}]
    BY <1>4 DEF Deliver, FirstFrom
  <2>2. Bg \in Holders
    BY HoldersAssumption
  <2>3. place[s] = "waiting" /\ place'[s] = Bg
    BY <2>1, <2>2 DEF PlaceSound, IInv, TypeOK
  <2>4. place' = [place EXCEPT ![s] = Bg]
    BY <2>1, <2>2, <2>3, OneSlotMoves DEF IInv, TypeOK
  <2> QED
    BY <2>3, <2>4 DEF Pool!Fetch
<1>5. ASSUME NEW h \in Holders, NEW k \in Holders, NEW s \in Slots, HandOver(h, k, s)
      PROVE  Pool!Next
  <2>1. /\ held'[k] = held[k] \cup {s}
        /\ \A j \in Holders : \A t \in Slots \ {s} : t \in held'[j] <=> t \in held[j]
        /\ qstate' = qstate
    BY <1>5 DEF HandOver, IInv, TypeOK
  <2>2. place[s] = h /\ place'[s] = k
    BY <1>5, <2>1 DEF HandOver, PlaceSound
  <2>3. place' = [place EXCEPT ![s] = k]
    BY <2>1, <2>2, OneSlotMoves
  <2> QED
    BY <2>2, <2>3 DEF Pool!Pass
<1>6. ASSUME UNCHANGED vars PROVE UNCHANGED place
  BY <1>6 DEF vars, place
<1> QED
  BY <1>1, <1>2, <1>3, <1>4, <1>5, <1>6 DEF Next

\* Every behaviour of the ring, seen as where each slot is, is a behaviour of
\* the pool, for every size of the ring: no slot is ever in two places.
THEOREM RingImplementsPool == Spec => ImplementsPool
<1>1. Init => Pool!Init
  BY DEF Init, Pool!Init, place
<1> QED
  BY <1>1, SpecIInv, PlaceFaithful, NextMoves, PTL DEF Spec, ImplementsPool, Pool!Spec
============================================================================
