---------------------------- MODULE FwMsgProofs ----------------------------
(***************************************************************************)
(* Proofs about FwMsg, for any number of slots, requests and ring entries. *)
(* What holds of the types and of the servers' rings holds without a       *)
(* condition.  Slots are lost, and answers with them, when the ring of the *)
(* link overruns, which the code does not test for: the theorems on slots  *)
(* and answers are about the executions in which it does not.              *)
(***************************************************************************)
EXTENDS FwMsg, FiniteSetTheorems, FunctionTheorems, SequenceTheorems, TLAPS

\* No ring holds a slot twice.
Distinct(q) == \A i, j \in DOMAIN q : q[i] = q[j] => i = j

\* The loop serves a server's ring before cm_thread routes to it again.
Turns ==
  /\ turn = "cm"  => cpq = <<>> /\ daqq = <<>>
  /\ turn = "cp"  => Len(cpq) = (IF at = "fetch" THEN 1 ELSE 0) /\ daqq = <<>>
  /\ turn = "daq" => Len(daqq) = (IF at = "fetch" THEN 1 ELSE 0) /\ cpq = <<>>
  /\ at = "route" => turn = "cm"

\* Nobody has a slot that another has.
Apart ==
  /\ cur # None => cur \notin {new, isr}
  /\ new # None => new # isr
  /\ waiting \cap ({cur, new, isr} \cup InQueue(cpq) \cup InQueue(daqq) \cup InQueue(txq)) = {}
  /\ InQueue(cpq) \cap ({cur, new, isr} \cup InQueue(daqq) \cup InQueue(txq)) = {}
  /\ InQueue(daqq) \cap ({cur, new, isr} \cup InQueue(txq)) = {}
  /\ InQueue(txq) \cap {cur, new, isr} = {}
  /\ Distinct(cpq) /\ Distinct(daqq) /\ Distinct(txq)

\* What somebody has is not in the pool.
Held  == (waiting \cup {cur, new, isr} \cup InQueue(cpq) \cup InQueue(daqq) \cup InQueue(txq))
           \ {None}
Taken == \A s \in Held : msg[s] # Idle

\* What the messages are, by the place they are in.
KindsInPlace ==
  /\ \A i \in DOMAIN hw : hw[i].kind \in Requests
  /\ isr # None => msg[isr].kind \in Requests \cup {"INT"}
  /\ \A s \in InQueue(cpq) : msg[s].kind \in CpKinds
  /\ \A s \in InQueue(daqq) : msg[s].kind \in DaqKinds
  /\ \A s \in InQueue(txq) : msg[s].kind \in Outbound
  /\ at \in {"handle", "send", "release"} => msg[cur].kind \notin Outbound
  /\ at = "send" => /\ msg[cur].kind \in Composed
                    /\ msg[new].kind \in Outbound /\ msg[new].id = None
                    /\ msg[new].kind = "PONG" <=> msg[cur].kind = "PING"
                    /\ msg[new].kind = "DONE" <=> msg[cur].kind = "INT"

\* The link is idle when nothing waits for it only.
LinkBusy == wire = Idle => txq = <<>>

IInv == TypeOK /\ Turns /\ Apart /\ Taken /\ KindsInPlace /\ LinkBusy

\* What has been leaked is an answer without an address.
LostInv == \A s \in Slots : s \notin Held /\ msg[s] # Idle => msg[s] = Msg("PONG", None)

\* A request's number is in one place, or in two when its answer is queued and
\* its own slot not yet freed.
OneCarrier ==
  /\ \A i, j \in DOMAIN hw : hw[i].id = hw[j].id => i = j
  /\ \A i \in DOMAIN hw : hw[i].id \in Ids /\ hw[i].id # wire.id
  /\ \A i \in DOMAIN hw, s \in Slots : msg[s].id # hw[i].id
  /\ wire.id # None => \A s \in Slots : msg[s].id # wire.id
  /\ \A s, t \in Slots : msg[s].id # None /\ msg[s].id = msg[t].id /\ s # t =>
       at = "release" /\ cur \in {s, t} /\ (s = cur => t \in waiting /\ msg[t].kind \in Outbound)

\* The request in slot s has its answer already, or has been dropped.
Finished(s) == s = cur /\ at = "release" /\ msg[s].kind \notin Outbound

\* The host waits for exactly what is on its way.
DueExact ==
  /\ wire.id # None => wire.id \in due
  /\ \A i \in DOMAIN hw : hw[i].id \in due <=> hw[i].kind \in Answered
  /\ \A s \in Slots : msg[s].id # None /\ ~Finished(s) =>
       (msg[s].id \in due <=> msg[s].kind \in Answered \cup Outbound)
  /\ \A id \in due : \/ \E i \in DOMAIN hw : hw[i].id = id
                     \/ wire.id = id
                     \/ \E s \in Slots : msg[s].id = id /\ ~Finished(s)

\* The end of an acquisition answers no request.
IntAlone == \A s \in Slots : msg[s].kind = "INT" => msg[s].id = None

AInv == OneCarrier /\ DueExact /\ IntAlone

\* Whenever cm_route hands a message to opto_cmio, txq has room for it.
TxRoom == at = "route" /\ msg[cur].kind \in Outbound => Len(txq) + 1 # TxQue

-----------------------------------------------------------------------------
(***************************************************************************)
(* The rings of pointers, and cm_alloc.                                    *)
(***************************************************************************)

\* A ring without entries is the empty one, and holds nothing.
LEMMA RingLen == \A q \in Seq(Slots) : Len(q) \in Nat /\ (Len(q) = 0 <=> q = <<>>)
  BY EmptySeq, LenProperties

\* An empty ring holds nothing, and a ring without length is empty.
LEMMA RingEmpty ==
  /\ InQueue(<<>>) = {} /\ Distinct(<<>>) /\ Len(<<>>) = 0
  /\ \A q \in Seq(Slots) : Len(q) \in Nat /\ (Len(q) = 0 <=> q = <<>>)
<1>1. InQueue(<<>>) = {} /\ Distinct(<<>>) /\ Len(<<>>) = 0
  BY DEF InQueue, Distinct
<1> QED
  BY <1>1, RingLen

\* What the increment of a ring's head without a test for room does (cp_qmsg,
\* daq_qmsg, opto_cmio): the slot is in, or the whole ring is lost.
LEMMA RingPut ==
  ASSUME NEW q \in Seq(Slots), NEW s \in Slots, NEW size
  PROVE  /\ Put(q, s, size) \in Seq(Slots)
         /\ InQueue(Put(q, s, size)) \subseteq InQueue(q) \cup {s}
         /\ Distinct(q) /\ s \notin InQueue(q) => Distinct(Put(q, s, size))
         /\ Len(q) + 1 # size => /\ InQueue(Put(q, s, size)) = InQueue(q) \cup {s}
                                 /\ Len(Put(q, s, size)) = Len(q) + 1
<1>1. CASE Len(q) + 1 = size
  <2>1. Put(q, s, size) = <<>>
    BY <1>1 DEF Put
  <2> QED
    BY <1>1, <2>1, RingEmpty, EmptySeq
<1>2. CASE Len(q) + 1 # size
  <2> DEFINE p == Append(q, s)
  <2>1. Put(q, s, size) = p
    BY <1>2 DEF Put
  <2>2. /\ p \in Seq(Slots) /\ Len(p) = Len(q) + 1 /\ Len(q) \in Nat
        /\ \A i \in 1..Len(q) : p[i] = q[i]
        /\ p[Len(q) + 1] = s
        /\ DOMAIN p = 1..Len(q) + 1 /\ DOMAIN q = 1..Len(q)
    BY AppendProperties, LenProperties
  <2> HIDE DEF p
  <2>3. InQueue(p) = InQueue(q) \cup {s}
    BY <2>2 DEF InQueue
  <2>4. Distinct(q) /\ s \notin InQueue(q) => Distinct(p)
    BY <2>2 DEF InQueue, Distinct
  <2> QED
    BY <1>2, <2>1, <2>2, <2>3, <2>4
<1> QED
  BY <1>1, <1>2

\* What taking the oldest pointer of a ring leaves (cp_thread, daq_thread,
\* opto_tx).
LEMMA RingTake ==
  ASSUME NEW q \in Seq(Slots), q # <<>>
  PROVE  /\ Head(q) \in Slots /\ Tail(q) \in Seq(Slots) /\ Len(Tail(q)) = Len(q) - 1
         /\ InQueue(q) = {Head(q)} \cup InQueue(Tail(q))
         /\ Distinct(q) => Head(q) \notin InQueue(Tail(q)) /\ Distinct(Tail(q))
<1> DEFINE p == Tail(q)
<1>1. /\ Head(q) \in Slots /\ p \in Seq(Slots) /\ Len(p) = Len(q) - 1
      /\ \A i \in 1..Len(p) : p[i] = q[i + 1]
  BY HeadTailProperties
<1>2. /\ Len(q) \in Nat \ {0} /\ DOMAIN q = 1..Len(q) /\ DOMAIN p = 1..Len(q) - 1
      /\ Head(q) = q[1]
  BY <1>1, EmptySeq, LenProperties
<1> HIDE DEF p
<1>3. \A i \in DOMAIN p : i + 1 \in DOMAIN q /\ p[i] = q[i + 1]
  BY <1>1, <1>2
<1>4. InQueue(q) = {Head(q)} \cup InQueue(p)
  <2>1. ASSUME NEW i \in DOMAIN q PROVE q[i] \in {Head(q)} \cup InQueue(p)
    <3>1. CASE i = 1
      BY <3>1, <1>2
    <3>2. CASE i # 1
      <4>1. i - 1 \in DOMAIN p /\ p[i - 1] = q[i]
        BY <3>2, <1>1, <1>2
      <4> QED
        BY <4>1 DEF InQueue
    <3> QED
      BY <3>1, <3>2
  <2>2. 1 \in DOMAIN q
    BY <1>2
  <2> QED
    BY <2>1, <2>2, <1>2, <1>3 DEF InQueue
<1>5. Distinct(q) => Head(q) \notin InQueue(p) /\ Distinct(p)
  <2> SUFFICES ASSUME Distinct(q) PROVE Head(q) \notin InQueue(p) /\ Distinct(p)
    OBVIOUS
  <2>1. ASSUME NEW i \in DOMAIN p PROVE p[i] # Head(q)
    <3>1. 1 \in DOMAIN q /\ i + 1 # 1
      BY <1>2
    <3> QED
      BY <3>1, <1>2, <1>3 DEF Distinct
  <2>2. ASSUME NEW i \in DOMAIN p, NEW j \in DOMAIN p, p[i] = p[j] PROVE i = j
    <3>1. i + 1 = j + 1
      BY <2>2, <1>3 DEF Distinct
    <3> QED
      BY <3>1, <1>2
  <2> QED
    BY <2>1, <2>2 DEF InQueue, Distinct
<1> QED
  BY <1>1, <1>4, <1>5 DEF p

\* cm_alloc hands out a slot of the pool.
LEMMA FoundFree == ASSUME Free # {} PROVE Found \in Slots /\ msg[Found] = Idle
  BY DEF Found, Free

\* The kinds are different, and an idle slot is no message.
LEMMA IdleIsNoMessage == Idle \notin Message /\ None \notin Slots /\ None \notin Ids
  BY SlotsAssumption, IdsAssumption
     DEF Idle, Message, Requests, CmKinds, CpKinds, Outbound

-----------------------------------------------------------------------------
(***************************************************************************)
(* The invariant that needs no condition.                                  *)
(***************************************************************************)

\* The firmware starts with every slot in the pool and every ring empty.
LEMMA InitIInv == Init => IInv
<1> SUFFICES ASSUME Init PROVE IInv
  OBVIOUS
<1> USE DEF Init
<1>1. cur = None /\ new = None /\ isr = None /\ at = "fetch" /\ waiting = {}
  OBVIOUS
<1>2. InQueue(cpq) = {} /\ InQueue(daqq) = {} /\ InQueue(txq) = {}
  BY RingEmpty
<1>3. TypeOK
  <2>1. hw \in Seq(Message) /\ Len(hw) = 0
    BY EmptySeq
  <2>2. cpq \in Seq(Slots) /\ daqq \in Seq(Slots) /\ txq \in Seq(Slots)
    BY EmptySeq
  <2>3. Len(hw) <= Frames
    BY <2>1, FramesAssumption
  <2> HIDE DEF Init
  <2>4. /\ msg \in [Slots -> Message \cup {Idle}] /\ waiting \subseteq Slots
        /\ wire \in Message \cup {Idle} /\ due \subseteq Ids
    BY DEF Init
  <2>5. connected \in BOOLEAN /\ running \in BOOLEAN
    BY DEF Init
  <2> QED
    BY <1>1, <2>1, <2>2, <2>3, <2>4, <2>5 DEF Init, TypeOK
<1>4. Turns /\ LinkBusy
  BY DEF Turns, LinkBusy
<1>5. Apart
  BY <1>1, <1>2, RingEmpty DEF Apart
<1>6. Taken
  BY <1>1, <1>2 DEF Taken, Held
<1>7. KindsInPlace
  BY <1>1, <1>2 DEF KindsInPlace
<1> QED
  BY <1>3, <1>4, <1>5, <1>6, <1>7 DEF IInv

\* The loop goes to the server whose ring is not empty, or back to cm_thread.
LEMMA NextTurnServes ==
  ASSUME TypeOK, Turns, at # "fetch",
         turn = "cm" \/ (cpq' = cpq /\ daqq' = daqq),
         \/ cpq' = <<>> /\ daqq' = <<>>
         \/ Len(cpq') = 1 /\ daqq' = <<>>
         \/ cpq' = <<>> /\ Len(daqq') = 1,
         NextTurn(cpq', daqq')
  PROVE  Turns' /\ at' = "fetch" /\ turn' \in {"cm", "cp", "daq"}
  BY RingEmpty DEF NextTurn, Turns, TypeOK

\* cm_thread takes a queued slot, cp_thread and daq_thread the one slot in
\* their ring.
LEMMA FetchKeepsIInv ==
  ASSUME IInv, CpFetch \/ DaqFetch \/ \E s \in Slots : Fetch(s)
  PROVE  IInv'
<1> USE DEF IInv
<1>1. ASSUME NEW s \in Slots, Fetch(s) PROVE IInv'
  <2> USE <1>1 DEF Fetch, Background, queues, link
  <2>1. TypeOK'
    BY IdleIsNoMessage DEF TypeOK
  <2>2. Turns' /\ LinkBusy'
    BY DEF Turns, LinkBusy, TypeOK
  <2>3. Apart'
    BY IdleIsNoMessage DEF Apart, TypeOK
  <2>4. Taken'
    BY DEF Taken, Held
  <2>5. KindsInPlace'
    BY DEF KindsInPlace
  <2> QED
    BY <2>1, <2>2, <2>3, <2>4, <2>5
<1>2. CASE CpFetch
  <2> USE <1>2 DEF CpFetch, Background, link
  <2>0. /\ cpq' = <<>> /\ InQueue(cpq') = {} /\ Distinct(cpq') /\ cpq' \in Seq(Slots)
        /\ cur' = Head(cpq) /\ cur' \in InQueue(cpq) /\ cur' \in Slots
    <3>1. cpq \in Seq(Slots) /\ Len(cpq) = 1
      BY DEF TypeOK, Turns
    <3>2. cpq # <<>>
      BY <3>1, RingEmpty
    <3>3. /\ cpq' = Tail(cpq) /\ cpq' \in Seq(Slots) /\ Len(cpq') = 0
          /\ Head(cpq) \in Slots /\ Head(cpq) \in InQueue(cpq)
      BY <3>1, <3>2, RingTake
    <3>4. cpq' = <<>>
      BY <3>3, RingEmpty
    <3>5. InQueue(cpq') = {} /\ Distinct(cpq')
      BY <3>4, RingEmpty
    <3> QED
      BY <3>3, <3>4, <3>5
  <2>1. TypeOK'
    BY <2>0, IdleIsNoMessage DEF TypeOK
  <2>2. Turns' /\ LinkBusy'
    BY <2>0, RingEmpty DEF Turns, LinkBusy, TypeOK
  <2>3. Apart'
    BY <2>0, IdleIsNoMessage DEF Apart, TypeOK
  <2>4. Taken'
    BY <2>0 DEF Taken, Held
  <2>5. KindsInPlace'
    BY <2>0 DEF KindsInPlace, CpKinds, Outbound
  <2> QED
    BY <2>1, <2>2, <2>3, <2>4, <2>5
<1>3. CASE DaqFetch
  <2> USE <1>3 DEF DaqFetch, Background, link
  <2>0. /\ daqq' = <<>> /\ InQueue(daqq') = {} /\ Distinct(daqq') /\ daqq' \in Seq(Slots)
        /\ cur' = Head(daqq) /\ cur' \in InQueue(daqq) /\ cur' \in Slots
    <3>1. daqq \in Seq(Slots) /\ Len(daqq) = 1
      BY DEF TypeOK, Turns
    <3>2. daqq # <<>>
      BY <3>1, RingEmpty
    <3>3. /\ daqq' = Tail(daqq) /\ daqq' \in Seq(Slots) /\ Len(daqq') = 0
          /\ Head(daqq) \in Slots /\ Head(daqq) \in InQueue(daqq)
      BY <3>1, <3>2, RingTake
    <3>4. daqq' = <<>>
      BY <3>3, RingEmpty
    <3>5. InQueue(daqq') = {} /\ Distinct(daqq')
      BY <3>4, RingEmpty
    <3> QED
      BY <3>3, <3>4, <3>5
  <2>1. TypeOK'
    BY <2>0, IdleIsNoMessage DEF TypeOK
  <2>2. Turns' /\ LinkBusy'
    BY <2>0, RingEmpty DEF Turns, LinkBusy, TypeOK
  <2>3. Apart'
    BY <2>0, IdleIsNoMessage DEF Apart, TypeOK
  <2>4. Taken'
    BY <2>0 DEF Taken, Held
  <2>5. KindsInPlace'
    BY <2>0 DEF KindsInPlace, DaqKinds, Outbound
  <2> QED
    BY <2>1, <2>2, <2>3, <2>4, <2>5
<1> QED
  BY <1>1, <1>2, <1>3

\* opto_cmio puts the slot in txq while the line is busy; when it is idle txq
\* is empty, and the slot's message goes out and the slot to the pool.
LEMMA CmioPasses ==
  ASSUME TypeOK, LinkBusy, cur \in Slots, Cmio
  PROVE  \/ wire # Idle /\ wire' = wire /\ msg' = msg /\ txq' = Put(txq, cur, TxQue)
         \/ /\ wire = Idle /\ txq = <<>> /\ txq' = <<>>
            /\ wire' = msg[cur] /\ msg' = [msg EXCEPT ![cur] = Idle]
<1>1. CASE wire # Idle
  BY <1>1 DEF Cmio
<1>2. CASE wire = Idle
  <2> DEFINE q == Put(txq, cur, TxQue)
  <2>1. txq = <<>> /\ Len(txq) + 1 # TxQue
    BY <1>2, RingEmpty, QueAssumption DEF LinkBusy
  <2>2. q = <<cur>>
    BY <2>1 DEF Put
  <2>3. q # <<>> /\ Head(q) = cur /\ Tail(q) = <<>>
    BY <2>2
  <2> QED
    BY <1>2, <2>1, <2>3 DEF Cmio
<1> QED
  BY <1>1, <1>2

\* cm_thread passes the slot on: to the link, to a server, or to cm_msg.
LEMMA RouteKeepsIInv ==
  ASSUME IInv, RouteOut \/ RouteCp \/ RouteDaq \/ RouteCm
  PROVE  IInv'
<1> USE DEF IInv
<1>0. /\ at = "route" /\ isr = None /\ turn = "cm" /\ cpq = <<>> /\ daqq = <<>>
      /\ cur \in Slots /\ new = None
      /\ cpq \in Seq(Slots) /\ daqq \in Seq(Slots) /\ txq \in Seq(Slots)
      /\ InQueue(cpq) = {} /\ InQueue(daqq) = {} /\ Distinct(cpq) /\ Distinct(daqq)
  BY RingEmpty DEF RouteOut, RouteCp, RouteDaq, RouteCm, Background, TypeOK, Turns
<1>1. CASE RouteOut
  <2>1. Turns' /\ at' = "fetch"
    BY <1>0, <1>1, NextTurnServes DEF RouteOut
  <2>2. /\ cur' = None /\ new' = None /\ isr' = None /\ msg[cur].kind \in Outbound
        /\ waiting' = waiting /\ cpq' = cpq /\ daqq' = daqq /\ hw' = hw
        /\ connected' = connected /\ running' = running /\ due' = due
    BY <1>0, <1>1 DEF RouteOut, Background
  <2>3. turn' \in {"cm", "cp", "daq"}
    BY <1>0, <1>1, NextTurnServes DEF RouteOut
  <2>4. CASE wire # Idle /\ wire' = wire /\ msg' = msg /\ txq' = Put(txq, cur, TxQue)
    <3>1. /\ txq' \in Seq(Slots) /\ InQueue(txq') \subseteq InQueue(txq) \cup {cur}
          /\ Distinct(txq')
      BY <1>0, <2>4, RingPut, IdleIsNoMessage DEF Apart
    <3>2. TypeOK'
      BY <2>1, <2>2, <2>3, <2>4, <3>1 DEF TypeOK
    <3>3. LinkBusy'
      BY <2>4 DEF LinkBusy
    <3>4. Apart'
      BY <1>0, <2>2, <3>1, IdleIsNoMessage DEF Apart
    <3>5. Taken'
      BY <2>2, <2>4, <3>1 DEF Taken, Held
    <3>6. KindsInPlace'
      BY <2>1, <2>2, <2>4, <3>1 DEF KindsInPlace
    <3> QED
      BY <2>1, <3>2, <3>3, <3>4, <3>5, <3>6
  <2>5. CASE /\ wire = Idle /\ txq = <<>> /\ txq' = <<>>
             /\ wire' = msg[cur] /\ msg' = [msg EXCEPT ![cur] = Idle]
    <3>1. txq' \in Seq(Slots) /\ InQueue(txq') = {} /\ Distinct(txq')
      BY <1>0, <2>5, RingEmpty
    <3>2. TypeOK'
      BY <1>0, <2>1, <2>2, <2>3, <2>5, <3>1 DEF TypeOK
    <3>3. LinkBusy'
      BY <2>5 DEF LinkBusy
    <3>4. Apart'
      BY <1>0, <2>2, <3>1, IdleIsNoMessage DEF Apart
    <3>5. Taken'
      <4>1. Held' \subseteq Held \ {cur} /\ Held \subseteq Slots
        BY <1>0, <2>2, <3>1, IdleIsNoMessage DEF Held, Apart, TypeOK, InQueue
      <4> QED
        BY <1>0, <2>5, <4>1 DEF Taken, TypeOK
    <3>6. KindsInPlace'
      BY <1>0, <2>1, <2>2, <2>5, <3>1 DEF KindsInPlace
    <3> QED
      BY <2>1, <3>2, <3>3, <3>4, <3>5, <3>6
  <2> QED
    BY <1>0, <1>1, <2>4, <2>5, CmioPasses DEF RouteOut
<1>2. CASE RouteCp
  <2> USE <1>2 DEF RouteCp, Background, link
  <2>1. /\ cpq' \in Seq(Slots) /\ InQueue(cpq') = {cur} /\ Distinct(cpq') /\ Len(cpq') = 1
    <3>1. cpq' = Put(cpq, cur, RxQue)
      OBVIOUS
    <3>2. Len(cpq) = 0 /\ Len(cpq) + 1 # RxQue
      BY <1>0, RingEmpty, QueAssumption
    <3>3. /\ cpq \in Seq(Slots) /\ cur \in Slots
          /\ InQueue(cpq) = {} /\ Distinct(cpq)
      BY <1>0
    <3> HIDE DEF RouteCp, RouteDaq
    <3>4. /\ cpq' \in Seq(Slots) /\ InQueue(cpq') = InQueue(cpq) \cup {cur}
          /\ Len(cpq') = 0 + 1
          /\ cur \notin InQueue(cpq) => Distinct(cpq')
      BY <3>1, <3>2, <3>3, RingPut
    <3> QED
      BY <3>3, <3>4
  <2>2. Turns' /\ at' = "fetch" /\ turn' \in {"cm", "cp", "daq"}
    BY <1>0, <2>1, NextTurnServes
  <2>3. TypeOK'
    BY <1>0, <2>1, <2>2 DEF TypeOK
  <2>4. Apart' /\ LinkBusy'
    BY <1>0, <2>1, IdleIsNoMessage DEF Apart, LinkBusy
  <2>5. Taken'
    BY <1>0, <2>1 DEF Taken, Held
  <2>6. KindsInPlace'
    BY <1>0, <2>1, <2>2 DEF KindsInPlace
  <2> QED
    BY <2>2, <2>3, <2>4, <2>5, <2>6
<1>3. CASE RouteDaq
  <2> USE <1>3 DEF RouteDaq, Background, link
  <2>1. /\ daqq' \in Seq(Slots) /\ InQueue(daqq') = {cur} /\ Distinct(daqq') /\ Len(daqq') = 1
    <3>1. daqq' = Put(daqq, cur, RxQue)
      OBVIOUS
    <3>2. Len(daqq) = 0 /\ Len(daqq) + 1 # RxQue
      BY <1>0, RingEmpty, QueAssumption
    <3>3. /\ daqq \in Seq(Slots) /\ cur \in Slots
          /\ InQueue(daqq) = {} /\ Distinct(daqq)
      BY <1>0
    <3> HIDE DEF RouteCp, RouteDaq
    <3>4. /\ daqq' \in Seq(Slots) /\ InQueue(daqq') = InQueue(daqq) \cup {cur}
          /\ Len(daqq') = 0 + 1
          /\ cur \notin InQueue(daqq) => Distinct(daqq')
      BY <3>1, <3>2, <3>3, RingPut
    <3> QED
      BY <3>3, <3>4
  <2>2. Turns' /\ at' = "fetch" /\ turn' \in {"cm", "cp", "daq"}
    BY <1>0, <2>1, NextTurnServes
  <2>3. TypeOK'
    BY <1>0, <2>1, <2>2 DEF TypeOK
  <2>4. Apart' /\ LinkBusy'
    BY <1>0, <2>1, IdleIsNoMessage DEF Apart, LinkBusy
  <2>5. Taken'
    BY <1>0, <2>1 DEF Taken, Held
  <2>6. KindsInPlace'
    BY <1>0, <2>1, <2>2 DEF KindsInPlace
  <2> QED
    BY <2>2, <2>3, <2>4, <2>5, <2>6
<1>4. CASE RouteCm
  <2> USE <1>4 DEF RouteCm, Background, queues, link
  <2>1. TypeOK' /\ Turns'
    BY <1>0 DEF TypeOK, Turns
  <2>2. Apart' /\ LinkBusy'
    BY <1>0 DEF Apart, LinkBusy
  <2>3. Taken'
    BY DEF Taken, Held
  <2>4. KindsInPlace'
    BY <1>0 DEF KindsInPlace, CmKinds, Outbound
  <2> QED
    BY <2>1, <2>2, <2>3, <2>4
<1> QED
  BY <1>1, <1>2, <1>3, <1>4

\* cm_msg, cp_msg and daq_msg take a slot for the answer, fill it and queue it,
\* or return without; then they free the slot of the request.
LEMMA HandleKeepsIInv ==
  ASSUME IInv, Compose \/ NoAnswer \/ Send \/ Release
  PROVE  IInv'
<1> USE DEF IInv
<1>0. /\ isr = None /\ cur \in Slots /\ cur # None /\ msg[cur] # Idle
      /\ cpq = <<>> /\ daqq = <<>>
  BY IdleIsNoMessage, RingEmpty
     DEF Compose, NoAnswer, Send, SendWith, Release, Background, TypeOK, Turns, Taken, Held
<1>1. CASE Compose
  <2> USE <1>1 DEF Compose, Background, queues, link
  <2>1. /\ Found \in Slots /\ msg[Found] = Idle /\ new = None
        /\ Found \notin Held
    BY FoundFree DEF Taken, TypeOK
  <2>2. PICK kind \in {"DONE", "PONG", "RSP"} :
          /\ msg' = [msg EXCEPT ![Found] = Msg(kind, None)]
          /\ kind = "DONE" <=> msg[cur].kind = "INT"
          /\ kind = "PONG" <=> msg[cur].kind = "PING"
    BY DEF Composed, Answered
  <2>3. /\ Msg(kind, None) \in Message /\ Msg(kind, None) # Idle
        /\ Msg(kind, None).kind = kind /\ Msg(kind, None).id = None
    BY DEF Msg, Message, Outbound, Idle
  <2>4. /\ msg'[Found] = Msg(kind, None)
        /\ \A s \in Slots : s # Found => msg'[s] = msg[s]
    BY <2>1, <2>2 DEF TypeOK
  <2>5. TypeOK'
    BY <2>1, <2>2, <2>3, IdleIsNoMessage DEF TypeOK
  <2>6. Turns' /\ LinkBusy'
    BY DEF Turns, LinkBusy
  <2>7. Apart'
    BY <1>0, <2>1, IdleIsNoMessage DEF Apart, Held
  <2>8. Taken'
    <3>1. Held' = Held \cup {Found} /\ Held \subseteq Slots
      BY <2>1, IdleIsNoMessage DEF Held, TypeOK, InQueue
    <3> QED
      BY <2>3, <2>4, <3>1 DEF Taken
  <2>9. KindsInPlace'
    <3>1. /\ InQueue(cpq) \subseteq Held /\ InQueue(daqq) \subseteq Held
          /\ InQueue(txq) \subseteq Held /\ Held \subseteq Slots /\ cur \in Held
      BY <1>0, IdleIsNoMessage DEF Held, TypeOK, InQueue
    <3> QED
      BY <1>0, <2>1, <2>2, <2>3, <2>4, <3>1 DEF KindsInPlace, Outbound
  <2> QED
    BY <2>5, <2>6, <2>7, <2>8, <2>9
<1>2. CASE NoAnswer
  <2> USE <1>2 DEF NoAnswer, Background, queues, link
  <2>1. TypeOK'
    BY DEF TypeOK
  <2>2. Turns' /\ LinkBusy' /\ Apart'
    BY DEF Turns, LinkBusy, Apart
  <2>3. Taken' /\ KindsInPlace'
    BY DEF Taken, Held, KindsInPlace
  <2> QED
    BY <2>1, <2>2, <2>3
<1>3. CASE Send
  <2> USE <1>3 DEF Send, SendWith, Background, queues, link
  <2>1. /\ new \in Slots /\ new # None /\ new # cur /\ new \in Held
        /\ msg[new] \in Message /\ new' = None
        /\ new \notin InQueue(cpq) \cup InQueue(daqq) \cup InQueue(txq)
    BY <1>0 DEF TypeOK, Apart, Taken, Held
  <2>2. CASE Refused
    <3>1. TypeOK'
      BY <2>1, <2>2 DEF TypeOK
    <3>2. Turns' /\ LinkBusy' /\ Apart'
      BY <1>0, <2>1, <2>2 DEF Turns, LinkBusy, Apart
    <3>3. Taken' /\ KindsInPlace'
      BY <2>1, <2>2 DEF Taken, Held, KindsInPlace
    <3> QED
      BY <3>1, <3>2, <3>3
  <2>3. CASE ~Refused
    <3>1. /\ msg' = [msg EXCEPT ![new].id = msg[cur].id] /\ waiting' = waiting \cup {new}
          /\ due' = due
      BY <2>3
    <3>2. /\ msg'[new] = [msg[new] EXCEPT !.id = msg[cur].id]
          /\ \A s \in Slots : s # new => msg'[s] = msg[s]
      BY <2>1, <3>1 DEF TypeOK
    <3>3. msg[cur].id \in Ids \cup {None}
      BY <1>0 DEF TypeOK, Message, Idle
    <3>4. /\ msg'[new] \in Message /\ msg'[new] # Idle /\ msg'[new].kind = msg[new].kind
      BY <2>1, <3>2, <3>3, IdleIsNoMessage DEF Message
    <3>5. msg' \in [Slots -> Message \cup {Idle}]
      BY <2>1, <3>1, <3>2, <3>4 DEF TypeOK
    <3>6. TypeOK'
      BY <2>1, <3>1, <3>5 DEF TypeOK
    <3>7. Turns' /\ LinkBusy' /\ Apart'
      BY <1>0, <2>1, <3>1 DEF Turns, LinkBusy, Apart
    <3>8. Taken'
      <4>1. Held' \subseteq Held /\ Held \subseteq Slots
        BY <2>1, <3>1, IdleIsNoMessage DEF Held, TypeOK, InQueue
      <4> QED
        BY <3>2, <3>4, <4>1 DEF Taken
    <3>9. KindsInPlace'
      <4>1. /\ InQueue(cpq) \subseteq Slots /\ InQueue(daqq) \subseteq Slots
            /\ InQueue(txq) \subseteq Slots
        BY DEF TypeOK, InQueue
      <4> QED
        BY <1>0, <2>1, <3>1, <3>2, <4>1 DEF KindsInPlace
    <3> QED
      BY <3>6, <3>7, <3>8, <3>9
  <2> QED
    BY <2>2, <2>3
<1>4. CASE Release
  <2> USE <1>4 DEF Release, Background, link
  <2>1. /\ cpq' = cpq /\ daqq' = daqq /\ txq' = txq /\ cur' = None /\ new' = None
        /\ wire' = wire /\ isr' = isr /\ hw' = hw
    BY <1>0 DEF queues, TypeOK
  <2>2. Turns' /\ at' = "fetch" /\ turn' \in {"cm", "cp", "daq"}
    BY <1>0, <2>1, NextTurnServes
  <2>3. TypeOK'
    BY <1>0, <2>1, <2>2 DEF TypeOK, queues
  <2>4. Apart' /\ LinkBusy'
    BY <1>0, <2>1 DEF Apart, LinkBusy
  <2>5. Held' \subseteq Held \ {cur} /\ Held \subseteq Slots
    BY <1>0, <2>1, IdleIsNoMessage DEF Held, Apart, TypeOK, InQueue
  <2>6. Taken'
    BY <2>5 DEF Taken, TypeOK
  <2>7. KindsInPlace'
    <3>1. InQueue(cpq) \cup InQueue(daqq) \cup InQueue(txq) \subseteq Slots \ {cur}
      BY <1>0 DEF TypeOK, InQueue, Apart
    <3> QED
      BY <1>0, <2>1, <2>2, <3>1 DEF KindsInPlace
  <2> QED
    BY <2>2, <2>3, <2>4, <2>6, <2>7
<1> QED
  BY <1>1, <1>2, <1>3, <1>4

\* The host's requests, the link's handler, the end of a transmission and the
\* ping timeout.
LEMMA LinkKeepsIInv ==
  ASSUME IInv, \/ RxTake \/ IsrQueue \/ PipeInt \/ TxEnd \/ Tick
               \/ \E kind \in Kinds, id \in Ids : Request(kind, id)
  PROVE  IInv'
<1> USE DEF IInv
<1>0. /\ InQueue(cpq) \subseteq Held /\ InQueue(daqq) \subseteq Held /\ InQueue(txq) \subseteq Held
      /\ Held \subseteq Slots
      /\ cur # None => cur \in Held
      /\ new # None => new \in Held
      /\ isr # None => isr \in Held
      /\ at # "fetch" => cur \in Held
      /\ at = "send" => new \in Held
  BY IdleIsNoMessage DEF Held, TypeOK, InQueue
<1>1. ASSUME NEW kind \in Kinds, NEW id \in Ids, Request(kind, id) PROVE IInv'
  <2> USE <1>1 DEF Request, queues, bg
  <2>1. Msg(kind, id) \in Message /\ kind \in Requests /\ Msg(kind, id).kind = kind
    BY KindsAssumption DEF Msg, Message
  <2>2. /\ hw' \in Seq(Message) /\ Len(hw') = Len(hw) + 1 /\ Len(hw) \in Nat
        /\ DOMAIN hw' = 1..Len(hw) + 1 /\ DOMAIN hw = 1..Len(hw)
        /\ \A i \in DOMAIN hw : hw'[i] = hw[i]
        /\ hw'[Len(hw) + 1] = Msg(kind, id)
    BY <2>1, AppendProperties, LenProperties DEF TypeOK
  <2>3. Len(hw') <= Frames
    BY <2>2, FramesAssumption
  <2>4. due' \subseteq Ids
    BY DEF TypeOK
  <2>5. TypeOK'
    BY <2>2, <2>3, <2>4 DEF TypeOK
  <2>6. Turns' /\ LinkBusy' /\ Apart'
    BY DEF Turns, LinkBusy, Apart
  <2>7. Taken'
    BY DEF Taken, Held
  <2>8. \A i \in DOMAIN hw' : hw'[i].kind \in Requests
    <3>1. ASSUME NEW i \in DOMAIN hw' PROVE hw'[i].kind \in Requests
      <4>1. i \in DOMAIN hw \/ i = Len(hw) + 1
        BY <2>2
      <4> QED
        BY <2>1, <2>2, <4>1 DEF KindsInPlace
    <3> QED
      BY <3>1
  <2>9. KindsInPlace'
    BY <2>8 DEF KindsInPlace
  <2> QED
    BY <2>5, <2>6, <2>7, <2>9
<1>2. CASE RxTake
  <2> USE <1>2 DEF RxTake, queues, bg
  <2>1. Found \in Slots /\ msg[Found] = Idle /\ Found \notin Held /\ Found # None
    BY FoundFree, IdleIsNoMessage DEF Taken
  <2>2. /\ Head(hw) \in Message /\ Head(hw).kind \in Requests /\ hw' \in Seq(Message)
        /\ Len(hw') <= Frames /\ \A i \in DOMAIN hw' : hw'[i].kind \in Requests
    <3>1. /\ hw \in Seq(Message) /\ hw # <<>> /\ Len(hw) \in Nat \ {0} /\ DOMAIN hw = 1..Len(hw)
          /\ Head(hw) = hw[1]
      BY EmptySeq, LenProperties DEF TypeOK
    <3>2. /\ Head(hw) \in Message /\ Tail(hw) \in Seq(Message) /\ Len(Tail(hw)) = Len(hw) - 1
          /\ \A i \in 1..Len(Tail(hw)) : Tail(hw)[i] = hw[i + 1]
          /\ DOMAIN Tail(hw) = 1..Len(Tail(hw))
      BY <3>1, HeadTailProperties, LenProperties
    <3>3. hw' = Tail(hw) /\ Len(hw) <= Frames /\ \A i \in DOMAIN hw : hw[i].kind \in Requests
      BY DEF TypeOK, KindsInPlace
    <3> QED
      BY <3>1, <3>2, <3>3, FramesAssumption
  <2>3. /\ msg'[Found] = Head(hw) /\ msg' \in [Slots -> Message \cup {Idle}]
        /\ \A s \in Slots : s # Found => msg'[s] = msg[s]
    BY <2>1, <2>2 DEF TypeOK
  <2>4. TypeOK'
    BY <2>1, <2>2, <2>3 DEF TypeOK
  <2>5. Turns' /\ LinkBusy'
    BY DEF Turns, LinkBusy
  <2>6. Apart'
    BY <1>0, <2>1, IdleIsNoMessage DEF Apart, Held
  <2>7. Taken'
    <3>1. Held' = Held \cup {Found}
      BY <2>1 DEF Held
    <3> QED
      BY <1>0, <2>2, <2>3, <3>1, IdleIsNoMessage DEF Taken
  <2>8. KindsInPlace'
    <3>1. \A s \in Held : msg'[s] = msg[s]
      BY <1>0, <2>1, <2>3
    <3>2. isr' = Found /\ msg'[isr'].kind \in Requests
      BY <2>2, <2>3
    <3> QED
      BY <1>0, <2>2, <3>1, <3>2 DEF KindsInPlace
  <2> QED
    BY <2>4, <2>5, <2>6, <2>7, <2>8
<1>3. CASE IsrQueue
  <2> USE <1>3 DEF IsrQueue, queues, bg
  <2>1. TypeOK'
    BY DEF TypeOK
  <2>2. Turns' /\ LinkBusy'
    BY DEF Turns, LinkBusy
  <2>3. Apart'
    <3>1. isr \notin {cur, new} \cup InQueue(cpq) \cup InQueue(daqq) \cup InQueue(txq)
      BY DEF Apart
    <3>2. None \notin waiting \cup InQueue(cpq) \cup InQueue(daqq) \cup InQueue(txq)
      BY <1>0, IdleIsNoMessage DEF TypeOK
    <3> QED
      BY <3>1, <3>2 DEF Apart
  <2>4. Taken' /\ KindsInPlace'
    BY DEF Taken, Held, KindsInPlace
  <2> QED
    BY <2>1, <2>2, <2>3, <2>4
<1>4. CASE PipeInt
  <2> USE <1>4 DEF PipeInt, queues, bg
  <2>1. CASE Free # {}
    <3>1. Found \in Slots /\ msg[Found] = Idle /\ Found \notin Held /\ Found # None
      BY <2>1, FoundFree, IdleIsNoMessage DEF Taken
    <3>2. Msg("INT", None) \in Message /\ Msg("INT", None).kind = "INT"
      BY DEF Msg, Message
    <3>3. /\ msg'[Found] = Msg("INT", None) /\ msg' \in [Slots -> Message \cup {Idle}]
          /\ \A s \in Slots : s # Found => msg'[s] = msg[s]
          /\ isr' = Found
      BY <2>1, <3>1, <3>2 DEF TypeOK
    <3>4. TypeOK'
      BY <3>1, <3>3 DEF TypeOK
    <3>5. Turns' /\ LinkBusy'
      BY DEF Turns, LinkBusy
    <3>6. Apart'
      BY <1>0, <3>1, <3>3, IdleIsNoMessage DEF Apart, Held
    <3>7. Taken'
      <4>1. Held' = Held \cup {Found}
        BY <3>1, <3>3 DEF Held
      <4>2. Msg("INT", None) # Idle
        BY <3>2, IdleIsNoMessage
      <4> QED
        BY <1>0, <3>3, <4>1, <4>2 DEF Taken
    <3>8. KindsInPlace'
      <4>1. \A s \in Held : msg'[s] = msg[s]
        BY <1>0, <3>1, <3>3
      <4>2. msg'[isr'].kind = "INT"
        BY <3>2, <3>3
      <4> QED
        BY <1>0, <4>1, <4>2 DEF KindsInPlace
    <3> QED
      BY <3>4, <3>5, <3>6, <3>7, <3>8
  <2>2. CASE Free = {}
    <3>1. TypeOK'
      BY <2>2 DEF TypeOK
    <3>2. Turns' /\ LinkBusy' /\ Apart'
      BY <2>2 DEF Turns, LinkBusy, Apart
    <3>3. Taken' /\ KindsInPlace'
      BY <2>2 DEF Taken, Held, KindsInPlace
    <3> QED
      BY <3>1, <3>2, <3>3
  <2> QED
    BY <2>1, <2>2
<1>5. CASE TxEnd
  <2> USE <1>5 DEF TxEnd, bg
  <2>0. txq \in Seq(Slots)
    BY DEF TypeOK
  <2>1. CASE txq # <<>>
    <3> DEFINE s == Head(txq)
    <3>1. /\ s \in Slots /\ txq' \in Seq(Slots) /\ s \in InQueue(txq)
          /\ InQueue(txq') \subseteq InQueue(txq) \ {s} /\ Distinct(txq')
          /\ wire' = msg[s] /\ msg' = [msg EXCEPT ![s] = Idle]
      <4>1. txq' = Tail(txq) /\ wire' = msg[s] /\ msg' = [msg EXCEPT ![s] = Idle]
        BY <2>1
      <4>2. Distinct(txq)
        BY DEF Apart
      <4> QED
        BY <2>0, <2>1, <4>1, <4>2, RingTake
    <3> HIDE <1>5 DEF s, TxEnd
    <3>0. /\ cpq' = cpq /\ daqq' = daqq /\ waiting' = waiting /\ turn' = turn /\ at' = at
          /\ cur' = cur /\ new' = new /\ isr' = isr /\ isr = None /\ hw' = hw
          /\ connected' = connected /\ running' = running /\ due' \subseteq due
      BY <1>5 DEF TxEnd
    <3>2. msg[s] \in Message /\ msg[s] # Idle
      <4>1. s \in Held
        BY <1>0, <3>1
      <4> QED
        BY <3>1, <4>1 DEF Taken, TypeOK
    <3>3. TypeOK'
      BY <3>0, <3>1, <3>2 DEF TypeOK
    <3>4. Turns' /\ LinkBusy'
      BY <3>0, <3>1, <3>2 DEF Turns, LinkBusy
    <3>5. Apart'
      BY <3>0, <3>1 DEF Apart
    <3>6. Held' \subseteq Held \ {s}
      BY <3>0, <3>1 DEF Held, Apart
    <3>7. Taken'
      BY <1>0, <3>1, <3>6 DEF Taken, TypeOK
    <3>8. KindsInPlace'
      <4>1. \A t \in Held \ {s} : msg'[t] = msg[t]
        BY <1>0, <3>1 DEF TypeOK
      <4>2. /\ InQueue(cpq) \subseteq Held \ {s} /\ InQueue(daqq) \subseteq Held \ {s}
            /\ InQueue(txq') \subseteq Held \ {s}
        BY <1>0, <3>1 DEF Apart
      <4>3. /\ at # "fetch" => cur \in Held \ {s}
            /\ at = "send" => new \in Held \ {s}
        BY <1>0, <3>1 DEF Apart
      <4> QED
        BY <3>0, <3>1, <4>1, <4>2, <4>3 DEF KindsInPlace
    <3> QED
      BY <3>3, <3>4, <3>5, <3>7, <3>8
  <2>2. CASE txq = <<>>
    <3>1. wire' = Idle /\ txq' = txq /\ msg' = msg
      BY <2>2
    <3>2. TypeOK'
      BY <3>1 DEF TypeOK
    <3>3. Turns' /\ LinkBusy' /\ Apart'
      BY <2>2, <3>1 DEF Turns, LinkBusy, Apart
    <3>4. Taken' /\ KindsInPlace'
      BY <3>1 DEF Taken, Held, KindsInPlace
    <3> QED
      BY <3>2, <3>3, <3>4
  <2> QED
    BY <2>1, <2>2
<1>6. CASE Tick
  <2> USE <1>6 DEF Tick, queues, bg, link
  <2>1. TypeOK'
    BY DEF TypeOK
  <2>2. Turns' /\ LinkBusy' /\ Apart'
    BY DEF Turns, LinkBusy, Apart
  <2>3. Taken' /\ KindsInPlace'
    BY DEF Taken, Held, KindsInPlace
  <2> QED
    BY <2>1, <2>2, <2>3
<1> QED
  BY <1>1, <1>2, <1>3, <1>4, <1>5, <1>6

\* Every step of the loop, the handler, the line, the timer and the host keeps
\* the invariant.
LEMMA StepKeepsIInv == IInv /\ [Next]_vars => IInv'
<1> SUFFICES ASSUME IInv, [Next]_vars PROVE IInv'
  OBVIOUS
<1>1. CASE Next
  BY <1>1, FetchKeepsIInv, RouteKeepsIInv, HandleKeepsIInv, LinkKeepsIInv DEF Next, Loop, Isr
<1>2. CASE UNCHANGED vars
  BY <1>2 DEF vars, queues, bg, link, IInv, TypeOK, Turns, Apart, Taken, Held, KindsInPlace,
              LinkBusy
<1> QED
  BY <1>1, <1>2

\* The invariant holds in every state.
LEMMA SpecIInv == Spec => []IInv
  BY InitIInv, StepKeepsIInv, PTL DEF Spec

\* Slots, rings, places and histories keep their types, also when a ring
\* overruns.
THEOREM TypeCorrect == Spec => []TypeOK
<1>1. IInv => TypeOK
  BY DEF IInv
<1> QED
  BY <1>1, SpecIInv, PTL

\* cp_qmsg and daq_qmsg need no test for room: whatever arrives and when, the
\* two rings never hold more than one message between them.
THEOREM RingsServed == Spec => []ServersKeepUp
<1>1. IInv => ServersKeepUp
  <2> SUFFICES ASSUME IInv PROVE ServersKeepUp
    OBVIOUS
  <2>1. /\ Len(cpq) \in Nat /\ Len(daqq) \in Nat
        /\ cpq = <<>> => Len(cpq) = 0
        /\ daqq = <<>> => Len(daqq) = 0
    BY RingEmpty DEF IInv, TypeOK
  <2>2. CASE turn = "cm"
    <3>1. Len(cpq) = 0 /\ Len(daqq) = 0
      BY <2>1, <2>2 DEF IInv, Turns
    <3> QED
      BY <3>1 DEF ServersKeepUp
  <2>3. CASE turn = "cp"
    <3>1. Len(cpq) <= 1 /\ Len(daqq) = 0
      BY <2>1, <2>3 DEF IInv, Turns
    <3> QED
      BY <2>1, <3>1 DEF ServersKeepUp
  <2>4. CASE turn = "daq"
    <3>1. cpq = <<>> /\ Len(daqq) \in {0, 1}
      BY <2>4 DEF IInv, Turns
    <3>2. Len(cpq) = 0
      BY <2>1, <3>1
    <3> QED
      BY <3>1, <3>2 DEF ServersKeepUp
  <2>5. turn \in {"cm", "cp", "daq"}
    BY DEF IInv, TypeOK
  <2> QED
    BY <2>2, <2>3, <2>4, <2>5
<1> QED
  BY <1>1, SpecIInv, PTL

-----------------------------------------------------------------------------
(***************************************************************************)
(* Slots: every step moves one of them at most, as the pool promises, while *)
(* the link's ring has room.                                               *)
(***************************************************************************)

\* "place" says where a slot is, since it is in one place only.
PlaceSound ==
  \A s \in Slots :
    /\ msg[s] = Idle <=> place[s] = "pool"
    /\ s \in waiting => place[s] = "waiting"
    /\ s \in {cur, new} => place[s] = "bg"
    /\ s = isr => place[s] = "isr"
    /\ s \in InQueue(cpq) => place[s] = "cp"
    /\ s \in InQueue(daqq) => place[s] = "daq"
    /\ s \in InQueue(txq) => place[s] = "tx"
    /\ place[s] = "lost" <=> s \notin Held /\ msg[s] # Idle

\* The place that the refinement mapping gives a slot is where the state has it.
LEMMA PlaceFaithful == IInv => PlaceSound
<1> SUFFICES ASSUME IInv, NEW s \in Slots
             PROVE  /\ msg[s] = Idle <=> place[s] = "pool"
                    /\ s \in waiting => place[s] = "waiting"
                    /\ s \in {cur, new} => place[s] = "bg"
                    /\ s = isr => place[s] = "isr"
                    /\ s \in InQueue(cpq) => place[s] = "cp"
                    /\ s \in InQueue(daqq) => place[s] = "daq"
                    /\ s \in InQueue(txq) => place[s] = "tx"
                    /\ place[s] = "lost" <=> s \notin Held /\ msg[s] # Idle
  BY DEF PlaceSound
<1>1. s # None
  BY IdleIsNoMessage
<1>2. s \in Held => msg[s] # Idle
  BY DEF IInv, Taken
<1>3. s \in Held <=> \/ s \in waiting \/ s \in {cur, new} \/ s = isr
                     \/ s \in InQueue(cpq) \/ s \in InQueue(daqq) \/ s \in InQueue(txq)
  BY <1>1 DEF Held
<1>4. /\ s \in waiting => s \notin {cur, new} /\ s # isr
      /\ s \in {cur, new} => s # isr
      /\ s \in InQueue(cpq) => s \notin waiting /\ s \notin {cur, new} /\ s # isr
      /\ s \in InQueue(daqq) => /\ s \notin waiting /\ s \notin {cur, new} /\ s # isr
                                /\ s \notin InQueue(cpq)
      /\ s \in InQueue(txq) => /\ s \notin waiting /\ s \notin {cur, new} /\ s # isr
                               /\ s \notin InQueue(cpq) /\ s \notin InQueue(daqq)
  BY <1>1 DEF IInv, Apart
<1>5. place[s] = CASE msg[s] = Idle       -> "pool"
                   [] s \in waiting       -> "waiting"
                   [] s \in {cur, new}    -> "bg"
                   [] s = isr             -> "isr"
                   [] s \in InQueue(cpq)  -> "cp"
                   [] s \in InQueue(daqq) -> "daq"
                   [] s \in InQueue(txq)  -> "tx"
                   [] OTHER               -> "lost"
  BY DEF place
<1>6. CASE msg[s] = Idle
  BY <1>2, <1>3, <1>5, <1>6
<1>7. CASE msg[s] # Idle /\ s \in Held
  BY <1>3, <1>4, <1>5, <1>7
<1>8. CASE msg[s] # Idle /\ s \notin Held
  BY <1>3, <1>5, <1>8
<1> QED
  BY <1>6, <1>7, <1>8

\* A step does nothing to slot t.
Same(t) ==
  /\ msg'[t] = Idle <=> msg[t] = Idle
  /\ t \in waiting' <=> t \in waiting
  /\ t \in {cur', new'} <=> t \in {cur, new}
  /\ t = isr' <=> t = isr
  /\ t \in InQueue(cpq') <=> t \in InQueue(cpq)
  /\ t \in InQueue(daqq') <=> t \in InQueue(daqq)
  /\ t \in InQueue(txq') <=> t \in InQueue(txq)
  /\ t \notin Held => msg'[t] = msg[t]

OnlyMoves(s) == \A t \in Slots \ {s} : Same(t)

\* What a slot may do in a step, and what it is when it is lost.
Having == {"bg", "isr", "cp", "daq", "tx", "lost"}
Moves(s) ==
  /\ OnlyMoves(s)
  /\ \/ place[s] = "pool" /\ place'[s] \in Having
     \/ place[s] \in Having /\ place'[s] \in Having \cup {"waiting", "pool"}
     \/ place[s] = "waiting" /\ place'[s] = "bg"
  /\ place'[s] = "lost" => msg'[s] = Msg("PONG", None)

\* A slot that the step leaves where it is keeps its place.
LEMMA SameStays == ASSUME NEW t \in Slots, Same(t) PROVE place'[t] = place[t]
<1>1. /\ msg'[t] = Idle <=> msg[t] = Idle
      /\ t \in waiting' <=> t \in waiting
      /\ t \in {cur', new'} <=> t \in {cur, new}
      /\ t = isr' <=> t = isr
      /\ t \in InQueue(cpq') <=> t \in InQueue(cpq)
      /\ t \in InQueue(daqq') <=> t \in InQueue(daqq)
      /\ t \in InQueue(txq') <=> t \in InQueue(txq)
  BY DEF Same
<1> QED
  BY <1>1 DEF place

\* Such a step is one of the pool's, and leaks nothing but a refused answer.
LEMMA MovesInPool ==
  ASSUME IInv, IInv', PlaceSound, PlaceSound', LostInv, NEW s \in Slots, Moves(s)
  PROVE  LostInv' /\ Pool!Next
<1>1. \A t \in Slots \ {s} : place'[t] = place[t]
  BY SameStays DEF Moves, OnlyMoves
<1>2. place' = [place EXCEPT ![s] = place'[s]]
  <2>1. place = [t \in Slots |-> place[t]] /\ place' = [t \in Slots |-> place'[t]]
    BY DEF place
  <2> QED
    BY <1>1, <2>1
<1>3. LostInv'
  <2>1. ASSUME NEW t \in Slots, place'[t] = "lost" PROVE msg'[t] = Msg("PONG", None)
    <3>1. CASE t = s
      BY <2>1, <3>1 DEF Moves
    <3>2. CASE t # s
      <4>1. place[t] = "lost"
        BY <1>1, <2>1, <3>2
      <4>2. msg[t] = Msg("PONG", None) /\ t \notin Held
        BY <4>1 DEF PlaceSound, LostInv
      <4> QED
        BY <3>2, <4>2 DEF Moves, OnlyMoves, Same
    <3> QED
      BY <3>1, <3>2
  <2> QED
    BY <2>1 DEF LostInv, PlaceSound
<1>4. Pool!Next
  <2> DEFINE to == place'[s]
  <2>1. place' = [place EXCEPT ![s] = to]
    BY <1>2
  <2>2. CASE place[s] = "pool" /\ to \in Having
    BY <2>1, <2>2 DEF Pool!Next, Pool!Take, Pool!Move, Having
  <2>3. CASE place[s] \in Having /\ to \in Having
    BY <2>1, <2>3 DEF Pool!Next, Pool!Pass, Pool!Move, Having
  <2>4. CASE place[s] \in Having /\ to = "waiting"
    BY <2>1, <2>4 DEF Pool!Next, Pool!Post, Pool!Move, Having
  <2>5. CASE place[s] \in Having /\ to = "pool"
    BY <2>1, <2>5 DEF Pool!Next, Pool!GiveBack, Pool!Move, Having
  <2>6. CASE place[s] = "waiting" /\ to = "bg"
    BY <2>1, <2>6 DEF Pool!Next, Pool!Fetch, Pool!Move
  <2> QED
    BY <2>2, <2>3, <2>4, <2>5, <2>6 DEF Moves
<1> QED
  BY <1>3, <1>4

\* The loop's steps.
LEMMA LoopMoves ==
  ASSUME IInv, IInv', PlaceSound, PlaceSound', TxRoom, Loop
  PROVE  (\E s \in Slots : Moves(s)) \/ \A s \in Slots : Same(s)
<1>0. /\ cur \in Slots \cup {None} /\ new \in Slots \cup {None} /\ isr \in Slots \cup {None}
      /\ cur = None <=> at = "fetch"
      /\ new # None <=> at = "send"
      /\ cpq \in Seq(Slots) /\ daqq \in Seq(Slots) /\ txq \in Seq(Slots)
      /\ msg \in [Slots -> Message \cup {Idle}] /\ None \notin Slots
      /\ Distinct(cpq) /\ Distinct(daqq) /\ Distinct(txq)
  BY IdleIsNoMessage DEF IInv, TypeOK, Apart
<1>1. ASSUME NEW s \in Slots, Fetch(s) PROVE Moves(s)
  <2>1. /\ waiting' = waiting \ {s} /\ cur' = s /\ cur = None /\ new' = new /\ msg' = msg
        /\ isr' = isr /\ cpq' = cpq /\ daqq' = daqq /\ txq' = txq /\ s \in waiting
    BY <1>0, <1>1 DEF Fetch, Background, queues, link
  <2>2. OnlyMoves(s)
    BY <1>0, <2>1 DEF OnlyMoves, Same
  <2>3. place[s] = "waiting" /\ place'[s] = "bg"
    BY <2>1 DEF PlaceSound
  <2> QED
    BY <2>2, <2>3 DEF Moves
<1>2. ASSUME CpFetch PROVE \E s \in Slots : Moves(s)
  <2>1. /\ waiting' = waiting /\ cur' = Head(cpq) /\ cur = None /\ new' = new /\ msg' = msg
        /\ isr' = isr /\ cpq' = Tail(cpq) /\ daqq' = daqq /\ txq' = txq
    BY <1>0, <1>2 DEF CpFetch, Background, link
  <2>2. cpq # <<>>
    <3>1. cpq \in Seq(Slots) /\ Len(cpq) = 1
      BY <1>0, <1>2 DEF CpFetch, Background, IInv, Turns
    <3> QED
      BY <3>1, RingLen
  <2>3. /\ cur' \in Slots /\ cur' \in InQueue(cpq) /\ InQueue(cpq') = InQueue(cpq) \ {cur'}
    BY <1>0, <2>1, <2>2, RingTake
  <2>4. OnlyMoves(cur')
    BY <1>0, <2>1, <2>3 DEF OnlyMoves, Same
  <2>5. place[cur'] = "cp" /\ place'[cur'] = "bg"
    BY <2>3 DEF PlaceSound
  <2> QED
    BY <2>3, <2>4, <2>5 DEF Moves, Having
<1>3. ASSUME DaqFetch PROVE \E s \in Slots : Moves(s)
  <2>1. /\ waiting' = waiting /\ cur' = Head(daqq) /\ cur = None /\ new' = new /\ msg' = msg
        /\ isr' = isr /\ cpq' = cpq /\ daqq' = Tail(daqq) /\ txq' = txq
    BY <1>0, <1>3 DEF DaqFetch, Background, link
  <2>2. daqq # <<>>
    <3>1. daqq \in Seq(Slots) /\ Len(daqq) = 1
      BY <1>0, <1>3 DEF DaqFetch, Background, IInv, Turns
    <3> QED
      BY <3>1, RingLen
  <2>3. /\ cur' \in Slots /\ cur' \in InQueue(daqq) /\ InQueue(daqq') = InQueue(daqq) \ {cur'}
    BY <1>0, <2>1, <2>2, RingTake
  <2>4. OnlyMoves(cur')
    BY <1>0, <2>1, <2>3 DEF OnlyMoves, Same
  <2>5. place[cur'] = "daq" /\ place'[cur'] = "bg"
    BY <2>3 DEF PlaceSound
  <2> QED
    BY <2>3, <2>4, <2>5 DEF Moves, Having
<1>4. ASSUME RouteOut PROVE Moves(cur) /\ cur \in Slots
  <2>1. /\ cur \in Slots /\ cur' = None /\ new' = new /\ new = None /\ waiting' = waiting
        /\ cpq' = cpq /\ daqq' = daqq /\ isr' = isr /\ Cmio /\ Len(txq) + 1 # TxQue
    BY <1>0, <1>4 DEF RouteOut, Background, TxRoom
  <2>2. place[cur] = "bg"
    BY <2>1 DEF PlaceSound
  <2>3. CASE wire # Idle /\ wire' = wire /\ msg' = msg /\ txq' = Put(txq, cur, TxQue)
    <3>1. InQueue(txq') = InQueue(txq) \cup {cur}
      BY <1>0, <2>1, <2>3, RingPut
    <3>2. OnlyMoves(cur)
      BY <1>0, <2>1, <2>3, <3>1 DEF OnlyMoves, Same
    <3>3. place'[cur] = "tx"
      BY <2>1, <3>1 DEF PlaceSound
    <3> QED
      BY <2>1, <2>2, <3>2, <3>3 DEF Moves, Having
  <2>4. CASE /\ wire = Idle /\ txq = <<>> /\ txq' = <<>>
             /\ wire' = msg[cur] /\ msg' = [msg EXCEPT ![cur] = Idle]
    <3>1. InQueue(txq') = InQueue(txq)
      BY <2>4
    <3>2. msg'[cur] = Idle /\ \A t \in Slots \ {cur} : msg'[t] = msg[t]
      BY <1>0, <2>1, <2>4
    <3>3. OnlyMoves(cur)
      BY <1>0, <2>1, <3>1, <3>2 DEF OnlyMoves, Same
    <3>4. place'[cur] = "pool"
      BY <2>1, <3>2 DEF PlaceSound
    <3> QED
      BY <2>1, <2>2, <3>3, <3>4 DEF Moves, Having
  <2> QED
    BY <2>1, <2>3, <2>4, CmioPasses DEF IInv
<1>5. ASSUME RouteCp PROVE Moves(cur) /\ cur \in Slots
  <2>1. /\ cur \in Slots /\ cur' = None /\ new' = new /\ new = None /\ waiting' = waiting
        /\ daqq' = daqq /\ txq' = txq /\ isr' = isr /\ msg' = msg
        /\ cpq' = Put(cpq, cur, RxQue) /\ cpq = <<>>
    BY <1>0, <1>5 DEF RouteCp, Background, link, IInv, Turns
  <2>2. InQueue(cpq') = InQueue(cpq) \cup {cur}
    <3>1. Len(cpq) + 1 # RxQue
      BY <2>1, RingEmpty, QueAssumption
    <3> QED
      BY <1>0, <2>1, <3>1, RingPut
  <2>3. OnlyMoves(cur)
    BY <1>0, <2>1, <2>2 DEF OnlyMoves, Same
  <2>4. place[cur] = "bg" /\ place'[cur] = "cp"
    BY <2>1, <2>2 DEF PlaceSound
  <2> QED
    BY <2>1, <2>3, <2>4 DEF Moves, Having
<1>6. ASSUME RouteDaq PROVE Moves(cur) /\ cur \in Slots
  <2>1. /\ cur \in Slots /\ cur' = None /\ new' = new /\ new = None /\ waiting' = waiting
        /\ cpq' = cpq /\ txq' = txq /\ isr' = isr /\ msg' = msg
        /\ daqq' = Put(daqq, cur, RxQue) /\ daqq = <<>>
    BY <1>0, <1>6 DEF RouteDaq, Background, link, IInv, Turns
  <2>2. InQueue(daqq') = InQueue(daqq) \cup {cur}
    <3>1. Len(daqq) + 1 # RxQue
      BY <2>1, RingEmpty, QueAssumption
    <3> QED
      BY <1>0, <2>1, <3>1, RingPut
  <2>3. OnlyMoves(cur)
    BY <1>0, <2>1, <2>2 DEF OnlyMoves, Same
  <2>4. place[cur] = "bg" /\ place'[cur] = "daq"
    BY <2>1, <2>2 DEF PlaceSound
  <2> QED
    BY <2>1, <2>3, <2>4 DEF Moves, Having
<1>7. ASSUME RouteCm \/ NoAnswer PROVE \A s \in Slots : Same(s)
  BY <1>7 DEF RouteCm, NoAnswer, queues, link, Same
<1>8. ASSUME Compose PROVE Moves(Found) /\ Found \in Slots
  <2>1. /\ Found \in Slots /\ msg[Found] = Idle /\ new = None /\ new' = Found
        /\ cur' = cur /\ waiting' = waiting /\ isr' = isr
        /\ cpq' = cpq /\ daqq' = daqq /\ txq' = txq
        /\ \A t \in Slots \ {Found} : msg'[t] = msg[t]
    BY <1>0, <1>8, FoundFree DEF Compose, Background, queues, link
  <2>2. OnlyMoves(Found)
    BY <1>0, <2>1 DEF OnlyMoves, Same
  <2>3. place[Found] = "pool" /\ place'[Found] = "bg"
    BY <2>1 DEF PlaceSound
  <2> QED
    BY <2>1, <2>2, <2>3 DEF Moves, Having
<1>9. ASSUME Send PROVE Moves(new) /\ new \in Slots
  <2>1. /\ new \in Slots /\ new' = None /\ cur' = cur /\ isr' = isr /\ new # cur
        /\ cpq' = cpq /\ daqq' = daqq /\ txq' = txq
        /\ place[new] = "bg" /\ msg[new] # Idle
        /\ new \notin InQueue(cpq) \cup InQueue(daqq) \cup InQueue(txq) /\ new # isr
    BY <1>0, <1>9 DEF Send, SendWith, Background, queues, link, PlaceSound, IInv, Apart
  <2>2. CASE Refused
    <3>1. msg' = msg /\ waiting' = waiting /\ msg[cur].kind = "PING"
      BY <1>9, <2>2 DEF Send, SendWith, Refused
    <3>2. OnlyMoves(new)
      BY <1>0, <2>1, <3>1 DEF OnlyMoves, Same
    <3>3. place'[new] \in {"waiting", "lost"}
      <4>1. new \in waiting' \/ new \notin Held'
        BY <1>0, <2>1, <3>1 DEF Held
      <4> QED
        BY <2>1, <3>1, <4>1 DEF PlaceSound
    <3>4. msg'[new] = Msg("PONG", None)
      <4>1. msg[new].kind = "PONG" /\ msg[new].id = None /\ msg[new] \in Message
        BY <1>0, <1>9, <2>1, <3>1 DEF Send, SendWith, Background, IInv, KindsInPlace
      <4> QED
        BY <3>1, <4>1 DEF Msg, Message
    <3> QED
      BY <2>1, <3>2, <3>3, <3>4 DEF Moves, Having
  <2>3. CASE ~Refused
    <3>1. waiting' = waiting \cup {new} /\ \A t \in Slots \ {new} : msg'[t] = msg[t]
      BY <1>0, <1>9, <2>3 DEF Send, SendWith
    <3>2. OnlyMoves(new)
      BY <1>0, <2>1, <3>1 DEF OnlyMoves, Same
    <3>3. place'[new] = "waiting"
      BY <2>1, <3>1 DEF PlaceSound
    <3> QED
      BY <2>1, <3>2, <3>3 DEF Moves, Having
  <2> QED
    BY <2>1, <2>2, <2>3
<1>10. ASSUME Release PROVE Moves(cur) /\ cur \in Slots
  <2>1. /\ cur \in Slots /\ cur' = None /\ new' = new /\ isr' = isr /\ waiting' = waiting
        /\ new = None /\ cpq' = cpq /\ daqq' = daqq /\ txq' = txq
        /\ msg'[cur] = Idle /\ \A t \in Slots \ {cur} : msg'[t] = msg[t]
    BY <1>0, <1>10 DEF Release, Background, queues, link
  <2>2. OnlyMoves(cur)
    BY <1>0, <2>1 DEF OnlyMoves, Same
  <2>3. place[cur] = "bg" /\ place'[cur] = "pool"
    BY <2>1 DEF PlaceSound
  <2> QED
    BY <2>1, <2>2, <2>3 DEF Moves, Having
<1> QED
  BY <1>1, <1>2, <1>3, <1>4, <1>5, <1>6, <1>7, <1>8, <1>9, <1>10 DEF Loop

\* The interrupts, the timer and the host.
LEMMA OtherMoves ==
  ASSUME IInv, IInv', PlaceSound, PlaceSound',
         \/ Isr \/ PipeInt \/ TxEnd \/ Tick
         \/ \E kind \in Kinds, id \in Ids : Request(kind, id)
  PROVE  (\E s \in Slots : Moves(s)) \/ \A s \in Slots : Same(s)
<1>0. /\ cur \in Slots \cup {None} /\ new \in Slots \cup {None} /\ isr \in Slots \cup {None}
      /\ txq \in Seq(Slots) /\ Distinct(txq)
      /\ msg \in [Slots -> Message \cup {Idle}] /\ None \notin Slots
  BY IdleIsNoMessage DEF IInv, TypeOK, Apart
<1>1. ASSUME Tick \/ \E kind \in Kinds, id \in Ids : Request(kind, id)
      PROVE  \A s \in Slots : Same(s)
  BY <1>1 DEF Tick, Request, queues, bg, link, Same
<1>2. ASSUME isr = None, isr' = Found, Free # {}, UNCHANGED <<waiting, queues, bg>>,
             \A t \in Slots \ {Found} : msg'[t] = msg[t]
      PROVE  Moves(Found) /\ Found \in Slots
  <2>1. Found \in Slots /\ msg[Found] = Idle
    BY <1>2, FoundFree
  <2>2. OnlyMoves(Found)
    BY <1>0, <1>2, <2>1 DEF OnlyMoves, Same, queues, bg
  <2>3. place[Found] = "pool" /\ place'[Found] = "isr"
    BY <1>2, <2>1 DEF PlaceSound
  <2> QED
    BY <2>1, <2>2, <2>3 DEF Moves, Having
<1>3. ASSUME RxTake PROVE Moves(Found) /\ Found \in Slots
  <2>1. \A t \in Slots \ {Found} : msg'[t] = msg[t]
    BY <1>0, <1>3 DEF RxTake
  <2> QED
    BY <1>2, <1>3, <2>1 DEF RxTake
<1>4. ASSUME PipeInt, Free # {} PROVE Moves(Found) /\ Found \in Slots
  <2>1. \A t \in Slots \ {Found} : msg'[t] = msg[t]
    BY <1>0, <1>4 DEF PipeInt
  <2> QED
    BY <1>2, <1>4, <2>1 DEF PipeInt
<1>5. ASSUME PipeInt, Free = {} PROVE \A s \in Slots : Same(s)
  BY <1>5 DEF PipeInt, queues, bg, Same
<1>6. ASSUME IsrQueue PROVE Moves(isr) /\ isr \in Slots
  <2>1. /\ isr \in Slots /\ isr' = None /\ waiting' = waiting \cup {isr} /\ msg' = msg
        /\ UNCHANGED <<cur, new, cpq, daqq, txq>>
    BY <1>0, <1>6 DEF IsrQueue, queues, bg
  <2>2. OnlyMoves(isr)
    BY <1>0, <2>1 DEF OnlyMoves, Same
  <2>3. place[isr] = "isr" /\ place'[isr] = "waiting"
    BY <2>1 DEF PlaceSound
  <2> QED
    BY <2>1, <2>2, <2>3 DEF Moves, Having
<1>7. ASSUME TxEnd, txq # <<>> PROVE Moves(Head(txq)) /\ Head(txq) \in Slots
  <2> DEFINE s == Head(txq)
  <2>1. /\ s \in Slots /\ s \in InQueue(txq) /\ InQueue(txq') = InQueue(txq) \ {s}
        /\ msg' = [msg EXCEPT ![s] = Idle]
        /\ UNCHANGED <<waiting, cur, new, isr, cpq, daqq>>
    <3>1. /\ txq' = Tail(txq) /\ msg' = [msg EXCEPT ![s] = Idle]
          /\ UNCHANGED <<waiting, cur, new, isr, cpq, daqq>>
      BY <1>7 DEF TxEnd, bg
    <3> QED
      BY <1>0, <1>7, <3>1, RingTake
  <2> HIDE DEF s
  <2>2. msg'[s] = Idle /\ \A t \in Slots \ {s} : msg'[t] = msg[t]
    BY <1>0, <2>1
  <2>3. OnlyMoves(s)
    BY <1>0, <2>1, <2>2 DEF OnlyMoves, Same
  <2>4. place[s] = "tx" /\ place'[s] = "pool"
    BY <2>1, <2>2 DEF PlaceSound
  <2>5. Moves(s)
    BY <2>3, <2>4 DEF Moves, Having
  <2> QED
    BY <2>1, <2>5 DEF s
<1>8. ASSUME TxEnd, txq = <<>> PROVE \A s \in Slots : Same(s)
  BY <1>8 DEF TxEnd, bg, Same
<1> QED
  BY <1>1, <1>3, <1>4, <1>5, <1>6, <1>7, <1>8 DEF Isr

\* Every step moves at most one slot, and along a way that SlotPool knows.
LEMMA StepMoves == IInv /\ IInv' /\ PlaceSound /\ PlaceSound' /\ LostInv /\ TxRoom /\ [Next]_vars
                     => LostInv' /\ [Pool!Next]_place
<1> SUFFICES ASSUME IInv, IInv', PlaceSound, PlaceSound', LostInv, TxRoom, [Next]_vars
             PROVE  LostInv' /\ [Pool!Next]_place
  OBVIOUS
<1>1. ASSUME \A s \in Slots : Same(s) PROVE LostInv' /\ place' = place
  <2>1. \A s \in Slots : place'[s] = place[s]
    BY <1>1, SameStays
  <2>2. place' = place
    <3>1. place = [t \in Slots |-> place[t]] /\ place' = [t \in Slots |-> place'[t]]
      BY DEF place
    <3> QED
      BY <2>1, <3>1
  <2>3. ASSUME NEW s \in Slots, place'[s] = "lost" PROVE msg'[s] = Msg("PONG", None)
    <3>1. s \notin Held /\ msg[s] = Msg("PONG", None)
      BY <2>1, <2>3 DEF PlaceSound, LostInv
    <3> QED
      BY <1>1, <3>1 DEF Same
  <2> QED
    BY <2>2, <2>3 DEF LostInv, PlaceSound
<1>2. ASSUME UNCHANGED vars PROVE \A s \in Slots : Same(s)
  BY <1>2 DEF vars, queues, bg, link, Same
<1>3. CASE Next
  BY <1>1, <1>3, LoopMoves, OtherMoves, MovesInPool DEF Next
<1> QED
  BY <1>1, <1>2, <1>3

\* While txq has room no slot gets lost, and the places move as SlotPool's do.
LEMMA SpecLost == Spec /\ []TxRoom => []LostInv /\ [][Pool!Next]_place
<1>1. Init => LostInv
  BY DEF Init, LostInv
<1> QED
  BY <1>1, SpecIInv, PlaceFaithful, StepMoves, PTL DEF Spec

\* No handler's early return and no ring loses a slot, but for the answer to a
\* ping without a connection, in every execution in which opto_cmio finds room
\* in txq when it is called.
THEOREM NoSlotLost == Spec /\ []TxRoom => []NoLeak
<1>1. IInv /\ PlaceSound /\ LostInv => NoLeak
  BY DEF PlaceSound, LostInv, NoLeak, Msg
<1> QED
  BY <1>1, SpecIInv, PlaceFaithful, SpecLost, PTL

\* The link driver, the CM and the servers use their slots as CmQueue promises
\* them in SlotPool: what is shown of the ring of slots holds underneath them.
THEOREM FirmwareImplementsPool == Spec /\ []TxRoom => ImplementsPool
<1>1. ASSUME Init PROVE Pool!Init
  <2>1. (\A s \in Slots : msg[s] = Idle) /\ PlaceSound
    BY <1>1, InitIInv, PlaceFaithful DEF Init
  <2>2. \A s \in Slots : place[s] = "pool"
    BY <2>1 DEF PlaceSound
  <2>3. place = [s \in Slots |-> place[s]]
    BY DEF place
  <2> QED
    BY <2>2, <2>3 DEF Pool!Init
<1> QED
  BY <1>1, SpecLost, PTL DEF Spec, ImplementsPool, Pool!Spec

\* Different slots in a ring, and one more outside, are so many slots.
LEMMA DistinctLen ==
  ASSUME NEW q \in Seq(Slots), Distinct(q), NEW s \in Slots \ InQueue(q)
  PROVE  Len(q) + 1 <= Cardinality(Slots)
<1>1. /\ Len(q) \in Nat /\ DOMAIN q = 1..Len(q) /\ q \in [1..Len(q) -> Slots]
  BY LenProperties
<1>2. q \in [1..Len(q) -> Slots \ {s}]
  BY <1>1 DEF InQueue
<1>3. q \in Injection(1..Len(q), Slots \ {s})
  BY <1>1, <1>2, Fun_IsInj DEF Distinct
<1>4. IsFiniteSet(Slots \ {s}) /\ Cardinality(Slots \ {s}) = Cardinality(Slots) - 1
  BY SlotsAssumption, FS_RemoveElement
<1>5. Cardinality(1..Len(q)) <= Cardinality(Slots \ {s})
  BY <1>3, <1>4, FS_Injection
<1>6. Cardinality(1..Len(q)) = Len(q)
  BY <1>1, FS_Interval
<1> QED
  BY <1>1, <1>4, <1>5, <1>6, SlotsAssumption, FS_CardinalityType

\* The ring's room is certain if it has more entries than there are slots.
THEOREM RoomForAll == Cardinality(Slots) < TxQue => (Spec => []TxRoom)
<1>1. Cardinality(Slots) < TxQue /\ IInv => TxRoom
  <2> SUFFICES ASSUME Cardinality(Slots) < TxQue, IInv, at = "route" PROVE Len(txq) + 1 # TxQue
    BY DEF TxRoom
  <2>1. txq \in Seq(Slots) /\ Distinct(txq) /\ cur \in Slots \ InQueue(txq)
    BY DEF IInv, TypeOK, Apart
  <2>2. Len(txq) + 1 <= Cardinality(Slots) /\ Len(txq) \in Nat
    BY <2>1, DistinctLen, LenProperties
  <2> QED
    BY <2>2, QueAssumption, SlotsAssumption, FS_CardinalityType
<1>2. CASE Cardinality(Slots) < TxQue
  <2>1. IInv => TxRoom
    BY <1>1, <1>2
  <2> QED
    BY <2>1, SpecIInv, PTL
<1> QED
  BY <1>2

-----------------------------------------------------------------------------
(***************************************************************************)
(* Requests and answers.                                                   *)
(***************************************************************************)

\* A step that moves slots only leaves the numbers where they are.
LEMMA QuietKeepsAInv ==
  ASSUME AInv, TypeOK, UNCHANGED <<msg, hw, wire, due>>,
         \/ at # "release" /\ at' # "release"
         \/ UNCHANGED <<at, cur>> /\ waiting \subseteq waiting'
         \/ /\ at # "release" /\ at' = "release"
            /\ cur' = cur /\ msg[cur].kind = "BAD"
  PROVE  AInv'
<1>1. OneCarrier'
  BY DEF AInv, OneCarrier
<1>2. \A s \in Slots : \/ Finished(s)' <=> Finished(s)
                       \/ Finished(s)' /\ ~Finished(s) /\ msg[s].kind = "BAD"
  BY DEF Finished, Outbound
<1>3. DueExact'
  <2>1. \A s \in Slots : msg[s].id # None /\ ~Finished(s)' =>
          (msg[s].id \in due <=> msg[s].kind \in Answered \cup Outbound)
    BY <1>2 DEF AInv, DueExact
  <2>2. ASSUME NEW s \in Slots, ~Finished(s), Finished(s)', msg[s].id \in due
        PROVE  FALSE
    <3>1. msg[s].kind \notin Answered \cup Outbound
      BY <1>2, <2>2 DEF Answered, Outbound
    <3>2. CASE msg[s].id # None
      BY <2>2, <3>1, <3>2 DEF AInv, DueExact
    <3>3. CASE msg[s].id = None
      BY <2>2, <3>3, IdleIsNoMessage DEF TypeOK
    <3> QED
      BY <3>2, <3>3
  <2> QED
    BY <1>2, <2>1, <2>2 DEF AInv, DueExact
<1>4. IntAlone'
  BY DEF AInv, IntAlone
<1> QED
  BY <1>1, <1>3, <1>4 DEF AInv

\* A message goes out, and with it its number; the message before is out, and
\* has been answered.
LEMMA ShipKeepsAInv ==
  ASSUME AInv, TypeOK, NEW s \in Slots, msg[s].kind \in Outbound, s \notin waiting,
         msg' = [msg EXCEPT ![s] = Idle], wire' = msg[s],
         due' = due \ {wire.id}, hw' = hw,
         \/ at # "release" /\ at' # "release"
         \/ UNCHANGED <<at, cur, waiting>> /\ s # cur
  PROVE  AInv'
<1>1. /\ msg'[s].id = None /\ msg'[s].kind = "IDLE"
      /\ \A t \in Slots : t # s => msg'[t] = msg[t]
  BY DEF TypeOK, Idle
<1>2. \A t \in Slots : msg[s].id # None /\ msg[t].id = msg[s].id => t = s
  BY DEF AInv, OneCarrier
<1>3. None \notin due
  BY IdleIsNoMessage DEF TypeOK
<1>4. \A t \in Slots : t # s => (Finished(t)' <=> Finished(t))
  BY <1>1 DEF Finished
<1>5. ~Finished(s)
  BY DEF Finished
<1>6. OneCarrier'
  <2>1. \A i \in DOMAIN hw : hw[i].id \in Ids /\ hw[i].id # msg[s].id
    BY DEF AInv, OneCarrier
  <2>2. \A i \in DOMAIN hw, t \in Slots : msg'[t].id # hw[i].id
    BY <1>1, <2>1, IdleIsNoMessage DEF AInv, OneCarrier
  <2>3. msg[s].id # None => \A t \in Slots : msg'[t].id # msg[s].id
    BY <1>1, <1>2
  <2>4. \A u, t \in Slots : msg'[u].id # None /\ msg'[u].id = msg'[t].id /\ u # t =>
          /\ u # s /\ t # s
          /\ at = "release" /\ cur \in {u, t}
          /\ (u = cur => t \in waiting /\ msg[t].kind \in Outbound)
    BY <1>1 DEF AInv, OneCarrier
  <2> QED
    BY <1>1, <2>1, <2>2, <2>3, <2>4 DEF AInv, OneCarrier
<1>7. DueExact'
  <2>1. msg[s].id # None => msg[s].id \in due /\ msg[s].id # wire.id
    BY <1>5 DEF AInv, DueExact, OneCarrier
  <2>2. \A i \in DOMAIN hw : hw[i].id \in due' <=> hw[i].kind \in Answered
    BY DEF AInv, DueExact, OneCarrier
  <2>3. \A t \in Slots : t # s /\ msg[t].id # None => msg[t].id # wire.id
    BY DEF AInv, OneCarrier
  <2>4. \A t \in Slots : msg'[t].id # None /\ ~Finished(t)' =>
          (msg'[t].id \in due' <=> msg'[t].kind \in Answered \cup Outbound)
    BY <1>1, <1>4, <2>3 DEF AInv, DueExact
  <2>5. ASSUME NEW id \in due'
        PROVE  \/ \E i \in DOMAIN hw : hw[i].id = id
               \/ msg[s].id = id
               \/ \E t \in Slots : msg'[t].id = id /\ ~Finished(t)'
    BY <1>1, <1>4 DEF AInv, DueExact
  <2> QED
    BY <2>1, <2>2, <2>4, <2>5 DEF DueExact
<1>8. IntAlone'
  BY <1>1 DEF AInv, IntAlone
<1> QED
  BY <1>6, <1>7, <1>8 DEF AInv

\* A slot is taken for a message without a number.
LEMMA TakeKeepsAInv ==
  ASSUME AInv, TypeOK, NEW s \in Slots, msg[s] = Idle, NEW kind,
         msg' = [msg EXCEPT ![s] = Msg(kind, None)], UNCHANGED <<hw, wire, due>>,
         \/ at # "release" /\ at' # "release"
         \/ UNCHANGED <<at, cur, waiting>>
  PROVE  AInv'
<1>1. /\ msg'[s].id = None
      /\ \A t \in Slots : t # s => msg'[t] = msg[t]
      /\ \A t \in Slots : msg'[t].id = msg[t].id
  BY DEF TypeOK, Idle, Msg
<1>2. None \notin due
  BY IdleIsNoMessage DEF TypeOK
<1>3. \A t \in Slots : t # s => (Finished(t)' <=> Finished(t))
  BY <1>1 DEF Finished
<1>4. OneCarrier'
  <2>1. \A u, t \in Slots : msg'[u].id # None /\ msg'[u].id = msg'[t].id /\ u # t =>
          /\ u # s /\ t # s
          /\ at = "release" /\ cur \in {u, t}
          /\ (u = cur => t \in waiting /\ msg[t].kind \in Outbound)
    BY <1>1 DEF AInv, OneCarrier
  <2> QED
    BY <1>1, <2>1 DEF AInv, OneCarrier
<1>5. DueExact'
  BY <1>1, <1>2, <1>3 DEF AInv, DueExact
<1>6. IntAlone'
  BY <1>1 DEF AInv, IntAlone
<1> QED
  BY <1>4, <1>5, <1>6 DEF AInv

\* The loop's steps on a message, and the two ends of its life there.
LEMMA HandleKeepsAInv ==
  ASSUME AInv, IInv, NoAnswer \/ Send \/ Release
  PROVE  AInv'
<1>1. /\ cur \in Slots /\ msg[cur].kind \notin Outbound
      /\ None \notin due /\ TypeOK
  BY IdleIsNoMessage DEF IInv, TypeOK, KindsInPlace, NoAnswer, Send, SendWith, Release, Background
<1>2. CASE NoAnswer
  <2> USE <1>2 DEF NoAnswer, Background, link
  <2>1. /\ at = "handle" /\ at' = "release" /\ UNCHANGED <<msg, hw, wire, cur, waiting>>
        /\ due' = due \ {msg[cur].id}
    OBVIOUS
  <2> HIDE <1>2 DEF NoAnswer, Background, link
  <2>2. \A s \in Slots : ~Finished(s) /\ (Finished(s)' <=> s = cur)
    BY <1>1, <2>1 DEF Finished
  <2>3. OneCarrier' /\ IntAlone'
    BY <2>1 DEF AInv, OneCarrier, IntAlone
  <2>4. /\ \A s \in Slots : s # cur /\ msg[s].id # None => msg[s].id # msg[cur].id
        /\ wire.id # None => wire.id # msg[cur].id
        /\ \A i \in DOMAIN hw : hw[i].id # msg[cur].id
    BY <1>1, <2>1 DEF AInv, OneCarrier
  <2>5. DueExact'
    <3>1. \A s \in Slots : msg[s].id # None /\ s # cur =>
            (msg[s].id \in due' <=> msg[s].kind \in Answered \cup Outbound)
      BY <2>1, <2>2, <2>4 DEF AInv, DueExact
    <3>2. \A id \in due' : \/ \E i \in DOMAIN hw : hw[i].id = id
                           \/ wire.id = id
                           \/ \E s \in Slots : msg[s].id = id /\ s # cur
      BY <2>1, <2>2 DEF AInv, DueExact
    <3>3. /\ wire.id # None => wire.id \in due'
          /\ \A i \in DOMAIN hw : hw[i].id \in due' <=> hw[i].kind \in Answered
      BY <2>1, <2>4 DEF AInv, DueExact
    <3> QED
      BY <2>1, <2>2, <3>1, <3>2, <3>3 DEF DueExact
  <2> QED
    BY <2>3, <2>5 DEF AInv
<1>3. CASE Send
  <2> USE <1>3 DEF Send, SendWith, Background
  <2>1. /\ at = "send" /\ at' = "release" /\ UNCHANGED <<hw, wire, cur>>
        /\ \/ msg' = msg /\ waiting' = waiting /\ due' = due \ {msg[cur].id}
           \/ /\ msg' = [msg EXCEPT ![new].id = msg[cur].id]
              /\ waiting' = waiting \cup {new} /\ due' = due
    BY DEF link
  <2> HIDE <1>3 DEF Send, SendWith, Background
  <2>2. /\ new \in Slots /\ new # cur /\ msg[new].id = None /\ msg[new].kind \in Outbound
        /\ msg[cur].kind \in Composed
    BY <1>1, <2>1, IdleIsNoMessage DEF IInv, TypeOK, Apart, KindsInPlace
  <2>3. \A s \in Slots : ~Finished(s) /\ (Finished(s)' <=> s = cur)
    <3>1. msg'[cur].kind = msg[cur].kind
      BY <1>1, <2>1, <2>2 DEF TypeOK
    <3> QED
      BY <1>1, <2>1, <3>1 DEF Finished
  <2>4. /\ \A s \in Slots : s # cur /\ msg[s].id # None => msg[s].id # msg[cur].id
        /\ wire.id # None => wire.id # msg[cur].id
        /\ \A i \in DOMAIN hw : hw[i].id # msg[cur].id
    BY <1>1, <2>1 DEF AInv, OneCarrier
  <2>5. msg[cur].id # None => msg[cur].id \in due /\ msg[cur].kind \in Answered
    BY <1>1, <2>2, <2>3 DEF AInv, DueExact, IntAlone, Composed
  <2>6. CASE msg' = msg /\ waiting' = waiting /\ due' = due \ {msg[cur].id}
    <3>1. OneCarrier' /\ IntAlone'
      BY <2>1, <2>6 DEF AInv, OneCarrier, IntAlone
    <3>2. \A s \in Slots : msg[s].id # None /\ s # cur =>
            (msg[s].id \in due' <=> msg[s].kind \in Answered \cup Outbound)
      BY <2>6, <2>3, <2>4 DEF AInv, DueExact
    <3>3. \A id \in due' : \/ \E i \in DOMAIN hw : hw[i].id = id
                           \/ wire.id = id
                           \/ \E s \in Slots : msg[s].id = id /\ s # cur
      BY <2>6, <2>3 DEF AInv, DueExact
    <3>4. /\ wire.id # None => wire.id \in due'
          /\ \A i \in DOMAIN hw : hw[i].id \in due' <=> hw[i].kind \in Answered
      BY <2>6, <2>4 DEF AInv, DueExact
    <3>5. DueExact'
      BY <2>1, <2>6, <2>3, <3>2, <3>3, <3>4 DEF DueExact
    <3> QED
      BY <3>1, <3>5 DEF AInv
  <2>7. CASE /\ msg' = [msg EXCEPT ![new].id = msg[cur].id]
             /\ waiting' = waiting \cup {new} /\ due' = due
    <3>1. /\ msg'[new].id = msg[cur].id /\ msg'[new].kind = msg[new].kind
          /\ \A s \in Slots : s # new => msg'[s] = msg[s]
      <4>1. msg[new] \in Message \cup {Idle}
        BY <2>2, <1>1 DEF TypeOK
      <4>2. msg'[new] = [msg[new] EXCEPT !.id = msg[cur].id]
        BY <2>2, <2>7, <1>1 DEF TypeOK
      <4>3. msg'[new].id = msg[cur].id /\ msg'[new].kind = msg[new].kind
        BY <4>1, <4>2 DEF Message, Idle
      <4> QED
        BY <2>2, <2>7, <4>3, <1>1 DEF TypeOK
    <3>2. \A u, t \in Slots : msg'[u].id # None /\ msg'[u].id = msg'[t].id /\ u # t =>
            (u = new /\ t = cur) \/ (u = cur /\ t = new)
      <4>1. \A u, t \in Slots : msg[u].id # None /\ msg[u].id = msg[t].id => u = t
        BY <2>1 DEF AInv, OneCarrier
      <4> QED
        BY <1>1, <2>2, <2>4, <3>1, <4>1
    <3>3. OneCarrier'
      <4>1. wire.id # None => \A s \in Slots : msg'[s].id # wire.id
        BY <2>2, <2>4, <3>1 DEF AInv, OneCarrier
      <4>2. \A i \in DOMAIN hw, s \in Slots : msg'[s].id # hw[i].id
        BY <2>2, <2>4, <3>1 DEF AInv, OneCarrier
      <4>3. \A u, t \in Slots : msg'[u].id # None /\ msg'[u].id = msg'[t].id /\ u # t =>
              /\ cur \in {u, t}
              /\ (u = cur => t \in waiting' /\ msg'[t].kind \in Outbound)
        BY <2>2, <2>7, <3>1, <3>2
      <4> QED
        BY <2>1, <2>7, <4>1, <4>2, <4>3 DEF AInv, OneCarrier
    <3>4. DueExact'
      <4>1. \A s \in Slots : msg'[s].id # None /\ s # cur =>
              (msg'[s].id \in due <=> msg'[s].kind \in Answered \cup Outbound)
        BY <2>2, <2>3, <2>5, <3>1 DEF AInv, DueExact
      <4>2. \A id \in due : \/ \E i \in DOMAIN hw : hw[i].id = id
                            \/ wire.id = id
                            \/ \E s \in Slots : msg'[s].id = id /\ s # cur
        <5> SUFFICES ASSUME NEW id \in due, NEW s \in Slots, msg[s].id = id
                     PROVE  \E t \in Slots : msg'[t].id = id /\ t # cur
          BY DEF AInv, DueExact
        <5>1. CASE s = cur
          BY <5>1, <2>2, <3>1
        <5>2. CASE s # cur
          BY <5>2, <1>1, <2>2, <3>1
        <5> QED
          BY <5>1, <5>2
      <4> QED
        BY <2>1, <2>3, <2>7, <4>1, <4>2 DEF AInv, DueExact
    <3>5. IntAlone'
      BY <2>2, <3>1 DEF AInv, IntAlone, Outbound
    <3> QED
      BY <3>3, <3>4, <3>5 DEF AInv
  <2> QED
    BY <2>1, <2>6, <2>7
<1>4. CASE Release
  <2> USE <1>4 DEF Release, Background, NextTurn
  <2>1. /\ at = "release" /\ at' = "fetch" /\ UNCHANGED <<hw, wire, due, waiting>>
        /\ msg' = [msg EXCEPT ![cur] = Idle]
    BY DEF link
  <2> HIDE <1>4 DEF Release, Background, NextTurn
  <2>2. /\ msg'[cur].id = None /\ msg'[cur].kind = "IDLE"
        /\ \A s \in Slots : s # cur => msg'[s] = msg[s]
    BY <1>1, <2>1 DEF TypeOK, Idle
  <2>3. \A s \in Slots : ~Finished(s)' /\ (Finished(s) <=> s = cur)
    BY <1>1, <2>1 DEF Finished
  <2>4. OneCarrier'
    <3>1. \A i \in DOMAIN hw, s \in Slots : msg'[s].id # hw[i].id
      BY <2>2, IdleIsNoMessage DEF AInv, OneCarrier
    <3>2. \A u, t \in Slots : msg'[u].id # None /\ msg'[u].id = msg'[t].id => u = t
      BY <2>2 DEF AInv, OneCarrier
    <3>3. wire.id # None => \A s \in Slots : msg'[s].id # wire.id
      BY <2>2 DEF AInv, OneCarrier
    <3> QED
      BY <2>1, <3>1, <3>2, <3>3 DEF AInv, OneCarrier
  <2>5. DueExact'
    BY <2>1, <2>2, <2>3, <1>1 DEF AInv, DueExact
  <2>6. IntAlone'
    BY <2>2 DEF AInv, IntAlone
  <2> QED
    BY <2>4, <2>5, <2>6 DEF AInv
<1> QED
  BY <1>2, <1>3, <1>4

\* A request comes under a number that nothing has.
LEMMA RequestKeepsAInv ==
  ASSUME AInv, IInv, NEW kind \in Kinds, NEW id \in Ids, Request(kind, id)
  PROVE  AInv'
<1>1. /\ UNCHANGED <<msg, wire, at, cur, waiting>>
      /\ due' = IF kind \in Answered THEN due \cup {id} ELSE due
      /\ hw' = Append(hw, Msg(kind, id))
      /\ TypeOK
  BY DEF Request, bg, IInv
<1>2. /\ \A i \in DOMAIN hw : hw[i].id # id
      /\ wire.id # id
      /\ \A s \in Slots : msg[s].id # id
  BY DEF Request, LiveIds
<1> DEFINE n == Len(hw)
<1>3. /\ n \in Nat /\ DOMAIN hw = 1..n /\ DOMAIN hw' = 1..n + 1
      /\ hw'[n + 1].id = id /\ hw'[n + 1].kind = kind
      /\ \A i \in 1..n : hw'[i] = hw[i]
  <2>1. hw \in Seq(Message) /\ Msg(kind, id) \in Message
    BY <1>1, KindsAssumption DEF TypeOK, Message, Msg
  <2>2. Msg(kind, id).id = id /\ Msg(kind, id).kind = kind
    BY DEF Msg
  <2> QED
    BY <1>1, <2>1, <2>2, AppendProperties, LenProperties
<1> HIDE DEF n
<1>4. \A s \in Slots : Finished(s)' <=> Finished(s)
  BY <1>1 DEF Finished
<1>5. id \notin due
  BY <1>2, <1>3 DEF AInv, DueExact
<1>6. OneCarrier'
  <2>1. \A i, j \in 1..n + 1 : hw'[i].id = hw'[j].id => i = j
    BY <1>2, <1>3 DEF AInv, OneCarrier
  <2>2. \A i \in 1..n + 1 : hw'[i].id \in Ids /\ hw'[i].id # wire.id
    BY <1>2, <1>3 DEF AInv, OneCarrier
  <2>3. \A i \in 1..n + 1, s \in Slots : msg[s].id # hw'[i].id
    BY <1>2, <1>3 DEF AInv, OneCarrier
  <2> QED
    BY <1>1, <1>3, <2>1, <2>2, <2>3 DEF AInv, OneCarrier
<1>7. DueExact'
  <2>1. \A i \in 1..n + 1 : hw'[i].id \in due' <=> hw'[i].kind \in Answered
    BY <1>1, <1>2, <1>3, <1>5 DEF AInv, DueExact
  <2>2. \A s \in Slots : msg[s].id # None /\ ~Finished(s) =>
          (msg[s].id \in due' <=> msg[s].kind \in Answered \cup Outbound)
    BY <1>1, <1>2 DEF AInv, DueExact
  <2>3. ASSUME NEW r \in due'
        PROVE  \/ \E i \in 1..n + 1 : hw'[i].id = r
               \/ wire.id = r
               \/ \E s \in Slots : msg[s].id = r /\ ~Finished(s)
    <3>1. CASE r = id
      BY <1>3, <3>1
    <3>2. CASE r \in due
      BY <1>3, <3>2 DEF AInv, DueExact
    <3> QED
      BY <1>1, <2>3, <3>1, <3>2
  <2>4. wire.id # None => wire.id \in due'
    BY <1>1 DEF AInv, DueExact
  <2> QED
    BY <1>1, <1>3, <1>4, <2>1, <2>2, <2>3, <2>4 DEF DueExact
<1>8. IntAlone'
  BY <1>1 DEF AInv, IntAlone
<1> QED
  BY <1>6, <1>7, <1>8 DEF AInv

\* The interrupt handler reads the oldest frame into a slot.
LEMMA RxTakeKeepsAInv ==
  ASSUME AInv, IInv, RxTake
  PROVE  AInv'
<1>0. PICK f \in Slots : /\ f = Found /\ msg[f] = Idle
                        /\ msg' = [msg EXCEPT ![f] = Head(hw)]
  BY FoundFree DEF RxTake
<1>1. /\ UNCHANGED <<wire, at, cur, waiting, due>>
      /\ hw' = Tail(hw) /\ hw # <<>>
      /\ TypeOK
  BY DEF RxTake, bg, IInv
<1> DEFINE n == Len(hw)
<1>2. /\ n \in Nat /\ n >= 1 /\ DOMAIN hw = 1..n /\ DOMAIN hw' = 1..n - 1
      /\ \A i \in 1..n - 1 : hw'[i] = hw[i + 1]
      /\ Head(hw) = hw[1]
  BY <1>1, HeadTailProperties, LenProperties, EmptySeq DEF TypeOK
<1> HIDE DEF n
<1>3. /\ msg'[f] = hw[1]
      /\ \A s \in Slots : s # f => msg'[s] = msg[s]
  BY <1>0, <1>1, <1>2 DEF TypeOK
<1>4. /\ hw[1].kind \in Requests /\ hw[1].id \in Ids
      /\ hw[1].kind # "INT" /\ hw[1].kind \notin Outbound
  BY <1>2 DEF IInv, KindsInPlace, AInv, OneCarrier, Requests, CmKinds, CpKinds, Outbound
<1>5. f # cur /\ ~Finished(f) /\ ~Finished(f)'
      /\ \A s \in Slots : Finished(s)' <=> Finished(s)
  <2>1. f # cur
    BY <1>0, IdleIsNoMessage DEF IInv, Taken, Held
  <2>2. ~Finished(f) /\ ~Finished(f)'
    BY <1>1, <2>1 DEF Finished
  <2>3. ASSUME NEW s \in Slots, s # f PROVE Finished(s)' <=> Finished(s)
    BY <1>1, <1>3, <2>3 DEF Finished
  <2> QED
    BY <2>1, <2>2, <2>3
<1>6. OneCarrier'
  <2>1. \A i, j \in 1..n - 1 : hw'[i].id = hw'[j].id => i = j
    BY <1>2 DEF AInv, OneCarrier
  <2>2. ASSUME NEW i \in 1..n - 1
        PROVE  hw'[i].id \in Ids /\ hw'[i].id # wire.id /\ hw'[i].id # hw[1].id
    <3>1. i + 1 \in DOMAIN hw /\ 1 \in DOMAIN hw /\ i + 1 # 1 /\ hw'[i] = hw[i + 1]
      BY <1>2
    <3> QED
      BY <3>1 DEF AInv, OneCarrier
  <2>3. \A i \in 1..n - 1, s \in Slots : msg'[s].id # hw'[i].id
    BY <1>2, <1>3, <2>2 DEF AInv, OneCarrier
  <2>4. wire.id # None => \A s \in Slots : msg'[s].id # wire.id
    BY <1>2, <1>3 DEF AInv, OneCarrier
  <2>5. \A s \in Slots : msg[s].id # hw[1].id
    BY <1>2 DEF AInv, OneCarrier
  <2>6. \A s, t \in Slots : msg'[s].id # None /\ msg'[s].id = msg'[t].id /\ s # t =>
          /\ s # f /\ t # f
          /\ at = "release" /\ cur \in {s, t}
          /\ (s = cur => t \in waiting /\ msg[t].kind \in Outbound)
    BY <1>0, <1>3, <2>5 DEF AInv, OneCarrier, Idle
  <2> QED
    BY <1>1, <1>2, <1>3, <2>1, <2>2, <2>3, <2>4, <2>6 DEF OneCarrier
<1>7. DueExact'
  <2>1. \A i \in 1..n - 1 : hw'[i].id \in due <=> hw'[i].kind \in Answered
    BY <1>2 DEF AInv, DueExact
  <2>2. \A s \in Slots : msg'[s].id # None /\ ~Finished(s) =>
          (msg'[s].id \in due <=> msg'[s].kind \in Answered \cup Outbound)
    BY <1>2, <1>3, <1>4 DEF AInv, DueExact
  <2>3. ASSUME NEW id \in due
        PROVE  \/ \E i \in 1..n - 1 : hw'[i].id = id
               \/ wire.id = id
               \/ \E s \in Slots : msg'[s].id = id /\ ~Finished(s)
    <3>0. id # None
      BY <1>1, IdleIsNoMessage DEF TypeOK
    <3>1. ASSUME NEW i \in DOMAIN hw, hw[i].id = id
          PROVE  \/ \E j \in 1..n - 1 : hw'[j].id = id
                 \/ \E s \in Slots : msg'[s].id = id /\ ~Finished(s)
      <4>1. CASE i = 1
        BY <1>0, <1>3, <1>5, <3>1, <4>1
      <4>2. CASE i # 1
        <5>1. i - 1 \in 1..n - 1 /\ hw'[i - 1] = hw[i]
          BY <1>2, <4>2
        <5> QED
          BY <3>1, <5>1
      <4> QED
        BY <4>1, <4>2
    <3>2. ASSUME NEW s \in Slots, msg[s].id = id, ~Finished(s)
          PROVE  \E t \in Slots : msg'[t].id = id /\ ~Finished(t)
      BY <1>0, <1>1, <1>3, <3>0, <3>2 DEF Idle
    <3> QED
      BY <3>1, <3>2 DEF AInv, DueExact
  <2>4. wire.id # None => wire.id \in due
    BY DEF AInv, DueExact
  <2> QED
    BY <1>1, <1>2, <1>5, <2>1, <2>2, <2>3, <2>4 DEF DueExact
<1>8. IntAlone'
  BY <1>3, <1>4 DEF AInv, IntAlone
<1> QED
  BY <1>6, <1>7, <1>8 DEF AInv

\* The invariant of requests and answers, kept by every step that finds room in
\* txq.
LEMMA StepKeepsAInv == IInv /\ IInv' /\ TxRoom /\ AInv /\ [Next]_vars => AInv'
<1> SUFFICES ASSUME IInv, IInv', TxRoom, AInv, [Next]_vars PROVE AInv'
  OBVIOUS
<1>0. TypeOK /\ TypeOK' /\ Idle.id = None /\ None \notin due
  BY IdleIsNoMessage DEF IInv, TypeOK, Idle
<1>1. CASE CpFetch \/ DaqFetch \/ \E s \in Slots : Fetch(s)
  BY <1>0, <1>1, QuietKeepsAInv DEF CpFetch, DaqFetch, Fetch, Background, link
<1>2. CASE RouteCp \/ RouteDaq
  BY <1>0, <1>2, QuietKeepsAInv DEF RouteCp, RouteDaq, Background, NextTurn, link
<1>3. CASE RouteCm
  BY <1>0, <1>3, QuietKeepsAInv DEF RouteCm, Background, link
<1>4. CASE RouteOut
  <2>1. /\ at = "route" /\ at' = "fetch" /\ hw' = hw /\ due' = due
        /\ cur \in Slots /\ cur \notin waiting /\ msg[cur].kind \in Outbound
        /\ LinkBusy /\ Cmio
    BY <1>0, <1>4, IdleIsNoMessage
       DEF RouteOut, Background, NextTurn, TypeOK, IInv, Apart
  <2>2. CASE wire # Idle /\ wire' = wire /\ msg' = msg
    BY <1>0, <2>1, <2>2, QuietKeepsAInv
  <2>3. CASE wire = Idle /\ wire' = msg[cur] /\ msg' = [msg EXCEPT ![cur] = Idle]
    <3>1. due' = due \ {wire.id}
      BY <1>0, <2>1, <2>3
    <3> QED
      BY <1>0, <2>1, <2>3, <3>1, ShipKeepsAInv
  <2> QED
    BY <1>0, <2>1, <2>2, <2>3, CmioPasses
<1>5. CASE Compose
  <2>1. PICK kind : msg' = [msg EXCEPT ![Found] = Msg(kind, None)]
    BY <1>5 DEF Compose
  <2> QED
    BY <1>0, <1>5, <2>1, FoundFree, TakeKeepsAInv DEF Compose, Background, link
<1>6. CASE PipeInt
  <2>1. UNCHANGED <<hw, wire, due, at, cur, waiting>>
    BY <1>6 DEF PipeInt, bg
  <2>2. \/ Free # {} /\ msg' = [msg EXCEPT ![Found] = Msg("INT", None)]
        \/ msg' = msg
    BY <1>6 DEF PipeInt
  <2> QED
    BY <1>0, <2>1, <2>2, FoundFree, TakeKeepsAInv, QuietKeepsAInv
<1>7. CASE TxEnd
  <2>1. /\ UNCHANGED <<hw, at, cur, waiting>> /\ due' = due \ {wire.id}
    BY <1>7 DEF TxEnd, bg
  <2>2. CASE txq # <<>>
    <3>1. /\ Head(txq) \in InQueue(txq) /\ Head(txq) \in Slots
      BY <1>0, <2>2, RingTake DEF TypeOK
    <3>2. /\ msg[Head(txq)].kind \in Outbound
          /\ Head(txq) # cur /\ Head(txq) \notin waiting
      BY <3>1 DEF IInv, KindsInPlace, Apart
    <3>3. wire' = msg[Head(txq)] /\ msg' = [msg EXCEPT ![Head(txq)] = Idle]
      BY <1>7, <2>2 DEF TxEnd
    <3> QED
      BY <1>0, <2>1, <3>1, <3>2, <3>3, ShipKeepsAInv
  <2>3. CASE txq = <<>>
    <3>1. wire' = Idle /\ msg' = msg
      BY <1>7, <2>3 DEF TxEnd
    <3>2. \A s \in Slots : Finished(s)' <=> Finished(s)
      BY <2>1, <3>1 DEF Finished
    <3>3. OneCarrier'
      <4>1. \A i \in DOMAIN hw : hw[i].id # None
        BY IdleIsNoMessage DEF AInv, OneCarrier
      <4> QED
        BY <1>0, <2>1, <3>1, <4>1 DEF AInv, OneCarrier
    <3>4. DueExact'
      <4>1. \A i \in DOMAIN hw : hw[i].id # wire.id
        BY DEF AInv, OneCarrier
      <4>2. \A s \in Slots : msg[s].id # None => msg[s].id # wire.id
        BY DEF AInv, OneCarrier
      <4> QED
        BY <1>0, <2>1, <3>1, <3>2, <4>1, <4>2 DEF AInv, DueExact
    <3>5. IntAlone'
      BY <3>1 DEF AInv, IntAlone
    <3> QED
      BY <3>3, <3>4, <3>5 DEF AInv
  <2> QED
    BY <2>2, <2>3
<1>8. CASE IsrQueue \/ Tick
  BY <1>0, <1>8, QuietKeepsAInv DEF IsrQueue, Tick, bg, link
<1>9. CASE UNCHANGED vars
  BY <1>0, <1>9, QuietKeepsAInv DEF vars, bg, link
<1>10. CASE NoAnswer \/ Send \/ Release
  BY <1>10, HandleKeepsAInv
<1>11. CASE \E kind \in Kinds, id \in Ids : Request(kind, id)
  BY <1>11, RequestKeepsAInv
<1>12. CASE RxTake
  BY <1>12, RxTakeKeepsAInv
<1> QED
  BY <1>1, <1>2, <1>3, <1>4, <1>5, <1>6, <1>7, <1>8, <1>9, <1>10, <1>11, <1>12
     DEF Next, Loop, Isr

\* As long as opto_cmio finds room in txq, every request the host waits for is in
\* the firmware once, or its answer is, and no answer goes out twice.
THEOREM AnswersExact == Spec /\ []TxRoom => []AnsweredOnce
<1>1. Init => AInv
  <2> SUFFICES ASSUME Init PROVE AInv
    OBVIOUS
  <2>1. /\ hw = <<>> /\ wire = Idle /\ due = {}
        /\ \A s \in Slots : msg[s].id = None /\ msg[s].kind # "INT"
    BY DEF Init, Idle
  <2>2. DOMAIN hw = {} /\ wire.id = None
    BY <2>1 DEF Idle
  <2>3. OneCarrier
    BY <2>1, <2>2 DEF OneCarrier
  <2>4. DueExact
    BY <2>1, <2>2 DEF DueExact
  <2> QED
    BY <2>1, <2>3, <2>4 DEF AInv, IntAlone
<1>2. ASSUME IInv, PlaceSound, LostInv, AInv PROVE AnsweredOnce
  <2> SUFFICES ASSUME NEW id \in Ids
               PROVE  Cardinality(Pending(id)) + Cardinality(InLink(id))
                        + (IF wire.id = id THEN 1 ELSE 0) = IF id \in due THEN 1 ELSE 0
    BY DEF AnsweredOnce
  <2>0. id # None
    BY IdleIsNoMessage
  <2>1. \A s \in Slots : s \in Pending(id) <=>
          msg[s].id = id /\ ~Finished(s) /\ msg[s].kind \in Answered \cup Outbound
    <3>1. \A s \in Slots : place[s] = "lost" => msg[s].id # id
      BY <1>2, <2>0 DEF PlaceSound, LostInv, Msg
    <3> QED
      BY <3>1 DEF Pending, Finished
  <2>2. \A s \in Slots : s \in Pending(id) <=> msg[s].id = id /\ ~Finished(s) /\ id \in due
    BY <1>2, <2>0, <2>1 DEF AInv, DueExact
  <2>3. \A i \in DOMAIN hw : i \in InLink(id) <=> hw[i].id = id /\ id \in due
    BY <1>2 DEF AInv, DueExact, InLink
  <2>4. Pending(id) \subseteq Slots /\ InLink(id) \subseteq DOMAIN hw
    BY DEF Pending, InLink
  <2>5. CASE id \notin due
    <3>1. Pending(id) = {} /\ InLink(id) = {} /\ wire.id # id
      BY <1>2, <2>0, <2>2, <2>3, <2>4, <2>5 DEF AInv, DueExact
    <3> QED
      BY <2>5, <3>1, FS_EmptySet
  <2>6. CASE id \in due /\ wire.id = id
    <3>1. Pending(id) = {} /\ InLink(id) = {}
      BY <1>2, <2>0, <2>2, <2>3, <2>4, <2>6 DEF AInv, OneCarrier
    <3> QED
      BY <2>6, <3>1, FS_EmptySet
  <2>7. CASE id \in due /\ wire.id # id /\ \E i \in DOMAIN hw : hw[i].id = id
    <3>1. PICK i \in DOMAIN hw : hw[i].id = id
      BY <2>7
    <3>2. Pending(id) = {} /\ InLink(id) = {i}
      BY <1>2, <2>0, <2>2, <2>3, <2>4, <2>7, <3>1 DEF AInv, OneCarrier
    <3>3. Cardinality(Pending(id)) = 0 /\ Cardinality(InLink(id)) = 1
      BY <3>2, FS_EmptySet, FS_Singleton
    <3> QED
      BY <2>7, <3>3
  <2>8. CASE id \in due /\ wire.id # id /\ \A i \in DOMAIN hw : hw[i].id # id
    <3>1. PICK s \in Slots : msg[s].id = id /\ ~Finished(s)
      BY <1>2, <2>8 DEF AInv, DueExact
    <3>2. \A t \in Slots : t # s /\ msg[t].id = id => Finished(t)
      BY <1>2, <2>0, <3>1 DEF AInv, OneCarrier, IInv, KindsInPlace, Finished
    <3>3. Pending(id) = {s} /\ InLink(id) = {}
      BY <2>2, <2>3, <2>4, <2>8, <3>1, <3>2
    <3>4. Cardinality(Pending(id)) = 1 /\ Cardinality(InLink(id)) = 0
      BY <3>3, FS_EmptySet, FS_Singleton
    <3> QED
      BY <2>8, <3>4
  <2> QED
    BY <2>5, <2>6, <2>7, <2>8
<1> QED
  BY <1>1, <1>2, SpecIInv, SpecLost, PlaceFaithful, StepKeepsAInv, PTL DEF Spec
=============================================================================
