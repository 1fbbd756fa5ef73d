-------------------------------- MODULE FwMsg --------------------------------
(***************************************************************************)
(* The messages of the firmware as a whole: from the link through the CM   *)
(* queue to the servers, and the answers back to the link                  *)
(* (nios/de0_fw: core/cm.c, cp_srv/cp_srv.c, daq_srv/daq_srv.c,            *)
(* driver/opto.c, core/main.c).                                            *)
(*                                                                         *)
(* The background loop calls cm_thread, cp_thread and daq_thread in turn,   *)
(* each of which handles one message at most; the link's interrupt handler *)
(* puts requests of the host and the end of an acquisition into the CM     *)
(* queue at any time.  Which queued slot cm_thread finds is left open, as   *)
(* in SlotPool, which CmQueue implements.  The queues of pointers are rings *)
(* without a test for room.                                                *)
(*                                                                         *)
(* A request carries its number, and so does its response: the sequence    *)
(* number and the addresses that cm_send copies.  "due" is a history: the  *)
(* requests to which the host is still to get a response.                  *)
(***************************************************************************)
EXTENDS Naturals, Sequences, FiniteSets

CONSTANTS Slots,  \* the CM message slots
          Kinds,  \* bound: the requests the host sends
          Ids,    \* bound: numbers of the requests under way
          Frames, \* bound: frames in the link's hardware slots
          RxQue,  \* CP_RX_QUE and DAQ_RX_QUE
          TxQue,  \* OPTO_TX_QUE
          None

\* VER stands for the version, trace, memory and block requests, NOP for what a
\* server takes without an answer, BAD for what cm_route does not pass on.
CmKinds  == {"OPEN", "CLOSE", "QUERY"}
CpKinds  == {"VER", "PING", "NOP"}
DaqKinds == {"RUN", "INT"}
Requests == CmKinds \cup CpKinds \cup {"RUN", "BAD"}
Answered == {"OPEN", "QUERY", "VER", "PING", "RUN"}
Composed == Answered \cup {"INT"}     \* for these the handler takes a slot
Outbound == {"RSP", "PONG", "DONE"}

ASSUME SlotsAssumption  == IsFiniteSet(Slots) /\ None \notin Slots
ASSUME KindsAssumption  == Kinds \subseteq Requests
ASSUME IdsAssumption    == IsFiniteSet(Ids) /\ None \notin Ids
ASSUME FramesAssumption == Frames \in Nat \ {0}
ASSUME QueAssumption    == RxQue \in Nat /\ RxQue >= 2 /\ TxQue \in Nat /\ TxQue >= 2

Message == [kind : Requests \cup {"INT"} \cup Outbound, id : Ids \cup {None}]
Idle    == [kind |-> "IDLE", id |-> None]
Msg(kind, id) == [kind |-> kind, id |-> id]

VARIABLES msg,       \* what is in each slot; Idle when its state is CM_Q_IDLE
          waiting,   \* the slots in state CM_Q_DELIVER
          cpq, daqq, \* rxq of cp_srv.c and of daq_srv.c
          txq,       \* txq of opto.c
          turn,      \* the thread the background loop is in
          at,        \* where in that thread it is
          cur, new,  \* the slot it handles, the slot it has taken for the answer
          isr,       \* the slot the interrupt handler has taken and not yet queued
          hw,        \* frames in the link's receive slots
          wire,      \* the message that is going out, or Idle
          connected, \* CFG_STATUS_CONNECTED
          running,   \* whether the acquisition will end with a pipe interrupt
          due        \* requests the host is to get a response to

queues == <<cpq, daqq, txq>>
bg     == <<turn, at, cur, new>>
link   == <<isr, hw, wire>>
vars   == <<msg, waiting, queues, bg, link, connected, running, due>>

Free == {s \in Slots : msg[s] = Idle}

\* Slip: cm_alloc does not look at the state.
FoundAny == CHOOSE s \in Slots : TRUE

\* The slot cm_alloc finds.  Slots differ in nothing but their name, so that it
\* makes no difference which one it is.
Found == CHOOSE s \in Slots : s \in Free

\* if (++head == slots) head = 0, without a test for head = tail: the entry that
\* fills the ring makes it look empty.
Put(q, s, size) == IF Len(q) + 1 = size THEN <<>> ELSE Append(q, s)

Init ==
  /\ msg = [s \in Slots |-> Idle] /\ waiting = {}
  /\ cpq = <<>> /\ daqq = <<>> /\ txq = <<>>
  /\ turn = "cm" /\ at = "fetch" /\ cur = None /\ new = None
  /\ isr = None /\ hw = <<>> /\ wire = Idle
  /\ connected = FALSE /\ running = FALSE /\ due = {}

-----------------------------------------------------------------------------
\* The background, unless the link's handler is running: while a frame waits
\* and no slot is free, it does not return.
Background(place) == at = place /\ isr = None /\ hw = <<>>

\* Slip: cm_thread goes on as long as it finds messages.
NextTurnCmFirst(cp, daq) ==
  /\ at'   = "fetch"
  /\ turn' = IF waiting # {} THEN "cm"
             ELSE IF cp # <<>> THEN "cp" ELSE IF daq # <<>> THEN "daq" ELSE "cm"

\* The loop goes on with the next thread that finds a message; nothing but the
\* loop fills and empties the servers' queues.
NextTurn(cp, daq) ==
  /\ at'   = "fetch"
  /\ turn' = IF turn = "cm" /\ cp # <<>> THEN "cp"
             ELSE IF turn # "daq" /\ daq # <<>> THEN "daq" ELSE "cm"

\* cm_thread takes a queued slot.
Fetch(s) ==
  /\ Background("fetch") /\ turn = "cm"
  /\ s \in waiting
  /\ waiting' = waiting \ {s}
  /\ cur' = s /\ at' = "route"
  /\ UNCHANGED <<msg, queues, turn, new, link, connected, running, due>>

\* cp_thread and daq_thread
CpFetch ==
  /\ Background("fetch") /\ turn = "cp"
  /\ cur' = Head(cpq) /\ cpq' = Tail(cpq) /\ at' = "handle"
  /\ UNCHANGED <<msg, waiting, daqq, txq, turn, new, link, connected, running, due>>

DaqFetch ==
  /\ Background("fetch") /\ turn = "daq"
  /\ cur' = Head(daqq) /\ daqq' = Tail(daqq) /\ at' = "handle"
  /\ UNCHANGED <<msg, waiting, cpq, txq, turn, new, link, connected, running, due>>

\* Slip: the queue is left to the transmit interrupt.
CmioNoKick == txq' = Put(txq, cur, TxQue) /\ UNCHANGED <<wire, msg>>

\* opto_cmio: the pointer is put in txq, and the first message of txq goes to
\* the hardware, and its slot back to the pool, if the line is idle.
Cmio ==
  LET q == Put(txq, cur, TxQue)
  IN  IF wire = Idle /\ q # <<>>
      THEN /\ wire' = msg[Head(q)]
           /\ msg'  = [msg EXCEPT ![Head(q)] = Idle]
           /\ txq'  = Tail(q)
      ELSE txq' = q /\ UNCHANGED <<wire, msg>>

\* cm_thread and cm_route pass the slot on by its destination.
RouteOut ==
  /\ Background("route") /\ msg[cur].kind \in Outbound
  /\ Cmio
  /\ cur' = None /\ NextTurn(cpq, daqq)
  /\ UNCHANGED <<waiting, cpq, daqq, new, isr, hw, connected, running, due>>

RouteCp ==
  /\ Background("route") /\ msg[cur].kind \in CpKinds
  /\ cpq' = Put(cpq, cur, RxQue)
  /\ cur' = None /\ NextTurn(cpq', daqq)
  /\ UNCHANGED <<msg, waiting, daqq, txq, new, link, connected, running, due>>

RouteDaq ==
  /\ Background("route") /\ msg[cur].kind \in DaqKinds
  /\ daqq' = Put(daqq, cur, RxQue)
  /\ cur' = None /\ NextTurn(cpq, daqq')
  /\ UNCHANGED <<msg, waiting, cpq, txq, new, link, connected, running, due>>

\* cm_msg is called by cm_route; what is not valid is only freed.
RouteCm ==
  /\ Background("route") /\ msg[cur].kind \in CmKinds \cup {"BAD"}
  /\ at' = IF msg[cur].kind = "BAD" THEN "release" ELSE "handle"
  /\ UNCHANGED <<msg, waiting, queues, turn, cur, new, link, connected, running, due>>

-----------------------------------------------------------------------------
\* cm_msg, cp_msg, daq_msg: cm_alloc for the answer ...
Compose ==
  /\ Background("handle") /\ msg[cur].kind \in Composed
  /\ Free # {}
  /\ msg' = [msg EXCEPT ![Found] = Msg(CASE msg[cur].kind = "INT"  -> "DONE"
                                     [] msg[cur].kind = "PING" -> "PONG"
                                     [] OTHER                  -> "RSP", None)]
  /\ new' = Found /\ at' = "send"
  /\ IF msg[cur].kind = "RUN" THEN running' \in BOOLEAN ELSE UNCHANGED running
  /\ UNCHANGED <<waiting, queues, turn, cur, link, connected, due>>

\* Slip: an early return, past cm_free.
NoAnswerReturns ==
  /\ Background("handle")
  /\ msg[cur].kind \in Composed => Free = {}
  /\ due' = due \ {msg[cur].id}
  /\ connected' = (connected /\ msg[cur].kind # "CLOSE")
  /\ NextTurn(cpq, daqq)
  /\ UNCHANGED <<msg, waiting, queues, cur, new, link, running>>

\* ... or none is free, and the request is dropped without an answer; or the
\* message wants no answer, and CLOSE ends the connection.
NoAnswer ==
  /\ Background("handle")
  /\ msg[cur].kind \in Composed => Free = {}
  /\ at'  = "release"
  /\ due' = due \ {msg[cur].id}
  /\ connected' = (connected /\ msg[cur].kind # "CLOSE")
  /\ UNCHANGED <<msg, waiting, queues, turn, cur, new, link, running>>

\* cm_send: the header is copied from the request and the slot queued.  A ping
\* is answered only when connected: else the slot is neither queued nor freed.
Refused == msg[cur].kind = "PING" /\ ~connected

SendWith(queue, id) ==
  /\ Background("send")
  /\ IF Refused
     THEN due' = due \ {msg[cur].id} /\ UNCHANGED <<msg, waiting>>
     ELSE /\ msg' = [msg EXCEPT ![new].id = id]
          /\ waiting' = IF queue THEN waiting \cup {new} ELSE waiting
          /\ UNCHANGED due
  /\ connected' = (connected \/ msg[cur].kind = "OPEN")
  /\ new' = None /\ at' = "release"
  /\ UNCHANGED <<queues, turn, cur, link, running>>

\* Slip: what is done for the ping, return without cm_send, is done for every
\* answer while there is no connection.
SendUnlessConnected == SendWith(connected, msg[cur].id)

\* Slip: cm_send does not copy the header of the request.
SendAnonymous == SendWith(TRUE, None)

Send == SendWith(TRUE, msg[cur].id)

\* cm_free(msg), and back to the loop
Release ==
  /\ Background("release")
  /\ msg' = [msg EXCEPT ![cur] = Idle]
  /\ cur' = None /\ NextTurn(cpq, daqq)
  /\ UNCHANGED <<waiting, queues, new, link, connected, running, due>>

-----------------------------------------------------------------------------
\* The numbers of requests the firmware still has something of.
LiveIds ==
  {hw[i].id : i \in DOMAIN hw} \cup {wire.id} \cup
  {msg[s].id : s \in Slots}

\* The host sends a request under a number that is not in use.
Request(kind, id) ==
  /\ Len(hw) < Frames
  /\ id \notin LiveIds
  /\ hw'  = Append(hw, Msg(kind, id))
  /\ due' = IF kind \in Answered THEN due \cup {id} ELSE due
  /\ UNCHANGED <<msg, waiting, queues, bg, isr, wire, connected, running>>

\* opto_isr, receive: a slot is taken and filled ...
RxTake ==
  /\ isr = None /\ hw # <<>>
  /\ Free # {}
  /\ msg' = [msg EXCEPT ![Found] = Head(hw)]
  /\ hw'  = Tail(hw)
  /\ isr' = Found
  /\ UNCHANGED <<waiting, queues, bg, wire, connected, running, due>>

\* ... and, as in cm_local, queued.
IsrQueue ==
  /\ isr # None
  /\ waiting' = waiting \cup {isr}
  /\ isr' = None
  /\ UNCHANGED <<msg, queues, bg, hw, wire, connected, running, due>>

\* opto_isr, end of the acquisition: cm_local takes a slot, or does nothing when
\* none is free.
PipeInt ==
  /\ isr = None /\ running
  /\ running' = FALSE
  /\ IF Free # {}
     THEN msg' = [msg EXCEPT ![Found] = Msg("INT", None)] /\ isr' = Found
     ELSE UNCHANGED <<msg, isr>>
  /\ UNCHANGED <<waiting, queues, bg, hw, wire, connected, due>>

\* opto_isr, transmit: a message is out, and the next one of txq follows.
TxEnd ==
  /\ isr = None /\ wire # Idle
  /\ due' = due \ {wire.id}
  /\ IF txq # <<>>
     THEN /\ wire' = msg[Head(txq)]
          /\ msg'  = [msg EXCEPT ![Head(txq)] = Idle]
          /\ txq'  = Tail(txq)
     ELSE wire' = Idle /\ UNCHANGED <<msg, txq>>
  /\ UNCHANGED <<waiting, cpq, daqq, bg, isr, hw, connected, running>>

\* cp_tick: the ping timeout
Tick ==
  /\ connected
  /\ connected' = FALSE
  /\ UNCHANGED <<msg, waiting, queues, bg, link, running, due>>

Loop ==
  \/ CpFetch \/ DaqFetch
  \/ RouteOut \/ RouteCp \/ RouteDaq \/ RouteCm
  \/ \E s \in Slots : Fetch(s)
  \/ Compose \/ NoAnswer \/ Send \/ Release

Isr == IsrQueue \/ RxTake

Next ==
  \/ Loop \/ Isr \/ PipeInt \/ TxEnd \/ Tick
  \/ \E kind \in Kinds, id \in Ids : Request(kind, id)

\* Interrupts leave the background loop its time, cm_thread finds every queued
\* slot some time (CmQueue's Fetched), the handler runs to its end, and the host
\* takes what is on the line.
Spec ==
  /\ Init /\ [][Next]_vars
  /\ SF_vars(Loop) /\ WF_vars(Isr) /\ SF_vars(TxEnd)
  /\ \A s \in Slots : SF_vars(Fetch(s))

-----------------------------------------------------------------------------
TypeOK ==
  /\ msg \in [Slots -> Message \cup {Idle}]
  /\ waiting \subseteq Slots
  /\ cpq \in Seq(Slots) /\ daqq \in Seq(Slots) /\ txq \in Seq(Slots)
  /\ turn \in {"cm", "cp", "daq"}
  /\ at \in {"fetch", "route", "handle", "send", "release"}
  /\ cur \in Slots \cup {None} /\ new \in Slots \cup {None} /\ isr \in Slots \cup {None}
  /\ cur = None <=> at = "fetch"
  /\ new # None <=> at = "send"
  /\ hw \in Seq(Message) /\ Len(hw) <= Frames
  /\ wire \in Message \cup {Idle}
  /\ connected \in BOOLEAN /\ running \in BOOLEAN
  /\ due \subseteq Ids

InQueue(q) == {q[i] : i \in DOMAIN q}

\* Where a slot is, for somebody who follows the pointers to it.
place == [s \in Slots |->
  CASE msg[s] = Idle       -> "pool"
    [] s \in waiting       -> "waiting"
    [] s \in {cur, new}    -> "bg"
    [] s = isr             -> "isr"
    [] s \in InQueue(cpq)  -> "cp"
    [] s \in InQueue(daqq) -> "daq"
    [] s \in InQueue(txq)  -> "tx"
    [] OTHER               -> "lost"]

\* A slot out of the pool can be found from some queue or handler, so that it
\* will be freed: no ring overruns, no handler forgets its message.  The one
\* leak is the answer to a ping that comes when there is no connection.
NoLeak == \A s \in Slots : place[s] = "lost" => msg[s].kind = "PONG"

\* The servers' rings of eight have no test for room, and need none: the loop
\* serves each of them before cm_thread can route another message to it.
ServersKeepUp == Len(cpq) + Len(daqq) <= 1

\* Every request that is to be answered is either still in the firmware, once,
\* or its answer is, once: none is answered twice, none is forgotten, unless the
\* pool ran dry or the ping was refused.
Pending(id) ==
  {s \in Slots : /\ msg[s].id = id /\ place[s] # "lost"
                 /\ msg[s].kind \in Outbound \/ ~(s = cur /\ at = "release")
                 /\ msg[s].kind \in Answered \cup Outbound}
InLink(id) == {i \in DOMAIN hw : hw[i].id = id /\ hw[i].kind \in Answered}
AnsweredOnce ==
  \A id \in Ids :
    Cardinality(Pending(id)) + Cardinality(InLink(id)) + (IF wire.id = id THEN 1 ELSE 0)
      = IF id \in due THEN 1 ELSE 0

\* The servers, the link driver and their queues use the slots as the CM queue
\* promises them: nobody frees, queues or passes on a slot that is not theirs.
Pool == INSTANCE SlotPool
          WITH Holders <- {"bg", "isr", "cp", "daq", "tx", "lost"}, Bg <- "bg"
ImplementsPool == Pool!Spec

\* The host gets an answer to every request that is due one, however requests,
\* answers, interrupts and timeouts interleave, unless the firmware jams: the
\* link's handler waits for a slot that only the background, which it keeps from
\* running, could free.
Jammed == hw # <<>> /\ Free = {} /\ txq = <<>>
AllAnswered == \A id \in Ids : id \in due ~> id \notin due \/ Jammed
=============================================================================
