------------------------------ MODULE CmQueue ------------------------------
(***************************************************************************)
(* The message-slot queue of the Communications Manager                    *)
(* (nios/de0_fw/core/cm.c: cm_alloc, cm_qmsg, cm_thread, cm_free).         *)
(*                                                                         *)
(* CM owns a ring of CM_MSGQ_SLOTS message slots.  A sender takes a slot,   *)
(* composes the message in place and queues it; cm_thread picks queued     *)
(* slots in ring order and passes the pointer to a server or to a port's   *)
(* transmit routine, which frees the slot when it is done.  The four       *)
(* routines touch the ring with every interrupt disabled, so each is one   *)
(* atomic step here; everything between two of them interleaves.           *)
(*                                                                         *)
(* The code keeps no record of who holds a pointer to a slot: "held" is    *)
(* that record, the local variables and software queues that hold one.     *)
(***************************************************************************)
EXTENDS Naturals, FiniteSets

CONSTANTS N,        \* CM_MSGQ_SLOTS
          Contexts, \* what runs code: the background loop, the interrupt handlers
          Holders,  \* what can hold a slot pointer: contexts and software queues
          Bg,       \* the context that runs cm_thread
          Load      \* bound: slots out of IDLE at any time; N is no bound at all

ASSUME NAssumption       == N \in Nat \ {0}
ASSUME HoldersAssumption == Bg \in Contexts /\ Contexts \subseteq Holders
ASSUME LoadAssumption    == Load \in 1..N

Slots == 0 .. N-1

VARIABLES qstate,    \* cmq[i].state
          q_head,    \* cm.q_head: where cm_alloc starts looking
          q_tail,    \* cm.q_tail: where cm_thread starts looking
          q_msg_cnt, \* cm.q_msg_cnt
          held       \* held[h]: the slots h holds a pointer to

vars == <<qstate, q_head, q_tail, q_msg_cnt, held>>

SlotState == {"IDLE", "ALLOC", "DELIVER", "BUSY"}
Queued    == {s \in Slots : qstate[s] = "DELIVER"}
InUse     == {s \in Slots : qstate[s] # "IDLE"}

\* Slip: the wrap test uses > for >=.
AfterSlip(i) == IF i + 1 > N THEN 0 ELSE i + 1

\* if (++i >= CM_MSGQ_SLOTS) i = 0
After(i) == IF i + 1 >= N THEN 0 ELSE i + 1

\* How many increments take the ring index from i to s.
Dist(i, s) == IF s >= i THEN s - i ELSE s + N - i

\* The scan loops stop at the first slot in state st, starting from i.
FirstFrom(i, s, st) ==
  /\ qstate[s] = st
  /\ \A t \in Slots : qstate[t] = st => Dist(i, s) <= Dist(i, t)

\* cm_init
Init ==
  /\ qstate    = [s \in Slots |-> "IDLE"]
  /\ q_head    = 0
  /\ q_tail    = 0
  /\ q_msg_cnt = 0
  /\ held      = [h \in Holders |-> {}]

\* Slip: cm_alloc leaves the slot it hands out IDLE.
AllocSlip(h) ==
  /\ Cardinality(InUse) < Load
  /\ \E s \in Slots :
       /\ FirstFrom(q_head, s, "IDLE")
       /\ q_head' = After(s)
       /\ held'   = [held EXCEPT ![h] = @ \cup {s}]
  /\ UNCHANGED <<qstate, q_tail, q_msg_cnt>>

\* Slip: cm_alloc takes the slot at q_head without a look at its state.
AllocOverrun(h) ==
  /\ Cardinality(InUse) < Load
  /\ qstate' = [qstate EXCEPT ![q_head] = "ALLOC"]
  /\ q_head' = After(q_head)
  /\ held'   = [held EXCEPT ![h] = @ \cup {q_head}]
  /\ UNCHANGED <<q_tail, q_msg_cnt>>

\* cm_alloc.  With no IDLE slot it walks the whole ring and returns NULL,
\* leaving q_head where it was.
Alloc(h) ==
  /\ Cardinality(InUse) < Load
  /\ \E s \in Slots :
       /\ FirstFrom(q_head, s, "IDLE")
       /\ qstate' = [qstate EXCEPT ![s] = "ALLOC"]
       /\ q_head' = After(s)
       /\ held'   = [held EXCEPT ![h] = @ \cup {s}]
  /\ UNCHANGED <<q_tail, q_msg_cnt>>

\* Slip: the mask is half the ring's size.
QmsgSlip(h, s) ==
  /\ s \in held[h]
  /\ qstate[s] = "ALLOC"
  /\ qstate'    = [qstate EXCEPT ![s] = "DELIVER"]
  /\ q_msg_cnt' = (q_msg_cnt + 1) % (N \div 2)
  /\ held'      = [held EXCEPT ![h] = @ \ {s}]
  /\ UNCHANGED <<q_head, q_tail>>

\* cm_qmsg, reached through cm_send, cm_local or opto_isr with a slot the
\* caller has just composed.  The counter is masked with N - 1, which is % N for
\* the code's N, 128.
Qmsg(h, s) ==
  /\ s \in held[h]
  /\ qstate[s] = "ALLOC"
  /\ qstate'    = [qstate EXCEPT ![s] = "DELIVER"]
  /\ q_msg_cnt' = (q_msg_cnt + 1) % N
  /\ held'      = [held EXCEPT ![h] = @ \ {s}]
  /\ UNCHANGED <<q_head, q_tail>>

\* Slip: cm_free drops the pointer and leaves the slot's state alone.
FreeSlip(h, s) ==
  /\ s \in held[h]
  /\ held' = [held EXCEPT ![h] = @ \ {s}]
  /\ UNCHANGED <<qstate, q_head, q_tail, q_msg_cnt>>

\* cm_free, whatever the state of the slot.
Free(h, s) ==
  /\ s \in held[h]
  /\ qstate' = [qstate EXCEPT ![s] = "IDLE"]
  /\ held'   = [held EXCEPT ![h] = @ \ {s}]
  /\ UNCHANGED <<q_head, q_tail, q_msg_cnt>>

\* Delivery with a guard, a new tail and a new count left open, for the slips.
DeliverWith(guard, tail, count) ==
  /\ guard
  /\ \E s \in Slots :
       /\ FirstFrom(q_tail, s, "DELIVER")
       /\ qstate' = [qstate EXCEPT ![s] = "BUSY"]
       /\ q_tail' = tail[s]
       /\ held'   = [held EXCEPT ![Bg] = @ \cup {s}]
  /\ q_msg_cnt' = count
  /\ UNCHANGED q_head

\* Slips: the count is not taken down; the tail does not move on; the last
\* message is left waiting.
DeliverUncounted == DeliverWith(q_msg_cnt # 0, [s \in Slots |-> After(s)], q_msg_cnt)
DeliverTailStays == DeliverWith(q_msg_cnt # 0, [s \in Slots |-> q_tail], q_msg_cnt - 1)
DeliverLeavesOne == DeliverWith(q_msg_cnt > 1, [s \in Slots |-> After(s)], q_msg_cnt - 1)

\* The locked part of cm_thread.  When q_msg_cnt is not zero and nothing is
\* queued the scan returns q_tail to where it was.
Deliver ==
  /\ q_msg_cnt # 0
  /\ \E s \in Slots :
       /\ FirstFrom(q_tail, s, "DELIVER")
       /\ qstate' = [qstate EXCEPT ![s] = "BUSY"]
       /\ q_tail' = After(s)
       /\ held'   = [held EXCEPT ![Bg] = @ \cup {s}]
  /\ q_msg_cnt' = q_msg_cnt - 1
  /\ UNCHANGED q_head

\* A delivered pointer is put in a software queue (cp_qmsg, daq_qmsg,
\* opto_cmio) or taken out of one (cp_thread, daq_thread, opto_tx).
HandOver(h, k, s) ==
  /\ h # k
  /\ s \in held[h]
  /\ qstate[s] = "BUSY"
  /\ held' = [held EXCEPT ![h] = @ \ {s}, ![k] = @ \cup {s}]
  /\ UNCHANGED <<qstate, q_head, q_tail, q_msg_cnt>>

Next ==
  \/ \E h \in Contexts : Alloc(h)
  \/ \E h \in Contexts, s \in Slots : Qmsg(h, s) \/ Free(h, s)
  \/ Deliver
  \/ \E h, k \in Holders, s \in Slots : HandOver(h, k, s)

\* The background loop (main.c) calls cm_thread again and again, and every
\* handler it calls returns.  Nothing is assumed of the other steps.
Spec == Init /\ [][Next]_vars /\ WF_vars(Deliver)

----------------------------------------------------------------------------
TypeOK ==
  /\ qstate    \in [Slots -> SlotState]
  /\ q_head    \in Slots
  /\ q_tail    \in Slots
  /\ q_msg_cnt \in Slots
  /\ held      \in [Holders -> SUBSET Slots]

\* No two holders have a pointer to the same slot: cm_alloc never hands out a
\* slot somebody still composes, processes or transmits.
Exclusive == \A h, k \in Holders : h # k => held[h] \cap held[k] = {}

\* A slot is being composed or processed exactly as long as somebody holds a
\* pointer to it: nothing is freed under its holder, nothing is left behind.
HeldIsInUse ==
  \A s \in Slots : qstate[s] \in {"ALLOC", "BUSY"} <=> \E h \in Holders : s \in held[h]

\* q_msg_cnt counts the queued slots, modulo the ring's size.
CountExact == q_msg_cnt = Cardinality(Queued) % N

\* cm_thread does not look for a message when q_msg_cnt is 0.  That is wrong
\* in one state only: when every slot of the ring is queued.
StallOnlyWhenFull == q_msg_cnt = 0 => Queued \in {{}, Slots}

\* The comment in cm_qmsg, "q_msg_cnt cannot exceed number of slots, so
\* something has stalled otherwise", taken as what it promises cm_thread: the
\* counter never passes its largest value, so 0 says that nothing waits.
CountNeverWraps == q_msg_cnt = 0 => Queued = {}

\* Each delivery brings every message that keeps waiting closer to q_tail, so
\* at most N - 1 messages overtake it, whoever allocates in the meantime.
Delivers == \E t \in Slots : qstate[t] = "DELIVER" /\ qstate'[t] = "BUSY"
Approaches ==
  [][Delivers =>
       \A s \in Slots : (qstate[s] = "DELIVER" /\ qstate'[s] = "DELIVER")
                           => Dist(q_tail', s) < Dist(q_tail, s)]_vars

\* Every queued message is delivered, however the senders interleave, unless
\* the whole ring is queued at some time (then q_msg_cnt is 0: CountNeverWraps).
Fetched ==
  [](Queued # Slots) => \A s \in Slots : qstate[s] = "DELIVER" ~> qstate[s] = "BUSY"

\* What the ring promises its users (SlotPool): a pool of slots, each in one
\* place at a time.
place == [s \in Slots |->
            IF qstate[s] = "IDLE" THEN "pool"
            ELSE IF qstate[s] = "DELIVER" THEN "waiting"
            ELSE CHOOSE h \in Holders : s \in held[h]]

Pool == INSTANCE SlotPool

\* The ring, its counter and its scan order implement the pool: every step of
\* the queue moves one message the way the pool allows.
ImplementsPool == Pool!Spec
============================================================================
