------------------------------ MODULE SlotPool ------------------------------
(***************************************************************************)
(* What the message-slot queue promises: every slot is in exactly one      *)
(* place - the pool, the waiting room, or with one holder - and moves only  *)
(* the way a message's life goes, and only the delivering context fetches.  *)
(* How the next slot is found is left open.                                *)
(***************************************************************************)
CONSTANTS Slots, Holders, Bg

VARIABLE place

Init == place = [s \in Slots |-> "pool"]

Move(s, from, to) == place[s] = from /\ place' = [place EXCEPT ![s] = to]

Take(s)       == \E h \in Holders : Move(s, "pool", h)
Post(s)       == \E h \in Holders : Move(s, h, "waiting")
Fetch(s)      == Move(s, "waiting", Bg)
Pass(s)       == \E h, k \in Holders : Move(s, h, k)
GiveBack(s)   == \E h \in Holders : Move(s, h, "pool")

Next == \E s \in Slots : Take(s) \/ Post(s) \/ Fetch(s) \/ Pass(s) \/ GiveBack(s)

Spec == Init /\ [][Next]_place
============================================================================
