-------------------------------- MODULE Fifo --------------------------------
(***************************************************************************)
(* A first-in first-out link: what enters comes out once, in order, and    *)
(* does come out.                                                          *)
(***************************************************************************)
EXTENDS Sequences

CONSTANT Msgs

VARIABLES line, \* what has entered and not come out, oldest first
          out   \* what came out last

None == 0

Init == line = <<>> /\ out = None

Enter == \E m \in Msgs : line' = Append(line, m) /\ UNCHANGED out

Leave ==
  /\ line # <<>>
  /\ out'  = Head(line)
  /\ line' = Tail(line)

Safe == Init /\ [][Enter \/ Leave]_<<line, out>>
Spec == Safe /\ WF_<<line, out>>(Leave)
=============================================================================
