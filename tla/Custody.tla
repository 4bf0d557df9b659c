-------------------------------- MODULE Custody --------------------------------
(***************************************************************************)
(* What the assignments of equipment promise (ADR-009, and the invariant   *)
(* stated at EquipmentAssignment): a piece is given to one member at a     *)
(* time, an assignment is of one piece and one member for good, and once   *)
(* the piece is back it is never given out by the same assignment again.   *)
(***************************************************************************)
CONSTANTS Pieces, Members, Assignments, None

VARIABLES
  of,   \* the piece and the member of each assignment, None before there is one
  out   \* the assignments whose piece has not been returned

Init ==
  /\ of = [a \in Assignments |-> None]
  /\ out = {}

Give(a, p, m) ==
  /\ of[a] = None
  /\ \A b \in out : of[b].piece # p
  /\ of' = [of EXCEPT ![a] = [piece |-> p, member |-> m]]
  /\ out' = out \union {a}

TakeBack(a) ==
  /\ a \in out
  /\ out' = out \ {a}
  /\ UNCHANGED of

Next == \E a \in Assignments :
          TakeBack(a) \/ \E p \in Pieces, m \in Members : Give(a, p, m)

Spec == Init /\ [][Next]_<<of, out>>
=============================================================================
