------------------------------ MODULE MCEquipment ------------------------------
(* Small instances of Equipment for TLC; the bounds are in the .cfg files. *)
EXTENDS Equipment, TLC

CONSTANTS n1, n2, t1, plain, separated, lower

Blank == [active |-> Keep, number |-> Keep, tag |-> Keep]

\* A number changes together with the tag, bound in another spelling; it is
\* cleared; a piece is put back into use.
AllEdits ==
  {[Blank EXCEPT !.number = n2, !.tag = <<t1, lower>>],
   [Blank EXCEPT !.number = None], [Blank EXCEPT !.active = TRUE]}

\* A new piece has no tag, or one as it was typed.
MCNewTags == {None, <<t1, separated>>}

MCSymmetry == Permutations(Pieces) \union Permutations(Requests) \union Permutations(Members)
=============================================================================
