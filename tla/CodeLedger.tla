------------------------------ MODULE CodeLedger ------------------------------
(***************************************************************************)
(* What registration codes promise to whoever sells them ("vsaka koda je   *)
(* enkratna"): a code is offered once, is spent at most once, for one      *)
(* organisation, and never after it was withdrawn.                         *)
(***************************************************************************)
CONSTANTS Codes, Orgs, None

VARIABLES
  offered,    \* codes that were issued
  withdrawn,  \* codes that were revoked
  holder      \* the organisation each code was spent for

vars == <<offered, withdrawn, holder>>

Init ==
  /\ offered \in SUBSET Codes
  /\ withdrawn = {}
  /\ holder = [c \in Codes |-> None]

Offer(c) ==
  /\ c \notin offered
  /\ offered' = offered \union {c}
  /\ UNCHANGED <<withdrawn, holder>>

Withdraw(c) ==
  /\ c \in offered
  /\ withdrawn' = withdrawn \union {c}
  /\ UNCHANGED <<offered, holder>>

Spend(c, o) ==
  /\ c \in offered \ withdrawn
  /\ holder[c] = None
  /\ holder' = [holder EXCEPT ![c] = o]
  /\ UNCHANGED <<offered, withdrawn>>

Next == \E c \in Codes : Offer(c) \/ Withdraw(c) \/ \E o \in Orgs : Spend(c, o)

Spec == Init /\ [][Next]_vars
=============================================================================
