-------------------------- MODULE SubscriptionLedger --------------------------
(***************************************************************************)
(* What the documentation promises of subscriptions, with every operation  *)
(* in one step: spending a code and adding its months to the term of the   *)
(* organisation are the same event, and only an unspent code is withdrawn. *)
(***************************************************************************)
EXTENDS Naturals

CONSTANTS Codes, Orgs, Durations, SetDates, Unlimited, None

VARIABLES
  now,
  worth,      \* what an offered code is worth, None before it is offered
  withdrawn,
  spent,
  term        \* the end of each subscription, None if there is no such org

vars == <<now, worth, withdrawn, spent, term>>

\* The months follow what is left of the term; a lapsed term starts today.
Plus(end, d) ==
  CASE d = Unlimited                   -> Unlimited
    [] d # Unlimited /\ end = Unlimited -> now + d
    [] OTHER                           -> (IF end < now THEN now ELSE end) + d

Init ==
  /\ now = 0
  /\ worth \in [Codes -> Durations \union {None}]
  /\ withdrawn = {}
  /\ spent = {}
  /\ \A o \in Orgs : term[o] \in Nat \union {Unlimited, None}

Offer(c, d) ==
  /\ worth[c] = None
  /\ worth' = [worth EXCEPT ![c] = d]
  /\ UNCHANGED <<now, withdrawn, spent, term>>

Withdraw(c) ==
  /\ worth[c] # None
  /\ c \notin spent
  /\ withdrawn' = withdrawn \union {c}
  /\ UNCHANGED <<now, worth, spent, term>>

Spend(c) ==
  /\ worth[c] # None
  /\ c \notin spent \union withdrawn
  /\ spent' = spent \union {c}
  /\ UNCHANGED <<now, worth, withdrawn>>

\* A code buys a new organisation its first term, counted from today ...
Found(o, c) ==
  /\ term[o] = None
  /\ Spend(c)
  /\ term' = [term EXCEPT ![o] = Plus(now, worth[c])]

\* ... or renews an organisation it is of any use to.
Renew(o, c) ==
  /\ term[o] # None
  /\ term[o] = Unlimited => worth[c] = Unlimited
  /\ Spend(c)
  /\ term' = [term EXCEPT ![o] = Plus(@, worth[c])]

\* A super admin extends, sets or removes the end.
Adjust(o) ==
  /\ term[o] # None
  /\ term' \in {[term EXCEPT ![o] = Plus(@, d)] : d \in Durations \union {Unlimited}}
               \union {[term EXCEPT ![o] = date] : date \in SetDates}
  /\ UNCHANGED <<now, worth, withdrawn, spent>>

Tick ==
  /\ now' = now + 1
  /\ UNCHANGED <<worth, withdrawn, spent, term>>

Next ==
  \/ \E c \in Codes, d \in Durations : Offer(c, d)
  \/ \E c \in Codes : Withdraw(c)
  \/ \E o \in Orgs, c \in Codes : Found(o, c) \/ Renew(o, c)
  \/ \E o \in Orgs : Adjust(o)
  \/ Tick

Spec == Init /\ [][Next]_vars
=============================================================================
