----------------------------- MODULE InvoiceLedger -----------------------------
(***************************************************************************)
(* The life of an invoice as docs/MODULES.md tells it: issue it, the       *)
(* organisation pays, mark it as paid, the subscription is extended - in   *)
(* one step and once.  Only an unpaid invoice is cancelled, and a cancelled *)
(* one is never paid.  A subscription without end stays without end.       *)
(***************************************************************************)
EXTENDS Naturals

CONSTANTS Orgs, Invoices, Durations, SetTerms, Unlimited, None

VARIABLES
  now,
  status,   \* of each invoice
  owner,    \* the organisation it was issued for
  months,   \* the months it bills
  term      \* the end of each subscription

vars == <<now, status, owner, months, term>>

Init ==
  /\ now = 0
  /\ status = [i \in Invoices |-> "none"]
  /\ owner = [i \in Invoices |-> None]
  /\ months = [i \in Invoices |-> None]
  /\ \A o \in Orgs : term[o] \in Nat \union {Unlimited}

Later(end, d) == (IF end > now THEN end ELSE now) + d

Issue(i, o, d) ==
  /\ status[i] = "none"
  /\ status' = [status EXCEPT ![i] = "open"]
  /\ owner' = [owner EXCEPT ![i] = o]
  /\ months' = [months EXCEPT ![i] = d]
  /\ UNCHANGED <<now, term>>

Pay(i) ==
  /\ status[i] = "open"
  /\ status' = [status EXCEPT ![i] = "paid"]
  /\ \/ UNCHANGED term
     \/ /\ term[owner[i]] # Unlimited
        /\ term' = [term EXCEPT ![owner[i]] = Later(@, months[i])]
  /\ UNCHANGED <<now, owner, months>>

Cancel(i) ==
  /\ status[i] = "open"
  /\ status' = [status EXCEPT ![i] = "cancelled"]
  /\ UNCHANGED <<now, owner, months, term>>

Adjust(o) ==
  /\ \/ \E t \in SetTerms : term' = [term EXCEPT ![o] = t]
     \/ \E d \in Durations :
          term' = [term EXCEPT ![o] = IF @ = Unlimited THEN now + d ELSE Later(@, d)]
  /\ UNCHANGED <<now, status, owner, months>>

Tick ==
  /\ now' = now + 1
  /\ UNCHANGED <<status, owner, months, term>>

Next ==
  \/ \E i \in Invoices, o \in Orgs, d \in Durations : Issue(i, o, d)
  \/ \E i \in Invoices : Pay(i) \/ Cancel(i)
  \/ \E o \in Orgs : Adjust(o)
  \/ Tick

Spec == Init /\ [][Next]_vars
=============================================================================
