------------------------------- MODULE Invoices -------------------------------
(***************************************************************************)
(* Invoices for subscriptions (InvoicesService): numbering under an        *)
(* advisory lock, and the payment that is turned into a longer             *)
(* subscription by saving first the organisation and then the invoice.     *)
(*                                                                         *)
(* The granularity is that of Subscriptions: one action per database round *)
(* trip, save = reload + UPDATE of the columns that differ.  Of an         *)
(* organisation only the end of its subscription is kept.  Amounts and     *)
(* periods of an invoice carry no control and are left out.                *)
(***************************************************************************)
EXTENDS Naturals, FiniteSets, SubscriptionTerms

CONSTANTS
  Orgs,           \* organisations (all exist)
  Invoices,       \* identities of the invoices that may ever be issued
  Durations,      \* values of platform_invoices.months
  InitialTerms,   \* subscriptions at the start
  SetTerms,       \* what setSubscription may enter
  Requests,       \* requests; each is served once
  Ops,            \* the operations a run explores
  YearLength,     \* months in a year (12 in the code)
  Base,           \* of the numerals of sequence numbers (10)
  Capacity,       \* largest number that padStart(3) aligns (999)
  MaxNow,         \* bound on the clock
  MaxOverlap,     \* bound on the payments, cancellations, changes of a
                  \* subscription and restarts that overlap
  MaxCrashes,     \* bound on restarts of the server
  None

AllOps == {"create", "pay", "cancel", "set"}

ASSUME InvoicesAssumption ==
  /\ Durations \subseteq Nat \ {0}
  /\ InitialTerms \subseteq Term /\ SetTerms \subseteq Term
  /\ Ops \subseteq AllOps
  /\ YearLength \in Nat \ {0} /\ Base \in Nat \ {0, 1} /\ Capacity \in Nat \ {0}
  /\ MaxNow \in Nat /\ MaxOverlap \in Nat /\ MaxCrashes \in Nat
  /\ None \notin Orgs \union Invoices \union Nat \union Term

\* The padding aligns the numerals of some number of digits.
ASSUME CapacityAssumption == \E digits \in 1 .. Capacity : Capacity + 1 = Base ^ digits

VARIABLES
  now,       \* the clock, in months
  term,      \* organizations.subscription_expires_at
  invoice,   \* table platform_invoices
  pc,        \* where each request is
  task,      \* its arguments and local variables
  termMem,   \* the Organization entity it holds
  rowMem,    \* the PlatformInvoice entity it holds
  dirty,     \* the columns its save of the invoice is about to UPDATE
  crashes,   \* restarts so far
  billed,    \* history: the invoices that have extended a subscription
  ceiling    \* history: the latest end they and setSubscription account for

requestVars == <<pc, task, termMem, rowMem, dirty>>
vars == <<now, term, invoice, requestVars, crashes, billed, ceiling>>

\* paid_at and cancelled_at are "is not NULL"; number is <<year, seq>>.
Row == [org: Orgs, year: Nat, seq: Nat, months: Durations, paid: BOOLEAN, cancelled: BOOLEAN]

\* There is a row or there is none.
ASSUME NoneAssumption == None \notin Row

Task == [op: Ops, inv: Invoices, org: Orgs \union {None}, months: Durations \union {None},
         year: Nat, seq: Nat, extend: BOOLEAN]
NoTask == [op |-> None, inv |-> None, org |-> None, months |-> None,
           year |-> 0, seq |-> 0, extend |-> FALSE]
PCs == {"new", "lock", "number", "insert", "loadOrg", "orgReload", "orgUpdate",
        "invReload", "invUpdate", "done"}

\* Every variable keeps its type; a request holds rows of the right table.
TypeOK ==
  /\ now \in Nat
  /\ term \in [Orgs -> Term]
  /\ invoice \in [Invoices -> Row \union {None}]
  /\ pc \in [Requests -> PCs]
  /\ task \in [Requests -> Task \union {NoTask}]
  /\ termMem \in [Requests -> Term \union {None}]
  /\ rowMem \in [Requests -> Row \union {None}]
  /\ dirty \in [Requests -> SUBSET {"paid", "cancelled"}]
  /\ crashes \in Nat
  /\ billed \subseteq Invoices
  /\ ceiling \in [Orgs -> Nat]

Init ==
  /\ now = 0
  /\ term \in [Orgs -> InitialTerms]
  /\ invoice = [i \in Invoices |-> None]
  /\ pc = [r \in Requests |-> "new"]
  /\ task = [r \in Requests |-> NoTask]
  /\ termMem = [r \in Requests |-> None]
  /\ rowMem = [r \in Requests |-> None]
  /\ dirty = [r \in Requests |-> {}]
  /\ crashes = 0
  /\ billed = {}
  /\ ceiling = [o \in Orgs |-> IF term[o] = Unlimited THEN 0 ELSE term[o]]

-----------------------------------------------------------------------------
(* Requests *)

InFlight == {r \in Requests : pc[r] \notin {"new", "done"}}
Settling == {r \in InFlight : task[r].op \in {"pay", "cancel"}}

GoTo(r, place) == pc' = [pc EXCEPT ![r] = place]

Reply(r) ==
  /\ GoTo(r, "done")
  /\ task' = [task EXCEPT ![r] = NoTask]
  /\ termMem' = [termMem EXCEPT ![r] = None]
  /\ rowMem' = [rowMem EXCEPT ![r] = None]
  /\ dirty' = [dirty EXCEPT ![r] = {}]

CanStart(r, op) ==
  /\ pc[r] = "new"
  /\ op \in Ops
  /\ op # "create" => Cardinality(Settling) < MaxOverlap

Issued == {i \in Invoices : invoice[i] # None}

-----------------------------------------------------------------------------
(* Numbering *)

Year(month) == month \div YearLength
IssuedIn(y) == {i \in Issued : invoice[i].year = y}
Seqs(y) == {invoice[i].seq : i \in IssuedIn(y)}

\* number is text: a numeral with one digit more than the padding sorts by
\* its leading digits.  (Valid up to Base * (Capacity + 1) - 1.)
Leading(n) == IF n > Capacity THEN n \div Base ELSE n
SortsAfter(m, n) == Leading(m) > Leading(n) \/ (Leading(m) = Leading(n) /\ m > n)

\* Mutant: the numbers of all years are one sequence.
LastSeqOfAnyYear(y) ==
  IF Issued = {} THEN 0
  ELSE CHOOSE n \in {invoice[i].seq : i \in Issued} : \A i \in Issued : n >= invoice[i].seq

\* ORDER BY number DESC LIMIT 1, or 0 if the year has no invoice.
LastSeq(y) ==
  IF Seqs(y) = {} THEN 0
  ELSE CHOOSE n \in Seqs(y) : \A m \in Seqs(y) \ {n} : SortsAfter(n, m)

\* pg_advisory_xact_lock(advisoryLockKey(year)), held until COMMIT.
LocksYear(q, y) == pc[q] \in {"number", "insert"} /\ task[q].year = y

\* Mutants: no lock is taken; the lock of a year is never released.
YearNeverLocked(r, y) == TRUE
YearLockedForGood(r, y) ==
  Seqs(y) = {} /\ \A q \in Requests \ {r} : ~LocksYear(q, y)

YearFree(r, y) == \A q \in Requests \ {r} : ~LocksYear(q, y)

-----------------------------------------------------------------------------
(* InvoicesService.create *)

\* The organisation is found and today is read before the transaction.
Create(r, i, o) ==
  /\ CanStart(r, "create")
  /\ invoice[i] = None
  /\ \A q \in Requests : task[q].inv # i     \* a fresh uuid
  /\ \E d \in Durations :
       task' = [task EXCEPT ![r] = [NoTask EXCEPT !.op = "create", !.inv = i, !.org = o,
                                                  !.months = d, !.year = Year(now)]]
  /\ GoTo(r, "lock")
  /\ UNCHANGED <<now, term, invoice, termMem, rowMem, dirty, crashes, billed, ceiling>>

CreateLock(r) ==
  /\ pc[r] = "lock"
  /\ YearFree(r, task[r].year)
  /\ GoTo(r, "number")
  /\ UNCHANGED <<now, term, invoice, task, termMem, rowMem, dirty, crashes, billed, ceiling>>

\* Mutant: without an invoice there is no number to count from.
CreateNumberNaN(r) ==
  /\ pc[r] = "number"
  /\ task' = [task EXCEPT ![r].seq = IF Seqs(task[r].year) = {} THEN None
                                    ELSE LastSeq(task[r].year) + 1]
  /\ GoTo(r, "insert")
  /\ UNCHANGED <<now, term, invoice, termMem, rowMem, dirty, crashes, billed, ceiling>>

\* nextNumber: the SELECT under the lock.
CreateNumber(r) ==
  /\ pc[r] = "number"
  /\ task' = [task EXCEPT ![r].seq = LastSeq(task[r].year) + 1]
  /\ GoTo(r, "insert")
  /\ UNCHANGED <<now, term, invoice, termMem, rowMem, dirty, crashes, billed, ceiling>>

\* INSERT and COMMIT; the unique index on number refuses a duplicate.
CreateInsert(r) ==
  LET t == task[r] IN
  /\ pc[r] = "insert"
  /\ IF t.seq \in Seqs(t.year) THEN UNCHANGED invoice
     ELSE invoice' = [invoice EXCEPT ![t.inv] =
            [org |-> t.org, year |-> t.year, seq |-> t.seq, months |-> t.months,
             paid |-> FALSE, cancelled |-> FALSE]]
  /\ Reply(r)
  /\ UNCHANGED <<now, term, crashes, billed, ceiling>>

-----------------------------------------------------------------------------
(* InvoicesService.markPaid *)

\* The checks, and paidAt set on the entity; extend is dto.extendSubscription.
MarkPaid(r, i) ==
  /\ CanStart(r, "pay")
  /\ invoice[i] # None /\ ~invoice[i].cancelled /\ ~invoice[i].paid
  /\ rowMem' = [rowMem EXCEPT ![r] = [invoice[i] EXCEPT !.paid = TRUE]]
  /\ \E extend \in BOOLEAN :
       /\ task' = [task EXCEPT ![r] = [NoTask EXCEPT !.op = "pay", !.inv = i, !.extend = extend]]
       /\ GoTo(r, IF extend THEN "loadOrg" ELSE "invReload")
  /\ UNCHANGED <<now, term, invoice, termMem, dirty, crashes, billed, ceiling>>

\* Mutant: an unlimited subscription is extended from now on.
LoadOrgUnlimitedToo(r) ==
  /\ pc[r] = "loadOrg"
  /\ termMem' = [termMem EXCEPT ![r] = Extend(term[rowMem[r].org], rowMem[r].months, now)]
  /\ GoTo(r, "orgReload")
  /\ UNCHANGED <<now, term, invoice, task, rowMem, dirty, crashes, billed, ceiling>>

\* A subscription without end is not extended.
LoadOrg(r) ==
  LET end == term[rowMem[r].org] IN
  /\ pc[r] = "loadOrg"
  /\ IF end = Unlimited THEN GoTo(r, "invReload") /\ UNCHANGED termMem
     ELSE /\ termMem' = [termMem EXCEPT ![r] = Extend(end, rowMem[r].months, now)]
          /\ GoTo(r, "orgReload")
  /\ UNCHANGED <<now, term, invoice, task, rowMem, dirty, crashes, billed, ceiling>>

\* save(org): the reload finds the end already as it should be, or another.
OrgReload(r) ==
  /\ pc[r] = "orgReload"
  /\ GoTo(r, IF termMem[r] = term[rowMem[r].org] THEN "invReload" ELSE "orgUpdate")
  /\ UNCHANGED <<now, term, invoice, task, termMem, rowMem, dirty, crashes, billed, ceiling>>

OrgUpdate(r) ==
  /\ pc[r] = "orgUpdate"
  /\ term' = [term EXCEPT ![rowMem[r].org] = termMem[r]]
  /\ billed' = billed \union {task[r].inv}
  /\ ceiling' = IF task[r].inv \in billed THEN ceiling
                ELSE [ceiling EXCEPT ![rowMem[r].org] = Larger(@, now) + rowMem[r].months]
  /\ GoTo(r, "invReload")
  /\ UNCHANGED <<now, invoice, task, termMem, rowMem, dirty, crashes>>

-----------------------------------------------------------------------------
(* InvoicesService.cancel, and save(invoice) of both *)

\* Mutant: a paid invoice may be cancelled.
CancelPaid(r, i) ==
  /\ CanStart(r, "cancel")
  /\ invoice[i] # None
  /\ rowMem' = [rowMem EXCEPT ![r] = [invoice[i] EXCEPT !.cancelled = TRUE]]
  /\ task' = [task EXCEPT ![r] = [NoTask EXCEPT !.op = "cancel", !.inv = i]]
  /\ GoTo(r, "invReload")
  /\ UNCHANGED <<now, term, invoice, termMem, dirty, crashes, billed, ceiling>>

Cancel(r, i) ==
  /\ CanStart(r, "cancel")
  /\ invoice[i] # None /\ ~invoice[i].paid
  /\ rowMem' = [rowMem EXCEPT ![r] = [invoice[i] EXCEPT !.cancelled = TRUE]]
  /\ task' = [task EXCEPT ![r] = [NoTask EXCEPT !.op = "cancel", !.inv = i]]
  /\ GoTo(r, "invReload")
  /\ UNCHANGED <<now, term, invoice, termMem, dirty, crashes, billed, ceiling>>

InvReload(r) ==
  LET row == invoice[task[r].inv]
      cols == {col \in {"paid", "cancelled"} : rowMem[r][col] # row[col]}
  IN
  /\ pc[r] = "invReload"
  /\ IF cols = {} THEN Reply(r)
     ELSE /\ dirty' = [dirty EXCEPT ![r] = cols]
          /\ GoTo(r, "invUpdate")
          /\ UNCHANGED <<task, termMem, rowMem>>
  /\ UNCHANGED <<now, term, invoice, crashes, billed, ceiling>>

InvUpdate(r) ==
  LET i == task[r].inv
      row == invoice[i]
  IN
  /\ pc[r] = "invUpdate"
  /\ invoice' = [invoice EXCEPT ![i] =
       [row EXCEPT !.paid = IF "paid" \in dirty[r] THEN rowMem[r].paid ELSE row.paid,
                   !.cancelled = IF "cancelled" \in dirty[r] THEN rowMem[r].cancelled
                                 ELSE row.cancelled]]
  /\ Reply(r)
  /\ UNCHANGED <<now, term, crashes, billed, ceiling>>

-----------------------------------------------------------------------------
(* The rest of the system *)

\* PlatformService.setSubscription in one step (Subscriptions has its steps).
SetSubscription(r, o) ==
  /\ CanStart(r, "set")
  /\ \/ \E t \in SetTerms :
          /\ term' = [term EXCEPT ![o] = t]
          /\ ceiling' = IF t = Unlimited THEN ceiling
                        ELSE [ceiling EXCEPT ![o] = Larger(@, t)]
     \/ \E d \in Durations :
          /\ term' = [term EXCEPT ![o] = Extend(@, d, now)]
          /\ ceiling' = [ceiling EXCEPT ![o] = Larger(@, now) + d]
  /\ GoTo(r, "done")
  /\ UNCHANGED <<now, invoice, task, termMem, rowMem, dirty, crashes, billed>>

Tick ==
  /\ now < MaxNow
  /\ now' = now + 1
  /\ UNCHANGED <<term, invoice, requestVars, crashes, billed, ceiling>>

\* The process dies: requests are lost, the transaction rolls back, its lock goes.
Crash ==
  /\ crashes < MaxCrashes
  /\ InFlight # {} /\ Cardinality(Settling) < MaxOverlap
  /\ crashes' = crashes + 1
  /\ pc' = [r \in Requests |-> IF r \in InFlight THEN "done" ELSE pc[r]]
  /\ task' = [r \in Requests |-> NoTask]
  /\ termMem' = [r \in Requests |-> None]
  /\ rowMem' = [r \in Requests |-> None]
  /\ dirty' = [r \in Requests |-> {}]
  /\ UNCHANGED <<now, term, invoice, billed, ceiling>>

Quiet == InFlight = {} /\ UNCHANGED vars

Arrive(r) ==
  \/ \E i \in Invoices, o \in Orgs : Create(r, i, o)
  \/ \E i \in Invoices : MarkPaid(r, i) \/ Cancel(r, i)
  \/ \E o \in Orgs : SetSubscription(r, o)

Serve(r) ==
  \/ CreateLock(r) \/ CreateNumber(r) \/ CreateInsert(r)
  \/ LoadOrg(r) \/ OrgReload(r) \/ OrgUpdate(r)
  \/ InvReload(r) \/ InvUpdate(r)

Next ==
  \/ \E r \in Requests : Arrive(r) \/ Serve(r)
  \/ Tick \/ Crash \/ Quiet

Spec == Init /\ [][Next]_vars

\* The server goes on with what it has started.
FairSpec == Spec /\ \A r \in Requests : WF_vars(Serve(r))

-----------------------------------------------------------------------------
(* Properties *)

NumberedUpTo(y, n) ==
  /\ Seqs(y) = 1 .. n
  /\ \A i, j \in IssuedIn(y) : invoice[i].seq = invoice[j].seq => i = j
  /\ \A r \in Requests : pc[r] = "insert" /\ task[r].year = y => task[r].seq = n + 1

\* When the padding has room for every invoice, the invoices of a year are
\* numbered 1, 2, ... without a gap or a repetition, and a number about to be
\* inserted is the next one, however many invoices are issued at the same
\* time, over a turn of the year and over a crash (nextNumber).
NumbersConsecutive ==
  \A y \in 0 .. Year(now) : \E n \in 0 .. Capacity : NumberedUpTo(y, n)

\* The number found under the lock is free: the INSERT never fails on the
\* unique index (comment of nextNumber).
NumberIsFree ==
  \A r \in Requests : pc[r] = "insert" => task[r].seq \notin Seqs(task[r].year)

\* A payment is turned into access once ("Označi račun kot plačan in ...
\* podaljša naročnino društva za obdobje računa", "Račun je že označen kot
\* plačan."): a subscription ends no later than its distinct paid invoices and
\* setSubscription account for.
PaymentCountsOnce ==
  \A o \in Orgs : term[o] # Unlimited => term[o] <= ceiling[o]

\* Every request ends: nobody waits for a lock forever.
RequestsEnd ==
  \A r \in Requests : (r \in InFlight) ~> (pc[r] = "done")

\* From the computation of the new end to the last save, the payment counts
\* as made and the new end is the one in the entity.
Paying(r) == rowMem[r] # None /\ rowMem[r].paid /\ pc[r] # "loadOrg"
Status ==
  [i \in Invoices |->
     IF invoice[i] = None THEN "none"
     ELSE IF invoice[i].cancelled THEN "cancelled"
     ELSE IF invoice[i].paid \/ \E r \in Requests : task[r].inv = i /\ Paying(r) THEN "paid"
     ELSE "open"]

Extending(o) ==
  {r \in Requests : pc[r] \in {"orgReload", "orgUpdate"} /\ rowMem[r].org = o}

Owners == [i \in Invoices |-> IF invoice[i] = None THEN None ELSE invoice[i].org]
Billed == [i \in Invoices |-> IF invoice[i] = None THEN None ELSE invoice[i].months]
Ends == [o \in Orgs |-> IF Extending(o) = {} THEN term[o]
                        ELSE termMem[CHOOSE r \in Extending(o) : TRUE]]

Ledger == INSTANCE InvoiceLedger WITH
  status <- Status, owner <- Owners, months <- Billed, term <- Ends

\* Payments and cancellations served one at a time implement the ledger that
\* the documentation describes, while any number of invoices is being issued.
InvoiceLedgerSpec == Ledger!Spec
=============================================================================
