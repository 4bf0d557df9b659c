---------------------------- MODULE InvoicesProofs ----------------------------
(***************************************************************************)
(* The numbering of invoices, for any number of invoices issued at the     *)
(* same time and any number of crashes; and their payment, served one at   *)
(* a time, which implements InvoiceLedger.                                 *)
(***************************************************************************)
EXTENDS Invoices, FiniteSetTheorems, TLAPS

USE UnlimitedAssumption, InvoicesAssumption

Numbering == {"lock", "number", "insert"}
Saving == {"loadOrg", "orgReload", "orgUpdate", "invReload", "invUpdate"}

\* What a request holds where it is.
RequestOK(r) ==
  /\ pc[r] \in Numbering => task[r] \in Task /\ task[r].org \in Orgs /\ task[r].months \in Durations
  /\ pc[r] \in Saving => task[r] \in Task /\ rowMem[r] \in Row /\ invoice[task[r].inv] \in Row
  /\ pc[r] \in {"orgReload", "orgUpdate"} => termMem[r] \in Term

TypeInv == TypeOK /\ \A r \in Requests : RequestOK(r)

LEMMA YearType == \A m \in Nat : Year(m) \in Nat
  BY DEF Year

LEMMA ExtendType ==
  ASSUME NEW t \in Term, NEW d \in Durations, NEW n \in Nat
  PROVE  Extend(t, d, n) \in Nat
  BY DEF Extend, Term

\* The largest number of a year is found when the padding aligns all of them.
LEMMA LastSeqIs ==
  ASSUME NEW y \in Nat, NEW n \in 0 .. Capacity, Seqs(y) = 1 .. n
  PROVE  LastSeq(y) = n
<1>1. CASE n = 0
  BY <1>1 DEF LastSeq
<1>2. CASE n # 0
  <2>1. \A k, m \in 1 .. n : SortsAfter(k, m) <=> k > m
    BY DEF SortsAfter, Leading
  <2>2. Seqs(y) # {} /\ n \in Seqs(y) /\ \A m \in Seqs(y) \ {n} : SortsAfter(n, m)
    BY <1>2, <2>1
  <2>3. \A k \in Seqs(y) : (\A m \in Seqs(y) \ {k} : SortsAfter(k, m)) => k = n
    BY <2>1, <2>2
  <2>4. (CHOOSE k \in Seqs(y) : \A m \in Seqs(y) \ {k} : SortsAfter(k, m)) = n
    BY <2>2, <2>3
  <2>5. QED
    BY <2>2, <2>4 DEF LastSeq
<1>3. QED
  BY <1>1, <1>2

LEMMA InitTypeInv == Init => TypeInv
<1> SUFFICES ASSUME Init PROVE TypeInv
  OBVIOUS
<1>1. \A o \in Orgs : term[o] \in Term
  BY DEF Init
<1>2. ceiling \in [Orgs -> Nat]
  BY <1>1 DEF Init, Term
<1>3. TypeOK
  BY <1>1, <1>2 DEF Init, TypeOK, PCs
<1>4. QED
  BY <1>3 DEF Init, TypeInv, RequestOK, Numbering, Saving

\* A request that ends leaves the other requests as they are.
LEMMA ReplyTypes ==
  ASSUME TypeInv, NEW r \in Requests, Reply(r)
  PROVE  /\ pc' \in [Requests -> PCs] /\ task' \in [Requests -> Task \union {NoTask}]
         /\ termMem' \in [Requests -> Term \union {None}]
         /\ rowMem' \in [Requests -> Row \union {None}]
         /\ dirty' \in [Requests -> SUBSET {"paid", "cancelled"}]
         /\ pc'[r] = "done"
         /\ \A q \in Requests \ {r} : /\ pc'[q] = pc[q] /\ task'[q] = task[q]
                                      /\ termMem'[q] = termMem[q] /\ rowMem'[q] = rowMem[q]
  BY DEF TypeInv, TypeOK, Reply, GoTo, PCs

-----------------------------------------------------------------------------
(* The inductive invariant *)

\* Why the numbers are consecutive.  At most one request per year is between
\* the lock and its COMMIT, so the number it found is still the next one when
\* it inserts; and its invoice, with a fresh id, is not in the table yet.
OwnersApart ==
  \A q, r \in Requests :
    q # r /\ pc[q] \in {"number", "insert"} /\ pc[r] \in {"number", "insert"}
      => task[q].year # task[r].year

IdsFresh ==
  /\ \A r \in Requests : pc[r] \in Numbering => invoice[task[r].inv] = None
  /\ \A q, r \in Requests : q # r /\ pc[q] \in Numbering /\ pc[r] \in Numbering
                             => task[q].inv # task[r].inv

YearsNumbered == \A y \in Nat : \E n \in Nat : NumberedUpTo(y, n)

NumInv == OwnersApart /\ IdsFresh /\ YearsNumbered

\* The padding of the numbers has room for every invoice.
Room == IsFiniteSet(Invoices) /\ Cardinality(Invoices) <= Capacity

LEMMA EnoughRoom ==
  ASSUME Room, NEW y \in Nat, NEW n \in Nat, NumberedUpTo(y, n)
  PROVE  n \in 0 .. Capacity
<1> DEFINE f == [k \in 1 .. n |-> CHOOSE i \in IssuedIn(y) : invoice[i].seq = k]
<1>1. \A k \in 1 .. n : f[k] \in IssuedIn(y) /\ invoice[f[k]].seq = k
  BY DEF NumberedUpTo, Seqs
<1>2. IssuedIn(y) \subseteq Invoices
  BY DEF IssuedIn, Issued
<1>3. f \in Injection(1 .. n, Invoices)
  <2> HIDE DEF f
  <2>1. f \in [1 .. n -> Invoices]
    BY <1>1, <1>2 DEF f
  <2>2. \A j, k \in 1 .. n : f[j] = f[k] => j = k
    BY <1>1
  <2>3. QED
    BY <2>1, <2>2 DEF Injection, IsInjective
<1>4. Cardinality(1 .. n) <= Cardinality(Invoices)
  BY <1>3, FS_Injection DEF Room, ExistsInjection
<1>5. Cardinality(1 .. n) = n /\ Cardinality(Invoices) \in Nat
  BY FS_Interval, FS_CardinalityType DEF Room
<1>6. QED
  BY <1>4, <1>5 DEF Room

LEMMA StepTypeInv ==
  ASSUME Room, TypeInv, NumInv, [Next]_vars
  PROVE  TypeInv'
<1>0. /\ now \in Nat /\ term \in [Orgs -> Term]
      /\ invoice \in [Invoices -> Row \union {None}]
      /\ pc \in [Requests -> PCs] /\ task \in [Requests -> Task \union {NoTask}]
      /\ termMem \in [Requests -> Term \union {None}]
      /\ rowMem \in [Requests -> Row \union {None}]
      /\ dirty \in [Requests -> SUBSET {"paid", "cancelled"}]
      /\ crashes \in Nat /\ billed \subseteq Invoices /\ ceiling \in [Orgs -> Nat]
      /\ \A q \in Requests : RequestOK(q)
  BY DEF TypeInv, TypeOK
<1>1. ASSUME NEW r \in Requests, NEW i \in Invoices, NEW o \in Orgs, Create(r, i, o)
      PROVE TypeInv'
  <2>1. PICK d \in Durations : task' = [task EXCEPT ![r] =
          [NoTask EXCEPT !.op = "create", !.inv = i, !.org = o, !.months = d, !.year = Year(now)]]
    BY <1>1 DEF Create
  <2> DEFINE t == [NoTask EXCEPT !.op = "create", !.inv = i, !.org = o, !.months = d,
                                 !.year = Year(now)]
  <2>2. t \in Task /\ t.org = o /\ t.months = d
    BY <1>0, <1>1, YearType DEF Create, CanStart, Task, NoTask
  <2>3. task'[r] = t /\ task' \in [Requests -> Task \union {NoTask}]
    BY <1>0, <2>1, <2>2
  <2> HIDE DEF t
  <2>4. pc' = [pc EXCEPT ![r] = "lock"] /\ \A q \in Requests \ {r} : task'[q] = task[q]
    BY <1>0, <1>1, <2>1 DEF Create, GoTo
  <2>5. TypeOK'
    BY <1>0, <1>1, <2>3, <2>4 DEF Create, TypeOK, PCs
  <2>6. \A q \in Requests : RequestOK(q)'
    BY <1>0, <1>1, <2>2, <2>3, <2>4 DEF Create, RequestOK, Numbering, Saving
  <2>7. QED
    BY <2>5, <2>6 DEF TypeInv
<1>2. ASSUME NEW r \in Requests, CreateLock(r) PROVE TypeInv'
  <2>1. TypeOK'
    BY <1>0, <1>2 DEF CreateLock, GoTo, TypeOK, PCs
  <2>2. \A q \in Requests : RequestOK(q)'
    BY <1>0, <1>2 DEF CreateLock, GoTo, RequestOK, Numbering, Saving
  <2>3. QED
    BY <2>1, <2>2 DEF TypeInv
<1>3. ASSUME NEW r \in Requests, CreateNumber(r) PROVE TypeInv'
  <2> DEFINE seq == LastSeq(task[r].year) + 1
             t == [task[r] EXCEPT !.seq = seq]
  <2>1. task[r] \in Task /\ task[r].year \in Nat
    BY <1>0, <1>3 DEF CreateNumber, RequestOK, Numbering, Task
  <2>2. seq \in Nat
    <3>1. PICK n \in Nat : NumberedUpTo(task[r].year, n)
      BY <2>1 DEF NumInv, YearsNumbered
    <3>2. LastSeq(task[r].year) = n
      BY <2>1, <3>1, EnoughRoom, LastSeqIs DEF NumberedUpTo
    <3>3. QED
      BY <3>2
  <2> HIDE DEF seq
  <2>3. t \in Task /\ t.org = task[r].org /\ t.months = task[r].months
    BY <2>1, <2>2 DEF Task
  <2>4. task' = [task EXCEPT ![r] = t]
    BY <1>0, <1>3 DEF CreateNumber, seq
  <2> HIDE DEF t
  <2>5. pc[r] = "number" /\ pc' = [pc EXCEPT ![r] = "insert"]
        /\ UNCHANGED <<now, term, invoice, termMem, rowMem, dirty, crashes, billed, ceiling>>
    BY <1>3 DEF CreateNumber, GoTo
  <2>6. TypeOK'
    BY <1>0, <2>3, <2>4, <2>5 DEF TypeOK, PCs
  <2>7. \A q \in Requests : RequestOK(q)'
    BY <1>0, <2>3, <2>4, <2>5 DEF RequestOK, Numbering, Saving
  <2>8. QED
    BY <2>6, <2>7 DEF TypeInv
<1>4. ASSUME NEW r \in Requests, CreateInsert(r) PROVE TypeInv'
  <2> DEFINE row == [org |-> task[r].org, year |-> task[r].year, seq |-> task[r].seq,
                     months |-> task[r].months, paid |-> FALSE, cancelled |-> FALSE]
  <2>1. task[r] \in Task /\ task[r].org \in Orgs /\ task[r].months \in Durations
    BY <1>0, <1>4 DEF CreateInsert, RequestOK, Numbering
  <2>2. row \in Row /\ task[r].inv \in Invoices
    BY <2>1 DEF Row, Task
  <2>3. invoice' = invoice \/ invoice' = [invoice EXCEPT ![task[r].inv] = row]
    BY <1>4 DEF CreateInsert
  <2> HIDE DEF row
  <2>4. /\ invoice' \in [Invoices -> Row \union {None}]
        /\ \A i \in Invoices : invoice[i] \in Row => invoice'[i] \in Row
    BY <1>0, <2>2, <2>3
  <2>5. Reply(r) /\ UNCHANGED <<now, term, crashes, billed, ceiling>>
    BY <1>4 DEF CreateInsert
  <2>6. TypeOK'
    BY <1>0, <2>4, <2>5, ReplyTypes DEF TypeOK
  <2>7. \A q \in Requests : RequestOK(q)'
    BY <1>0, <2>4, <2>5, ReplyTypes DEF RequestOK, Numbering, Saving, Task
  <2>8. QED
    BY <2>6, <2>7 DEF TypeInv
<1>5. ASSUME NEW r \in Requests, NEW i \in Invoices, MarkPaid(r, i) PROVE TypeInv'
  <2>1. PICK extend \in BOOLEAN :
          /\ task' = [task EXCEPT ![r] = [NoTask EXCEPT !.op = "pay", !.inv = i, !.extend = extend]]
          /\ pc' = [pc EXCEPT ![r] = IF extend THEN "loadOrg" ELSE "invReload"]
    BY <1>5 DEF MarkPaid, GoTo
  <2> DEFINE t == [NoTask EXCEPT !.op = "pay", !.inv = i, !.extend = extend]
             row == [invoice[i] EXCEPT !.paid = TRUE]
  <2>2. t \in Task /\ t.inv = i
    BY <1>5, <2>1 DEF MarkPaid, CanStart, Task, NoTask
  <2>3. invoice[i] \in Row
    BY <1>0, <1>5 DEF MarkPaid
  <2>4. row \in Row
    BY <2>3 DEF Row
  <2>5. rowMem' = [rowMem EXCEPT ![r] = row] /\ UNCHANGED <<now, term, invoice, termMem, dirty, crashes, billed, ceiling>>
    BY <1>5 DEF MarkPaid
  <2> HIDE DEF t, row
  <2>6. TypeOK'
    BY <1>0, <2>1, <2>2, <2>4, <2>5 DEF TypeOK, PCs, t
  <2>7. \A q \in Requests : RequestOK(q)'
    BY <1>0, <2>1, <2>2, <2>3, <2>4, <2>5 DEF RequestOK, Numbering, Saving, t
  <2>8. QED
    BY <2>6, <2>7 DEF TypeInv
<1>6. ASSUME NEW r \in Requests, LoadOrg(r) PROVE TypeInv'
  <2>1. rowMem[r] \in Row
    BY <1>0, <1>6 DEF LoadOrg, RequestOK, Saving
  <2>2. Extend(term[rowMem[r].org], rowMem[r].months, now) \in Nat
    BY <1>0, <2>1, ExtendType DEF Row
  <2>3. TypeOK'
    BY <1>0, <1>6, <2>2 DEF LoadOrg, GoTo, TypeOK, PCs, Term
  <2>4. \A q \in Requests : RequestOK(q)'
    BY <1>0, <1>6, <2>2 DEF LoadOrg, GoTo, RequestOK, Numbering, Saving, Term
  <2>5. QED
    BY <2>3, <2>4 DEF TypeInv
<1>7. ASSUME NEW r \in Requests, OrgReload(r) PROVE TypeInv'
  <2>1. TypeOK'
    BY <1>0, <1>7 DEF OrgReload, GoTo, TypeOK, PCs
  <2>2. \A q \in Requests : RequestOK(q)'
    BY <1>0, <1>7 DEF OrgReload, GoTo, RequestOK, Numbering, Saving
  <2>3. QED
    BY <2>1, <2>2 DEF TypeInv
<1>8. ASSUME NEW r \in Requests, OrgUpdate(r) PROVE TypeInv'
  <2>1. /\ rowMem[r] \in Row /\ termMem[r] \in Term /\ task[r] \in Task
    BY <1>0, <1>8 DEF OrgUpdate, RequestOK, Saving
  <2>2. /\ rowMem[r].org \in Orgs /\ rowMem[r].months \in Nat /\ task[r].inv \in Invoices
    BY <2>1 DEF Row, Task
  <2>3. Larger(ceiling[rowMem[r].org], now) + rowMem[r].months \in Nat
    BY <1>0, <2>2 DEF Larger
  <2>4. ceiling' \in [Orgs -> Nat]
    BY <1>0, <1>8, <2>3 DEF OrgUpdate
  <2>5. TypeOK'
    BY <1>0, <1>8, <2>1, <2>2, <2>4 DEF OrgUpdate, GoTo, TypeOK, PCs
  <2>6. \A q \in Requests : RequestOK(q)'
    BY <1>0, <1>8 DEF OrgUpdate, GoTo, RequestOK, Numbering, Saving
  <2>7. QED
    BY <2>5, <2>6 DEF TypeInv
<1>9. ASSUME NEW r \in Requests, NEW i \in Invoices, Cancel(r, i) PROVE TypeInv'
  <2> DEFINE t == [NoTask EXCEPT !.op = "cancel", !.inv = i]
             row == [invoice[i] EXCEPT !.cancelled = TRUE]
  <2>2. t \in Task /\ t.inv = i
    BY <1>9 DEF Cancel, CanStart, Task, NoTask
  <2>3. invoice[i] \in Row
    BY <1>0, <1>9 DEF Cancel
  <2>4. row \in Row
    BY <2>3 DEF Row
  <2>5. /\ task' = [task EXCEPT ![r] = t] /\ pc' = [pc EXCEPT ![r] = "invReload"]
        /\ rowMem' = [rowMem EXCEPT ![r] = row]
        /\ UNCHANGED <<now, term, invoice, termMem, dirty, crashes, billed, ceiling>>
    BY <1>9 DEF Cancel, GoTo
  <2> HIDE DEF t, row
  <2>6. TypeOK'
    BY <1>0, <2>2, <2>4, <2>5 DEF TypeOK, PCs
  <2>7. \A q \in Requests : RequestOK(q)'
    BY <1>0, <2>2, <2>3, <2>4, <2>5 DEF RequestOK, Numbering, Saving
  <2>8. QED
    BY <2>6, <2>7 DEF TypeInv
<1>10. ASSUME NEW r \in Requests, InvReload(r) PROVE TypeInv'
  <2>1. CASE Reply(r)
    <3>1. TypeOK'
      BY <1>0, <1>10, <2>1, ReplyTypes DEF InvReload, TypeOK
    <3>2. \A q \in Requests : RequestOK(q)'
      BY <1>0, <1>10, <2>1, ReplyTypes DEF InvReload, RequestOK, Numbering, Saving
    <3>3. QED
      BY <3>1, <3>2 DEF TypeInv
  <2>2. CASE ~Reply(r)
    <3>1. PICK cols \in SUBSET {"paid", "cancelled"} : dirty' = [dirty EXCEPT ![r] = cols]
      BY <1>10, <2>2 DEF InvReload
    <3>2. /\ pc[r] = "invReload" /\ pc' = [pc EXCEPT ![r] = "invUpdate"]
          /\ UNCHANGED <<task, termMem, rowMem, now, term, invoice, crashes, billed, ceiling>>
      BY <1>10, <2>2 DEF InvReload, GoTo
    <3>3. TypeOK'
      BY <1>0, <3>1, <3>2 DEF TypeOK, PCs
    <3>4. \A q \in Requests : RequestOK(q)'
      BY <1>0, <3>2 DEF RequestOK, Numbering, Saving
    <3>5. QED
      BY <3>3, <3>4 DEF TypeInv
  <2>3. QED
    BY <2>1, <2>2
<1>11. ASSUME NEW r \in Requests, InvUpdate(r) PROVE TypeInv'
  <2> DEFINE i == task[r].inv
             row == [invoice[i] EXCEPT
                       !.paid = IF "paid" \in dirty[r] THEN rowMem[r].paid ELSE invoice[i].paid,
                       !.cancelled = IF "cancelled" \in dirty[r] THEN rowMem[r].cancelled
                                     ELSE invoice[i].cancelled]
  <2>1. task[r] \in Task /\ rowMem[r] \in Row /\ invoice[i] \in Row
    BY <1>0, <1>11 DEF InvUpdate, RequestOK, Saving
  <2>2. i \in Invoices /\ row \in Row
    BY <2>1 DEF Row, Task
  <2>3. /\ invoice' = [invoice EXCEPT ![i] = row] /\ Reply(r)
        /\ UNCHANGED <<now, term, crashes, billed, ceiling>>
    BY <1>11 DEF InvUpdate
  <2> HIDE DEF row
  <2>4. /\ invoice' \in [Invoices -> Row \union {None}]
        /\ \A j \in Invoices : invoice[j] \in Row => invoice'[j] \in Row
    BY <1>0, <2>2, <2>3
  <2>5. TypeOK'
    BY <1>0, <2>3, <2>4, ReplyTypes DEF TypeOK
  <2>6. \A q \in Requests : RequestOK(q)'
    BY <1>0, <2>3, <2>4, ReplyTypes DEF RequestOK, Numbering, Saving, Task
  <2>7. QED
    BY <2>5, <2>6 DEF TypeInv
<1>12. ASSUME NEW r \in Requests, NEW o \in Orgs, SetSubscription(r, o) PROVE TypeInv'
  <2>1. term' \in [Orgs -> Term] /\ ceiling' \in [Orgs -> Nat]
    <3>1. ASSUME NEW t \in SetTerms, term' = [term EXCEPT ![o] = t],
                 ceiling' = IF t = Unlimited THEN ceiling
                            ELSE [ceiling EXCEPT ![o] = Larger(@, t)]
          PROVE  term' \in [Orgs -> Term] /\ ceiling' \in [Orgs -> Nat]
      BY <1>0, <3>1 DEF Larger, Term
    <3>2. ASSUME NEW d \in Durations, term' = [term EXCEPT ![o] = Extend(@, d, now)],
                 ceiling' = [ceiling EXCEPT ![o] = Larger(@, now) + d]
          PROVE  term' \in [Orgs -> Term] /\ ceiling' \in [Orgs -> Nat]
      <4>1. Extend(term[o], d, now) \in Nat
        BY <1>0, ExtendType
      <4>2. QED
        BY <1>0, <3>2, <4>1 DEF Larger, Term
    <3>3. QED
      BY <1>12, <3>1, <3>2 DEF SetSubscription
  <2>2. /\ pc' = [pc EXCEPT ![r] = "done"]
        /\ UNCHANGED <<now, invoice, task, termMem, rowMem, dirty, crashes, billed>>
    BY <1>12 DEF SetSubscription, GoTo
  <2>3. TypeOK'
    BY <1>0, <2>1, <2>2 DEF TypeOK, PCs
  <2>4. \A q \in Requests : RequestOK(q)'
    BY <1>0, <2>2 DEF RequestOK, Numbering, Saving
  <2>5. QED
    BY <2>3, <2>4 DEF TypeInv
<1>13. CASE Tick
  BY <1>0, <1>13 DEF Tick, requestVars, TypeInv, TypeOK, RequestOK
<1>14. CASE Crash
  <2>1. TypeOK'
    BY <1>0, <1>14 DEF Crash, TypeOK, PCs
  <2>2. \A q \in Requests : RequestOK(q)'
    BY <1>0, <1>14 DEF Crash, InFlight, RequestOK, Numbering, Saving
  <2>3. QED
    BY <2>1, <2>2 DEF TypeInv
<1>15. CASE UNCHANGED vars
  BY <1>0, <1>15 DEF vars, requestVars, TypeInv, TypeOK, RequestOK
<1>16. QED
  BY <1>1, <1>2, <1>3, <1>4, <1>5, <1>6, <1>7, <1>8, <1>9, <1>10, <1>11, <1>12,
     <1>13, <1>14, <1>15 DEF Next, Arrive, Serve, Quiet

-----------------------------------------------------------------------------
(* The numbering invariant is inductive *)

\* The table is unchanged as far as numbers are concerned.
NumbersKept ==
  \A i \in Invoices :
    /\ invoice'[i] = None <=> invoice[i] = None
    /\ invoice[i] # None => invoice'[i].year = invoice[i].year /\ invoice'[i].seq = invoice[i].seq

LEMMA SeqsKept ==
  ASSUME NumbersKept, NEW y
  PROVE  /\ IssuedIn(y)' = IssuedIn(y)
         /\ \A i \in IssuedIn(y) : invoice'[i].seq = invoice[i].seq
         /\ Seqs(y)' = Seqs(y)
<1>1. /\ IssuedIn(y)' = IssuedIn(y)
      /\ \A i \in IssuedIn(y) : invoice'[i].seq = invoice[i].seq
  BY DEF NumbersKept, IssuedIn, Issued
<1>2. Seqs(y)' = Seqs(y)
  BY <1>1 DEF Seqs
<1>3. QED
  BY <1>1, <1>2

\* No number is written and nobody enters the numbering or moves in it.
LEMMA Calm ==
  ASSUME NumInv, NumbersKept,
         \A q \in Requests : pc'[q] \in Numbering => pc'[q] = pc[q] /\ task'[q] = task[q]
                                                    /\ task[q].inv \in Invoices
  PROVE  NumInv'
<1>1. OwnersApart'
  BY DEF NumInv, OwnersApart, Numbering
<1>2. IdsFresh'
  BY DEF NumInv, IdsFresh, NumbersKept
<1>3. ASSUME NEW y \in Nat, NEW n \in Nat, NumberedUpTo(y, n) PROVE NumberedUpTo(y, n)'
  BY <1>3, SeqsKept DEF NumberedUpTo, Numbering
<1>4. YearsNumbered'
  BY <1>3 DEF NumInv, YearsNumbered
<1>5. QED
  BY <1>1, <1>2, <1>4 DEF NumInv

LEMMA InitNumInv == Init => NumInv
<1> SUFFICES ASSUME Init PROVE NumInv
  OBVIOUS
<1>1. OwnersApart /\ IdsFresh
  BY DEF Init, OwnersApart, IdsFresh, Numbering
<1>2. \A y \in Nat : IssuedIn(y) = {} /\ Seqs(y) = {}
  BY DEF Init, IssuedIn, Issued, Seqs
<1>3. \A y \in Nat : NumberedUpTo(y, 0)
  BY <1>2 DEF NumberedUpTo, Init
<1>4. QED
  BY <1>1, <1>3 DEF NumInv, YearsNumbered

LEMMA StepNumInv ==
  ASSUME Room, TypeInv, NumInv, [Next]_vars
  PROVE  NumInv'
<1>0. /\ invoice \in [Invoices -> Row \union {None}]
      /\ pc \in [Requests -> PCs] /\ task \in [Requests -> Task \union {NoTask}]
      /\ now \in Nat
      /\ \A q \in Requests : pc[q] \in Numbering => task[q] \in Task
      /\ \A q \in Requests : pc[q] \in Numbering => task[q].inv \in Invoices /\ task[q].year \in Nat
      /\ \A q \in Requests : pc[q] \in Saving => task[q] \in Task /\ invoice[task[q].inv] \in Row
  BY DEF TypeInv, TypeOK, RequestOK, Task
<1>1. ASSUME NEW r \in Requests, NEW i \in Invoices, NEW o \in Orgs, Create(r, i, o)
      PROVE NumInv'
  <2>1. /\ pc' = [pc EXCEPT ![r] = "lock"] /\ pc[r] = "new" /\ invoice' = invoice
        /\ invoice[i] = None /\ \A q \in Requests : task[q].inv # i
    BY <1>1 DEF Create, CanStart, GoTo
  <2>2. task'[r].inv = i /\ \A q \in Requests \ {r} : task'[q] = task[q]
    <3>1. PICK d \in Durations : task' = [task EXCEPT ![r] =
            [NoTask EXCEPT !.op = "create", !.inv = i, !.org = o, !.months = d, !.year = Year(now)]]
      BY <1>1 DEF Create
    <3>2. QED
      BY <1>0, <3>1 DEF NoTask
  <2>3. NumbersKept
    BY <2>1 DEF NumbersKept
  <2>4. OwnersApart'
    BY <1>0, <2>1, <2>2 DEF NumInv, OwnersApart
  <2>5. IdsFresh'
    BY <1>0, <2>1, <2>2 DEF NumInv, IdsFresh, Numbering
  <2>6. ASSUME NEW y \in Nat, NEW n \in Nat, NumberedUpTo(y, n) PROVE NumberedUpTo(y, n)'
    BY <1>0, <2>1, <2>2, <2>3, <2>6, SeqsKept DEF NumberedUpTo
  <2>7. QED
    BY <2>4, <2>5, <2>6 DEF NumInv, YearsNumbered
<1>2. ASSUME NEW r \in Requests, CreateLock(r) PROVE NumInv'
  <2>1. /\ pc' = [pc EXCEPT ![r] = "number"] /\ pc[r] = "lock" /\ YearFree(r, task[r].year)
        /\ invoice' = invoice /\ task' = task
    BY <1>2 DEF CreateLock, GoTo
  <2>2. NumbersKept
    BY <2>1 DEF NumbersKept
  <2>3. OwnersApart'
    BY <1>0, <2>1 DEF NumInv, OwnersApart, YearFree, LocksYear
  <2>4. IdsFresh'
    BY <1>0, <2>1 DEF NumInv, IdsFresh, Numbering
  <2>5. ASSUME NEW y \in Nat, NEW n \in Nat, NumberedUpTo(y, n) PROVE NumberedUpTo(y, n)'
    BY <1>0, <2>1, <2>2, <2>5, SeqsKept DEF NumberedUpTo
  <2>6. QED
    BY <2>3, <2>4, <2>5 DEF NumInv, YearsNumbered
<1>3. ASSUME NEW r \in Requests, CreateNumber(r) PROVE NumInv'
  <2> DEFINE next == LastSeq(task[r].year) + 1
  <2>1. /\ pc' = [pc EXCEPT ![r] = "insert"] /\ pc[r] = "number" /\ invoice' = invoice
        /\ task' = [task EXCEPT ![r].seq = next]
    BY <1>3 DEF CreateNumber, GoTo
  <2> HIDE DEF next
  <2>2. task[r] \in Task /\ task[r].year \in Nat
    BY <1>0, <2>1 DEF Numbering
  <2>3. /\ task'[r].seq = next /\ task'[r].year = task[r].year /\ task'[r].inv = task[r].inv
        /\ \A q \in Requests \ {r} : task'[q] = task[q]
    BY <1>0, <2>1, <2>2 DEF Task
  <2>4. NumbersKept
    BY <2>1 DEF NumbersKept
  <2>5. OwnersApart'
    BY <1>0, <2>1, <2>3 DEF NumInv, OwnersApart
  <2>6. IdsFresh'
    BY <1>0, <2>1, <2>3 DEF NumInv, IdsFresh, Numbering
  <2>7. ASSUME NEW y \in Nat, NEW n \in Nat, NumberedUpTo(y, n) PROVE NumberedUpTo(y, n)'
    <3>1. y = task[r].year => next = n + 1
      BY <2>7, EnoughRoom, LastSeqIs DEF NumberedUpTo, next
    <3>2. QED
      BY <1>0, <2>1, <2>3, <2>4, <2>7, <3>1, SeqsKept DEF NumberedUpTo
  <2>8. QED
    BY <2>5, <2>6, <2>7 DEF NumInv, YearsNumbered
<1>4. ASSUME NEW r \in Requests, CreateInsert(r) PROVE NumInv'
  <2> DEFINE row == [org |-> task[r].org, year |-> task[r].year, seq |-> task[r].seq,
                     months |-> task[r].months, paid |-> FALSE, cancelled |-> FALSE]
  <2>1. /\ pc[r] = "insert" /\ pc' = [pc EXCEPT ![r] = "done"]
        /\ \A q \in Requests \ {r} : pc'[q] = pc[q] /\ task'[q] = task[q]
    BY <1>0, <1>4 DEF CreateInsert, Reply, GoTo
  <2>2. PICK id \in Invoices, year \in Nat :
          id = task[r].inv /\ year = task[r].year /\ invoice[id] = None
    BY <1>0, <2>1 DEF Numbering, NumInv, IdsFresh
  <2>3. PICK k \in Nat : NumberedUpTo(year, k)
    BY <2>2 DEF NumInv, YearsNumbered
  <2>4. task[r].seq = k + 1 /\ task[r].seq \notin Seqs(year)
    BY <2>1, <2>2, <2>3 DEF NumberedUpTo
  <2>5. invoice' = [invoice EXCEPT ![id] = row]
    BY <1>4, <2>2, <2>4 DEF CreateInsert
  <2>6. row \in Row
    BY <1>0, <2>1 DEF TypeInv, RequestOK, Numbering, Task, Row
  <2>7. row # None /\ row.year = year /\ row.seq = k + 1
    BY <2>2, <2>4, <2>6, NoneAssumption DEF Row
  <2> HIDE DEF row
  <2>8. /\ invoice'[id] = row /\ \A j \in Invoices \ {id} : invoice'[j] = invoice[j]
    BY <1>0, <2>2, <2>5
  <2>9. OwnersApart'
    <3>1. \A q \in Requests : pc'[q] \in {"number", "insert"} =>
            q # r /\ pc[q] \in {"number", "insert"} /\ task'[q] = task[q]
      BY <1>0, <2>1
    <3>2. QED
      BY <3>1 DEF NumInv, OwnersApart
  <2>10. IdsFresh'
    BY <1>0, <2>1, <2>2, <2>8 DEF NumInv, IdsFresh, Numbering
  <2>11. NumberedUpTo(year, k + 1)'
    <3>1. IssuedIn(year)' = IssuedIn(year) \union {id} /\ id \notin IssuedIn(year)
      BY <2>2, <2>7, <2>8 DEF IssuedIn, Issued
    <3>2. \A j \in IssuedIn(year) : j # id /\ invoice'[j].seq = invoice[j].seq
                                    /\ invoice[j].seq \in 1 .. k
      BY <2>3, <2>8, <3>1 DEF NumberedUpTo, Seqs, IssuedIn, Issued
    <3>3. Seqs(year)' = Seqs(year) \union {k + 1}
      BY <2>7, <2>8, <3>1, <3>2 DEF Seqs
    <3>4. Seqs(year)' = 1 .. k + 1
      BY <2>3, <3>3 DEF NumberedUpTo
    <3>5. \A i, j \in IssuedIn(year)' : invoice'[i].seq = invoice'[j].seq => i = j
      BY <2>3, <2>7, <2>8, <3>1, <3>2 DEF NumberedUpTo
    <3>6. \A q \in Requests : ~(pc'[q] = "insert" /\ task'[q].year = year)
      BY <1>0, <2>1, <2>2 DEF NumInv, OwnersApart
    <3>7. QED
      BY <3>4, <3>5, <3>6 DEF NumberedUpTo
  <2>12. ASSUME NEW y \in Nat, y # year, NEW n \in Nat, NumberedUpTo(y, n)
         PROVE  NumberedUpTo(y, n)'
    <3>1. /\ IssuedIn(y)' = IssuedIn(y)
          /\ \A j \in IssuedIn(y) : invoice'[j].seq = invoice[j].seq
      BY <2>2, <2>7, <2>8, <2>12 DEF IssuedIn, Issued
    <3>2. Seqs(y)' = Seqs(y)
      BY <3>1 DEF Seqs
    <3>3. QED
      BY <1>0, <2>1, <2>12, <3>1, <3>2 DEF NumberedUpTo
  <2>13. \A y \in Nat : \E n \in Nat : NumberedUpTo(y, n)'
    <3>1. ASSUME NEW y \in Nat PROVE \E n \in Nat : NumberedUpTo(y, n)'
      <4>1. CASE y = year
        BY <2>3, <2>11, <4>1
      <4>2. CASE y # year
        BY <2>12, <4>2 DEF NumInv, YearsNumbered
      <4>3. QED
        BY <4>1, <4>2
    <3>2. QED
      BY <3>1
  <2>14. QED
    BY <2>9, <2>10, <2>13 DEF NumInv, YearsNumbered
<1>5. ASSUME NEW r \in Requests, NEW i \in Invoices, MarkPaid(r, i) PROVE NumInv'
  <2>1. /\ invoice' = invoice /\ pc'[r] \notin Numbering
        /\ \A q \in Requests \ {r} : pc'[q] = pc[q] /\ task'[q] = task[q]
    BY <1>0, <1>5 DEF MarkPaid, GoTo, Numbering
  <2>2. QED
    BY <1>0, <2>1, Calm DEF NumbersKept
<1>6. ASSUME NEW r \in Requests, LoadOrg(r) \/ OrgReload(r) \/ OrgUpdate(r) PROVE NumInv'
  <2>1. /\ invoice' = invoice /\ pc'[r] \notin Numbering /\ task' = task
        /\ \A q \in Requests \ {r} : pc'[q] = pc[q]
    BY <1>0, <1>6 DEF LoadOrg, OrgReload, OrgUpdate, GoTo, Numbering
  <2>2. QED
    BY <1>0, <2>1, Calm DEF NumbersKept
<1>7. ASSUME NEW r \in Requests, NEW i \in Invoices, Cancel(r, i) PROVE NumInv'
  <2>1. /\ invoice' = invoice /\ pc'[r] \notin Numbering
        /\ \A q \in Requests \ {r} : pc'[q] = pc[q] /\ task'[q] = task[q]
    BY <1>0, <1>7 DEF Cancel, GoTo, Numbering
  <2>2. QED
    BY <1>0, <2>1, Calm DEF NumbersKept
<1>8. ASSUME NEW r \in Requests, InvReload(r) PROVE NumInv'
  <2>1. /\ invoice' = invoice /\ pc'[r] \notin Numbering
        /\ \A q \in Requests \ {r} : pc'[q] = pc[q] /\ task'[q] = task[q]
    BY <1>0, <1>8 DEF InvReload, Reply, GoTo, Numbering
  <2>2. QED
    BY <1>0, <2>1, Calm DEF NumbersKept
<1>9. ASSUME NEW r \in Requests, InvUpdate(r) PROVE NumInv'
  <2> DEFINE i == task[r].inv
             paid == IF "paid" \in dirty[r] THEN rowMem[r].paid ELSE invoice[i].paid
             cancelled == IF "cancelled" \in dirty[r] THEN rowMem[r].cancelled
                          ELSE invoice[i].cancelled
             row == [invoice[i] EXCEPT !.paid = paid, !.cancelled = cancelled]
  <2>1. pc[r] = "invUpdate" /\ invoice' = [invoice EXCEPT ![i] = row] /\ Reply(r)
    BY <1>9 DEF InvUpdate
  <2>2. invoice[i] \in Row
    BY <1>0, <2>1 DEF Saving
  <2>3. row.year = invoice[i].year /\ row.seq = invoice[i].seq
    BY <2>2 DEF Row
  <2>4. row \in Row
    <3>1. rowMem[r] \in Row
      BY <2>1 DEF TypeInv, RequestOK, Saving
    <3>2. paid \in BOOLEAN /\ cancelled \in BOOLEAN
      BY <2>2, <3>1 DEF Row
    <3>3. QED
      BY <2>2, <3>2 DEF Row
  <2>5. row # None /\ invoice[i] # None
    BY <2>2, <2>4, NoneAssumption
  <2> HIDE DEF row, i
  <2>6. NumbersKept
    BY <1>0, <2>1, <2>3, <2>5 DEF NumbersKept
  <2>7. /\ pc'[r] \notin Numbering
        /\ \A q \in Requests \ {r} : pc'[q] = pc[q] /\ task'[q] = task[q]
    BY <1>0, <2>1 DEF Reply, GoTo, Numbering
  <2>8. QED
    BY <1>0, <2>6, <2>7, Calm
<1>10. ASSUME NEW r \in Requests, NEW o \in Orgs, SetSubscription(r, o) PROVE NumInv'
  <2>1. /\ invoice' = invoice /\ pc'[r] \notin Numbering /\ task' = task
        /\ \A q \in Requests \ {r} : pc'[q] = pc[q]
    BY <1>0, <1>10 DEF SetSubscription, GoTo, Numbering
  <2>2. QED
    BY <1>0, <2>1, Calm DEF NumbersKept
<1>11. CASE Tick
  BY <1>0, <1>11, Calm DEF Tick, requestVars, NumbersKept
<1>12. CASE Crash
  <2>1. invoice' = invoice /\ \A q \in Requests : pc'[q] \notin Numbering
    BY <1>0, <1>12 DEF Crash, InFlight, Numbering
  <2>2. QED
    BY <2>1, Calm DEF NumbersKept
<1>13. CASE UNCHANGED vars
  BY <1>0, <1>13, Calm DEF vars, requestVars, NumbersKept
<1>14. QED
  BY <1>1, <1>2, <1>3, <1>4, <1>5, <1>6, <1>7, <1>8, <1>9, <1>10, <1>11, <1>12, <1>13
     DEF Next, Arrive, Serve, Quiet

-----------------------------------------------------------------------------
(* The theorems *)

\* The numbering invariant is one of the specification.
LEMMA Inductive ==
  ASSUME Room
  PROVE  Spec => [](TypeInv /\ NumInv)
<1>1. Init => TypeInv /\ NumInv
  BY InitTypeInv, InitNumInv
<1>2. TypeInv /\ NumInv /\ [Next]_vars => (TypeInv /\ NumInv)'
  BY StepTypeInv, StepNumInv
<1>3. QED
  BY <1>1, <1>2, PTL DEF Spec

\* Every variable keeps its type: in particular nextNumber always finds a
\* number (nextNumber, create).
THEOREM TypeCorrect ==
  ASSUME Room
  PROVE  Spec => []TypeOK
<1>1. TypeInv /\ NumInv => TypeOK
  BY DEF TypeInv
<1>2. QED
  BY <1>1, Inductive, PTL

\* As long as the padding has room for all invoices, any number of creations
\* interleaved with any number of crashes number the invoices of a year
\* 1, 2, ... without a gap or a repetition (nextNumber under the lock).
THEOREM Consecutive ==
  ASSUME Room
  PROVE  Spec => []NumbersConsecutive
<1>1. TypeInv /\ NumInv => NumbersConsecutive
  BY EnoughRoom, YearType DEF TypeInv, TypeOK, NumInv, YearsNumbered, NumbersConsecutive
<1>2. QED
  BY <1>1, Inductive, PTL

\* Under the same condition the INSERT never meets its number in the table:
\* the comment of nextNumber is right until the padding overflows.
THEOREM FreeUntilOverflow ==
  ASSUME Room
  PROVE  Spec => []NumberIsFree
<1>1. TypeInv /\ NumInv => NumberIsFree
  <2> SUFFICES ASSUME TypeInv, NumInv, NEW r \in Requests, pc[r] = "insert"
               PROVE  task[r].seq \notin Seqs(task[r].year)
    BY DEF NumberIsFree
  <2>1. task[r].year \in Nat
    BY DEF TypeInv, RequestOK, Numbering, Task
  <2>2. PICK n \in Nat : NumberedUpTo(task[r].year, n)
    BY <2>1 DEF NumInv, YearsNumbered
  <2>3. QED
    BY <2>2 DEF NumberedUpTo
<1>2. QED
  BY <1>1, Inductive, PTL

-----------------------------------------------------------------------------
(* Payments and cancellations one at a time *)

\* At most one payment, cancellation, change of a subscription or restart is
\* under way; there are finitely many requests, so that they can be counted.
Serial == MaxOverlap <= 1 /\ IsFiniteSet(Requests)

\* The entity is the row of the table, but for the column that is to change.
EntityIs(r) ==
  LET row == invoice[task[r].inv] IN
  /\ ~row.paid
  /\ task[r].op = "pay" => ~row.cancelled /\ rowMem[r] = [row EXCEPT !.paid = TRUE]
  /\ task[r].op = "cancel" => rowMem[r] = [row EXCEPT !.cancelled = TRUE]

\* Only a request that settles an invoice holds one; what it is about to
\* UPDATE is the column that is to change.
SettlesOK(r) ==
  /\ rowMem[r] # None => pc[r] \in Saving
  /\ pc[r] \in Saving => task[r].op \in {"pay", "cancel"} /\ EntityIs(r)
  /\ pc[r] \in {"loadOrg", "orgReload", "orgUpdate"} => task[r].op = "pay"
  /\ pc[r] \in {"orgReload", "orgUpdate"} => termMem[r] \in Nat
  /\ pc[r] = "invUpdate" =>
       IF task[r].op = "pay" THEN dirty[r] = {"paid"}
       ELSE dirty[r] = {"cancelled"} /\ ~invoice[task[r].inv].cancelled

OneSettles == \A q, r \in Requests : pc[q] \in Saving /\ pc[r] \in Saving => q = r

SettleInv == OneSettles /\ \A r \in Requests : SettlesOK(r)

LEMMA InitSettleInv == Init => SettleInv
  BY DEF Init, SettleInv, OneSettles, SettlesOK, Saving

LEMMA NobodySettles ==
  ASSUME Serial, SettleInv, Cardinality(Settling) < MaxOverlap
  PROVE  \A r \in Requests : pc[r] \notin Saving /\ rowMem[r] = None
<1>1. IsFiniteSet(Settling)
  BY FS_Subset DEF Serial, Settling, InFlight
<1>2. Cardinality(Settling) = 0
  BY <1>1, FS_CardinalityType DEF Serial
<1>3. Settling = {}
  BY <1>1, <1>2, FS_EmptySet
<1>4. \A r \in Requests : pc[r] \notin Saving
  BY <1>3 DEF SettleInv, SettlesOK, Settling, InFlight, Saving
<1>5. QED
  BY <1>4 DEF SettleInv, SettlesOK

\* Whoever settles goes on as before.
SettlersKept ==
  \A q \in Requests :
    /\ rowMem'[q] # None => rowMem'[q] = rowMem[q] /\ pc'[q] = pc[q]
    /\ pc'[q] \in Saving =>
         /\ pc'[q] = pc[q] /\ task'[q] = task[q] /\ rowMem'[q] = rowMem[q]
         /\ termMem'[q] = termMem[q] /\ dirty'[q] = dirty[q]
         /\ invoice'[task[q].inv] = invoice[task[q].inv]

LEMMA SettlersKeptOK ==
  ASSUME SettleInv, SettlersKept
  PROVE  SettleInv'
<1>1. OneSettles'
  BY DEF SettleInv, OneSettles, SettlersKept
<1>2. ASSUME NEW q \in Requests PROVE SettlesOK(q)'
  <2>1. SettlesOK(q)
    BY DEF SettleInv
  <2>2. CASE pc'[q] \notin Saving
    BY <2>2 DEF SettlersKept, SettleInv, SettlesOK, Saving
  <2>3. CASE pc'[q] \in Saving
    <3>1. EntityIs(q)' <=> EntityIs(q)
      BY <2>3 DEF SettlersKept, EntityIs
    <3>2. QED
      BY <2>1, <2>3, <3>1 DEF SettlersKept, SettlesOK
  <2>4. QED
    BY <2>2, <2>3
<1>3. QED
  BY <1>1, <1>2 DEF SettleInv

\* One request settles after this step, and only that one has moved.
LEMMA OneMoves ==
  ASSUME SettleInv, NEW r \in Requests, SettlesOK(r)',
         \A q \in Requests \ {r} : /\ pc[q] \notin Saving
                                   /\ pc'[q] = pc[q] /\ rowMem'[q] = rowMem[q]
  PROVE  SettleInv'
<1>1. OneSettles'
  BY DEF OneSettles
<1>2. ASSUME NEW q \in Requests PROVE SettlesOK(q)'
  BY DEF SettleInv, SettlesOK, Saving
<1>3. QED
  BY <1>1, <1>2 DEF SettleInv

LEMMA StepSettleInv ==
  ASSUME Serial, TypeInv, NumInv, SettleInv, [Next]_vars
  PROVE  SettleInv'
<1>0. /\ invoice \in [Invoices -> Row \union {None}]
      /\ pc \in [Requests -> PCs] /\ task \in [Requests -> Task \union {NoTask}]
      /\ termMem \in [Requests -> Term \union {None}]
      /\ rowMem \in [Requests -> Row \union {None}]
      /\ dirty \in [Requests -> SUBSET {"paid", "cancelled"}]
      /\ \A q \in Requests : pc[q] \in Saving => /\ task[q] \in Task /\ rowMem[q] \in Row
                                                /\ invoice[task[q].inv] \in Row
      /\ \A q \in Requests : SettlesOK(q)
  BY DEF TypeInv, TypeOK, RequestOK, SettleInv
<1>1. ASSUME NEW r \in Requests,
             \/ \E i \in Invoices, o \in Orgs : Create(r, i, o)
             \/ CreateLock(r) \/ CreateNumber(r)
             \/ \E o \in Orgs : SetSubscription(r, o)
      PROVE  SettleInv'
  <2>1. /\ pc[r] \notin Saving /\ pc'[r] \notin Saving
        /\ invoice' = invoice /\ termMem' = termMem /\ rowMem' = rowMem /\ dirty' = dirty
        /\ \A q \in Requests \ {r} : pc'[q] = pc[q] /\ task'[q] = task[q]
    BY <1>0, <1>1 DEF Create, CreateLock, CreateNumber, SetSubscription, CanStart, GoTo, Saving
  <2>2. SettlersKept
    BY <1>0, <2>1 DEF SettlersKept, SettlesOK
  <2>3. QED
    BY <2>2, SettlersKeptOK
<1>2. ASSUME NEW r \in Requests, CreateInsert(r) PROVE SettleInv'
  <2>1. pc[r] = "insert" /\ Reply(r)
        /\ \A i \in Invoices : invoice[i] # None => invoice'[i] = invoice[i]
    BY <1>0, <1>2 DEF CreateInsert, NumInv, IdsFresh, Numbering
  <2>2. /\ pc'[r] = "done" /\ rowMem'[r] = None
        /\ \A q \in Requests \ {r} : /\ pc'[q] = pc[q] /\ task'[q] = task[q]
                                     /\ rowMem'[q] = rowMem[q] /\ termMem'[q] = termMem[q]
                                     /\ dirty'[q] = dirty[q]
    BY <1>0, <2>1 DEF Reply, GoTo
  <2>3. \A q \in Requests : pc[q] \in Saving => task[q].inv \in Invoices /\ invoice[task[q].inv] # None
    BY <1>0, NoneAssumption DEF Task
  <2>4. SettlersKept
    BY <2>1, <2>2, <2>3 DEF SettlersKept, Saving
  <2>5. QED
    BY <2>4, SettlersKeptOK
<1>3. ASSUME NEW r \in Requests, NEW i \in Invoices, MarkPaid(r, i) PROVE SettleInv'
  <2>1. \A q \in Requests : pc[q] \notin Saving /\ rowMem[q] = None
    BY <1>3, NobodySettles DEF MarkPaid, CanStart
  <2>2. /\ task'[r].op = "pay" /\ task'[r].inv = i /\ invoice' = invoice
        /\ rowMem'[r] = [invoice[i] EXCEPT !.paid = TRUE]
        /\ ~invoice[i].cancelled /\ ~invoice[i].paid
        /\ pc'[r] \in {"loadOrg", "invReload"}
        /\ \A q \in Requests \ {r} : pc'[q] = pc[q] /\ rowMem'[q] = rowMem[q]
    BY <1>0, <1>3 DEF MarkPaid, GoTo, NoTask
  <2>3. SettlesOK(r)'
    BY <2>2 DEF SettlesOK, EntityIs, Saving
  <2>4. QED
    BY <2>1, <2>2, <2>3, OneMoves
<1>4. ASSUME NEW r \in Requests, NEW i \in Invoices, Cancel(r, i) PROVE SettleInv'
  <2>1. \A q \in Requests : pc[q] \notin Saving /\ rowMem[q] = None
    BY <1>4, NobodySettles DEF Cancel, CanStart
  <2>2. /\ task'[r].op = "cancel" /\ task'[r].inv = i /\ invoice' = invoice
        /\ rowMem'[r] = [invoice[i] EXCEPT !.cancelled = TRUE]
        /\ ~invoice[i].paid /\ pc'[r] = "invReload"
        /\ \A q \in Requests \ {r} : pc'[q] = pc[q] /\ rowMem'[q] = rowMem[q]
    BY <1>0, <1>4 DEF Cancel, GoTo, NoTask
  <2>3. SettlesOK(r)'
    BY <2>2 DEF SettlesOK, EntityIs, Saving
  <2>4. QED
    BY <2>1, <2>2, <2>3, OneMoves
<1>5. ASSUME NEW r \in Requests, LoadOrg(r) \/ OrgReload(r) \/ OrgUpdate(r) PROVE SettleInv'
  <2>1. /\ pc[r] \in {"loadOrg", "orgReload", "orgUpdate"}
        /\ pc'[r] \in {"orgReload", "orgUpdate", "invReload"}
        /\ invoice' = invoice /\ task' = task /\ rowMem' = rowMem
        /\ \A q \in Requests \ {r} : pc'[q] = pc[q]
    BY <1>0, <1>5 DEF LoadOrg, OrgReload, OrgUpdate, GoTo
  <2>2. pc'[r] \in {"orgReload", "orgUpdate"} => termMem'[r] \in Nat
    <3>1. CASE LoadOrg(r)
      <4>1. Extend(term[rowMem[r].org], rowMem[r].months, now) \in Nat
        BY <1>0, <2>1, ExtendType DEF Row, TypeInv, TypeOK, Saving
      <4>2. QED
        BY <1>0, <3>1, <4>1 DEF LoadOrg, GoTo
    <3>2. CASE OrgReload(r) \/ OrgUpdate(r)
      BY <1>0, <3>2 DEF OrgReload, OrgUpdate, GoTo, SettlesOK
    <3>3. QED
      BY <1>5, <3>1, <3>2
  <2>3. SettlesOK(r)'
    BY <1>0, <2>1, <2>2 DEF SettlesOK, EntityIs, Saving
  <2>4. \A q \in Requests \ {r} : pc[q] \notin Saving
    BY <2>1 DEF SettleInv, OneSettles, Saving
  <2>5. QED
    BY <2>1, <2>3, <2>4, OneMoves
<1>6. ASSUME NEW r \in Requests, InvReload(r) PROVE SettleInv'
  <2>1. pc[r] = "invReload" /\ invoice' = invoice
        /\ \A q \in Requests \ {r} : pc[q] \notin Saving
    BY <1>6 DEF InvReload, SettleInv, OneSettles, Saving
  <2>2. CASE Reply(r)
    <3>1. SettlersKept
      BY <1>0, <2>1, <2>2 DEF SettlersKept, Reply, GoTo, Saving
    <3>2. QED
      BY <3>1, SettlersKeptOK
  <2>3. CASE ~Reply(r)
    <3>1. /\ dirty'[r] = {col \in {"paid", "cancelled"} :
                            rowMem[r][col] # invoice[task[r].inv][col]}
          /\ dirty'[r] # {} /\ pc'[r] = "invUpdate" /\ task' = task /\ rowMem' = rowMem
          /\ \A q \in Requests \ {r} : pc'[q] = pc[q]
      BY <1>0, <1>6, <2>3 DEF InvReload, GoTo
    <3>2. EntityIs(r) /\ task[r].op \in {"pay", "cancel"}
          /\ invoice[task[r].inv] \in Row /\ rowMem[r] \in Row
      BY <1>0, <2>1 DEF SettlesOK, Saving
    <3>3. task[r].op = "pay" => dirty'[r] = {"paid"}
      BY <3>1, <3>2 DEF EntityIs, Row
    <3>4. task[r].op = "cancel" => dirty'[r] = {"cancelled"} /\ ~invoice[task[r].inv].cancelled
      BY <3>1, <3>2 DEF EntityIs, Row
    <3>5. EntityIs(r)'
      BY <2>1, <3>1, <3>2 DEF EntityIs
    <3>6. SettlesOK(r)'
      BY <2>1, <3>1, <3>2, <3>3, <3>4, <3>5 DEF SettlesOK, Saving
    <3>7. QED
      BY <2>1, <3>1, <3>6, OneMoves
  <2>4. QED
    BY <2>2, <2>3
<1>7. ASSUME NEW r \in Requests, InvUpdate(r) PROVE SettleInv'
  <2>1. pc[r] = "invUpdate" /\ Reply(r) /\ \A q \in Requests \ {r} : pc[q] \notin Saving
    BY <1>7 DEF InvUpdate, SettleInv, OneSettles, Saving
  <2>2. SettlersKept
    BY <1>0, <2>1 DEF SettlersKept, Reply, GoTo, Saving
  <2>3. QED
    BY <2>2, SettlersKeptOK
<1>8. CASE Tick \/ Quiet \/ UNCHANGED vars
  BY <1>0, <1>8, SettlersKeptOK DEF Tick, Quiet, vars, requestVars, SettlersKept, SettlesOK
<1>9. CASE Crash
  <2>1. \A q \in Requests : pc'[q] \notin Saving /\ rowMem'[q] = None
    BY <1>0, <1>9 DEF Crash, InFlight, Saving
  <2>2. QED
    BY <2>1, SettlersKeptOK DEF SettlersKept
<1>10. QED
  BY <1>1, <1>2, <1>3, <1>4, <1>5, <1>6, <1>7, <1>8, <1>9 DEF Next, Arrive, Serve

-----------------------------------------------------------------------------
(* What the ledger sees *)

PaidBy(i) == \E r \in Requests : task[r].inv = i /\ Paying(r)
StatusOf(i) ==
  IF invoice[i] = None THEN "none"
  ELSE IF invoice[i].cancelled THEN "cancelled"
  ELSE IF invoice[i].paid \/ PaidBy(i) THEN "paid"
  ELSE "open"

Extends(r, o) == pc[r] \in {"orgReload", "orgUpdate"} /\ rowMem[r].org = o
EndOf(o, end) ==
  /\ \A r \in Requests : Extends(r, o) => end = termMem[r]
  /\ (\A r \in Requests : ~Extends(r, o)) => end = term[o]

\* The end of a subscription is the one in the entity that is being saved.
SeenAs ==
  /\ Status = [i \in Invoices |-> StatusOf(i)]
  /\ Ends = [o \in Orgs |-> Ends[o]]
  /\ \A o \in Orgs : EndOf(o, Ends[o])

LEMMA Mapped == OneSettles => SeenAs
<1> SUFFICES ASSUME OneSettles PROVE SeenAs
  OBVIOUS
<1>1. Status = [i \in Invoices |-> StatusOf(i)]
  BY DEF Status, StatusOf, PaidBy
<1>2. ASSUME NEW o \in Orgs PROVE EndOf(o, Ends[o])
  <2>1. Extending(o) = {r \in Requests : Extends(r, o)}
    BY DEF Extending, Extends
  <2>2. Ends[o] = IF Extending(o) = {} THEN term[o]
                  ELSE termMem[CHOOSE r \in Extending(o) : TRUE]
    BY DEF Ends
  <2>3. CASE Extending(o) = {}
    BY <2>1, <2>2, <2>3 DEF EndOf
  <2>4. ASSUME NEW r \in Extending(o) PROVE EndOf(o, Ends[o])
    <3>1. Extending(o) = {r}
      BY <2>1 DEF Extends, OneSettles, Saving
    <3>2. (CHOOSE q \in Extending(o) : TRUE) = r
      BY <3>1
    <3>3. QED
      BY <2>1, <2>2, <3>1, <3>2 DEF EndOf
  <2>5. QED
    BY <2>3, <2>4
<1>3. QED
  BY <1>1, <1>2 DEF SeenAs, Ends

LEMMA LedgerStarts == Init => Ledger!Init
<1> SUFFICES ASSUME Init PROVE Ledger!Init
  OBVIOUS
<1>1. OneSettles
  BY DEF Init, OneSettles, Saving
<1>2. \A o \in Orgs : Ends[o] = term[o]
  BY <1>1, Mapped DEF Init, SeenAs, EndOf, Extends
<1>3. \A o \in Orgs : term[o] \in Nat \union {Unlimited}
  BY DEF Init, Term
<1>4. Status = [i \in Invoices |-> "none"]
  BY DEF Init, Status
<1>5. QED
  BY <1>2, <1>3, <1>4 DEF Init, Ledger!Init, Owners, Billed

\* Nothing the ledger shows of an invoice, or of a subscription, changes.
SameInvoice(i) ==
  /\ invoice'[i] = None <=> invoice[i] = None
  /\ invoice[i] # None => /\ invoice'[i].org = invoice[i].org
                          /\ invoice'[i].months = invoice[i].months
SameBills == \A i \in Invoices : SameInvoice(i)

LEMMA SameBillsOK == SameBills => Owners' = Owners /\ Billed' = Billed
  BY DEF SameBills, SameInvoice, Owners, Billed

LEMMA SeenBefore ==
  ASSUME OneSettles, OneSettles'
  PROVE  SeenAs /\ SeenAs'
<1>1. OneSettles' => SeenAs'
  BY Mapped, PTL
<1>2. QED
  BY <1>1, Mapped

LEMMA SameStatusOK ==
  ASSUME OneSettles, OneSettles', \A i \in Invoices : StatusOf(i)' = StatusOf(i)
  PROVE  Status' = Status
  BY SeenBefore DEF SeenAs

LEMMA SameEndsOK ==
  ASSUME OneSettles, OneSettles', \A o \in Orgs : Ends[o]' = Ends[o]
  PROVE  Ends' = Ends
  BY SeenBefore DEF SeenAs

LEMMA SameStatus ==
  ASSUME OneSettles, OneSettles', invoice' = invoice,
         \A q \in Requests : Paying(q)' <=> Paying(q),
         \A q \in Requests : Paying(q) => task'[q].inv = task[q].inv
  PROVE  Status' = Status /\ Owners' = Owners /\ Billed' = Billed
<1>1. \A i \in Invoices : PaidBy(i)' <=> PaidBy(i)
  BY DEF PaidBy
<1>2. \A i \in Invoices : StatusOf(i)' = StatusOf(i)
  BY <1>1 DEF StatusOf
<1>3. QED
  BY <1>2, SameStatusOK DEF Owners, Billed

LEMMA SameEnds ==
  ASSUME OneSettles, OneSettles', term' = term,
         \A q \in Requests, o \in Orgs : Extends(q, o)' <=> Extends(q, o),
         \A q \in Requests, o \in Orgs : Extends(q, o) => termMem'[q] = termMem[q]
  PROVE  Ends' = Ends
<1>1. ASSUME NEW o \in Orgs PROVE Ends[o]' = Ends[o]
  BY SeenBefore DEF SeenAs, EndOf
<1>2. QED
  BY <1>1, SameEndsOK

\* One invoice, or one subscription, is seen to change.
LEMMA StatusBecomes ==
  ASSUME OneSettles, OneSettles', NEW i \in Invoices,
         \A j \in Invoices \ {i} : StatusOf(j)' = StatusOf(j)
  PROVE  Status' = [Status EXCEPT ![i] = StatusOf(i)'] /\ Status[i] = StatusOf(i)
  BY SeenBefore DEF SeenAs

LEMMA EndsBecome ==
  ASSUME OneSettles, OneSettles', NEW o \in Orgs,
         \A p \in Orgs \ {o} : Ends[p]' = Ends[p]
  PROVE  Ends' = [Ends EXCEPT ![o] = Ends'[o]]
  BY SeenBefore DEF SeenAs

\* A request that is not settling neither pays nor extends.
LEMMA OthersUnseen ==
  ASSUME SettleInv, SettleInv', NEW r \in Requests, pc[r] \notin Saving, pc'[r] \notin Saving,
         \A q \in Requests \ {r} : /\ pc'[q] = pc[q] /\ task'[q] = task[q]
                                   /\ rowMem'[q] = rowMem[q] /\ termMem'[q] = termMem[q]
  PROVE  /\ \A q \in Requests : /\ Paying(q)' <=> Paying(q)
                                /\ Paying(q) => task'[q].inv = task[q].inv
         /\ \A q \in Requests, o \in Orgs : /\ Extends(q, o)' <=> Extends(q, o)
                                            /\ Extends(q, o) => termMem'[q] = termMem[q]
<1>1. rowMem[r] = None /\ rowMem'[r] = None
  BY DEF SettleInv, SettlesOK
<1>2. QED
  BY <1>1 DEF Paying, Extends, Saving

\* An invoice is paid: the entity counts as saved.
LEMMA PaySeen ==
  ASSUME TypeInv, SettleInv, SettleInv', NEW r \in Requests, NEW i \in Invoices,
         invoice[i] \in Row, ~invoice[i].paid, ~invoice[i].cancelled, invoice' = invoice,
         ~PaidBy(i), task'[r].inv = i, Paying(r)',
         \A q \in Requests \ {r} : ~Paying(q) /\ ~Paying(q)',
         Paying(r) => task[r].inv = i
  PROVE  /\ Status[i] = "open" /\ Status' = [Status EXCEPT ![i] = "paid"]
         /\ Owners' = Owners /\ Billed' = Billed
         /\ Owners[i] = invoice[i].org /\ Billed[i] = invoice[i].months
<1>1. PaidBy(i)' /\ \A j \in Invoices \ {i} : ~PaidBy(j) /\ ~PaidBy(j)'
  BY DEF PaidBy
<1>2. \A j \in Invoices \ {i} : StatusOf(j)' = StatusOf(j)
  BY <1>1 DEF StatusOf
<1>3. StatusOf(i) = "open" /\ StatusOf(i)' = "paid"
  BY <1>1, NoneAssumption DEF StatusOf
<1>4. QED
  BY <1>2, <1>3, StatusBecomes, NoneAssumption DEF SettleInv, Owners, Billed

\* Every step of a request is one of the ledger, or is not seen in it.
LEMMA InvoiceLedgerStep ==
  ASSUME Serial, TypeInv, NumInv, SettleInv, SettleInv', [Next]_vars
  PROVE  [Ledger!Next]_Ledger!vars
<1>0. /\ now \in Nat /\ term \in [Orgs -> Term]
      /\ invoice \in [Invoices -> Row \union {None}]
      /\ pc \in [Requests -> PCs] /\ task \in [Requests -> Task \union {NoTask}]
      /\ termMem \in [Requests -> Term \union {None}]
      /\ rowMem \in [Requests -> Row \union {None}]
      /\ \A q \in Requests : pc[q] \in Saving => /\ task[q].inv \in Invoices
                                                /\ invoice[task[q].inv] \in Row
      /\ \A q \in Requests : SettlesOK(q) /\ RequestOK(q)
      /\ OneSettles /\ OneSettles'
  BY DEF TypeInv, TypeOK, RequestOK, SettleInv, Task
<1>1. ASSUME NEW r \in Requests,
             (\E i \in Invoices, o \in Orgs : Create(r, i, o)) \/ CreateLock(r) \/ CreateNumber(r)
      PROVE  UNCHANGED Ledger!vars
  <2>1. /\ pc[r] \notin Saving /\ pc'[r] \notin Saving
        /\ UNCHANGED <<now, term, invoice, rowMem, termMem>>
        /\ \A q \in Requests \ {r} : pc'[q] = pc[q] /\ task'[q] = task[q]
    BY <1>0, <1>1 DEF Create, CreateLock, CreateNumber, CanStart, GoTo, Saving
  <2>2. QED
    BY <1>0, <2>1, OthersUnseen, SameStatus, SameEnds DEF Ledger!vars
<1>2. ASSUME NEW r \in Requests, CreateInsert(r) PROVE [Ledger!Next]_Ledger!vars
  <2>1. /\ pc[r] = "insert" /\ pc'[r] = "done" /\ UNCHANGED <<now, term>>
        /\ task[r].org \in Orgs /\ task[r].months \in Durations
        /\ \A q \in Requests \ {r} : /\ pc'[q] = pc[q] /\ task'[q] = task[q]
                                     /\ rowMem'[q] = rowMem[q] /\ termMem'[q] = termMem[q]
    BY <1>0, <1>2 DEF CreateInsert, Reply, GoTo, RequestOK, Numbering
  <2>2. /\ \A q \in Requests : /\ Paying(q)' <=> Paying(q)
                               /\ Paying(q) => task'[q].inv = task[q].inv
        /\ \A q \in Requests, o \in Orgs : /\ Extends(q, o)' <=> Extends(q, o)
                                           /\ Extends(q, o) => termMem'[q] = termMem[q]
    BY <2>1, OthersUnseen DEF Saving
  <2>3. Ends' = Ends
    BY <1>0, <2>1, <2>2, SameEnds
  <2>4. CASE invoice' = invoice
    BY <1>0, <2>1, <2>2, <2>3, <2>4, SameStatus DEF Ledger!vars
  <2>5. CASE invoice' # invoice
    <3> DEFINE row == [org |-> task[r].org, year |-> task[r].year, seq |-> task[r].seq,
                       months |-> task[r].months, paid |-> FALSE, cancelled |-> FALSE]
    <3>1. PICK i \in Invoices : i = task[r].inv /\ invoice[i] = None
      BY <1>0, <2>1 DEF NumInv, IdsFresh, Numbering, RequestOK, Task
    <3>2. invoice' = [invoice EXCEPT ![i] = row] /\ row \in Row
      BY <1>0, <1>2, <2>1, <2>5, <3>1 DEF CreateInsert, RequestOK, Numbering, Task, Row
    <3>3. invoice'[i] = row /\ row # None /\ \A j \in Invoices \ {i} : invoice'[j] = invoice[j]
      BY <1>0, <3>2, NoneAssumption
    <3>4. \A j \in Invoices : PaidBy(j)' <=> PaidBy(j)
      BY <2>2 DEF PaidBy
    <3>5. ~PaidBy(i)
      BY <1>0, <3>1, NoneAssumption DEF PaidBy, Paying, SettlesOK
    <3>6. StatusOf(i) = "none" /\ StatusOf(i)' = "open"
      BY <3>1, <3>3, <3>4, <3>5 DEF StatusOf
    <3>7. \A j \in Invoices \ {i} : StatusOf(j)' = StatusOf(j)
      BY <3>3, <3>4 DEF StatusOf
    <3>8. Status[i] = "none" /\ Status' = [Status EXCEPT ![i] = "open"]
      BY <1>0, <3>6, <3>7, StatusBecomes
    <3>9. /\ Owners' = [Owners EXCEPT ![i] = task[r].org]
          /\ Billed' = [Billed EXCEPT ![i] = task[r].months]
      <4>1. row.org = task[r].org /\ row.months = task[r].months
        OBVIOUS
      <4> HIDE DEF row
      <4>2. Owners' = [Owners EXCEPT ![i] = task[r].org]
        BY <3>3, <4>1 DEF Owners
      <4>3. Billed' = [Billed EXCEPT ![i] = task[r].months]
        BY <3>3, <4>1 DEF Billed
      <4>4. QED
        BY <4>2, <4>3
    <3>10. Ledger!Issue(i, task[r].org, task[r].months)
      BY <2>1, <2>3, <3>8, <3>9 DEF Ledger!Issue
    <3>11. QED
      BY <2>1, <3>10 DEF Ledger!Next
  <2>6. QED
    BY <2>4, <2>5
<1>3. ASSUME NEW r \in Requests, NEW i \in Invoices, MarkPaid(r, i)
      PROVE  [Ledger!Next]_Ledger!vars
  <2>1. \A q \in Requests : pc[q] \notin Saving /\ rowMem[q] = None /\ ~Paying(q)
    BY <1>3, NobodySettles DEF MarkPaid, CanStart, Paying
  <2>2. /\ task'[r].inv = i /\ UNCHANGED <<now, term, invoice, termMem>>
        /\ invoice[i] \in Row /\ ~invoice[i].cancelled /\ ~invoice[i].paid
        /\ rowMem'[r] = [invoice[i] EXCEPT !.paid = TRUE]
        /\ pc'[r] \in {"loadOrg", "invReload"}
        /\ \A q \in Requests \ {r} : pc'[q] = pc[q] /\ rowMem'[q] = rowMem[q]
    BY <1>0, <1>3 DEF MarkPaid, GoTo, NoTask
  <2>3. \A q \in Requests, o \in Orgs : ~Extends(q, o) /\ ~Extends(q, o)'
    BY <2>1, <2>2 DEF Extends, Saving
  <2>4. Ends' = Ends
    BY <1>0, <2>2, <2>3, SameEnds
  <2>5. \A q \in Requests \ {r} : ~Paying(q)'
    BY <2>1, <2>2 DEF Paying
  <2>6. CASE pc'[r] = "loadOrg"
    <3>1. ~Paying(r)'
      BY <2>6 DEF Paying
    <3>2. QED
      BY <1>0, <2>1, <2>2, <2>4, <2>5, <3>1, SameStatus DEF Ledger!vars
  <2>7. CASE pc'[r] = "invReload"
    <3>1. rowMem'[r] \in Row /\ rowMem'[r].paid
      BY <2>2 DEF Row
    <3>2. Paying(r)'
      BY <2>7, <3>1, NoneAssumption DEF Paying
    <3>3. Status[i] = "open" /\ Status' = [Status EXCEPT ![i] = "paid"]
          /\ Owners' = Owners /\ Billed' = Billed
      BY <2>1, <2>2, <2>5, <3>2, PaySeen DEF PaidBy
    <3>4. Ledger!Pay(i)
      BY <2>2, <2>4, <3>3 DEF Ledger!Pay
    <3>5. QED
      BY <3>4 DEF Ledger!Next
  <2>8. QED
    BY <2>2, <2>6, <2>7
<1>4. ASSUME NEW r \in Requests, LoadOrg(r) PROVE [Ledger!Next]_Ledger!vars
  <2>1. PICK i \in Invoices : i = task[r].inv
    BY <1>0, <1>4 DEF LoadOrg, Saving
  <2>2. /\ pc[r] = "loadOrg" /\ pc'[r] \in {"orgReload", "invReload"}
        /\ UNCHANGED <<now, term, invoice, task, rowMem>>
        /\ \A q \in Requests \ {r} : /\ pc[q] \notin Saving /\ pc'[q] \notin Saving
                                     /\ rowMem[q] = None
    <3>1. /\ pc[r] = "loadOrg" /\ pc'[r] \in {"orgReload", "invReload"}
          /\ UNCHANGED <<now, term, invoice, task, rowMem>>
          /\ \A q \in Requests \ {r} : pc'[q] = pc[q]
      BY <1>0, <1>4 DEF LoadOrg, GoTo
    <3>2. QED
      BY <1>0, <3>1 DEF OneSettles, SettlesOK, Saving
  <2>3. /\ invoice[i] \in Row /\ rowMem[r] \in Row /\ ~invoice[i].paid /\ ~invoice[i].cancelled
        /\ rowMem[r] = [invoice[i] EXCEPT !.paid = TRUE]
    BY <1>0, <2>1, <2>2 DEF RequestOK, SettlesOK, EntityIs, Saving
  <2>4. /\ rowMem[r].paid /\ rowMem[r].org = invoice[i].org
        /\ rowMem[r].months = invoice[i].months /\ invoice[i].org \in Orgs
    BY <2>3 DEF Row
  <2>5. ~Paying(r) /\ Paying(r)' /\ \A q \in Requests \ {r} : ~Paying(q) /\ ~Paying(q)'
    BY <2>2, <2>3, <2>4, NoneAssumption DEF Paying
  <2>6. /\ Status[i] = "open" /\ Status' = [Status EXCEPT ![i] = "paid"]
        /\ Owners' = Owners /\ Billed' = Billed
        /\ Owners[i] = invoice[i].org /\ Billed[i] = invoice[i].months
    BY <2>1, <2>2, <2>3, <2>5, PaySeen DEF PaidBy
  <2> DEFINE o == invoice[i].org
  <2>7. \A q \in Requests, p \in Orgs : ~Extends(q, p)
    BY <2>2 DEF Extends, Saving
  <2>8. \A p \in Orgs : Ends[p] = term[p]
    BY <1>0, <2>7, SeenBefore DEF SeenAs, EndOf
  <2>9. CASE pc'[r] = "invReload"
    <3>1. \A q \in Requests, p \in Orgs : ~Extends(q, p)'
      BY <2>2, <2>9 DEF Extends, Saving
    <3>2. Ends' = Ends
      BY <1>0, <2>2, <2>7, <3>1, SameEnds
    <3>3. Ledger!Pay(i)
      BY <2>2, <2>6, <3>2 DEF Ledger!Pay
    <3>4. QED
      BY <3>3 DEF Ledger!Next
  <2>10. CASE pc'[r] = "orgReload"
    <3>1. term[o] # Unlimited /\ termMem'[r] = Extend(term[o], invoice[i].months, now)
      BY <1>0, <1>4, <2>2, <2>4, <2>10 DEF LoadOrg, GoTo
    <3>2. Extends(r, o)' /\ \A q \in Requests, p \in Orgs : Extends(q, p)' => q = r /\ p = o
      BY <2>2, <2>4, <2>10 DEF Extends, Saving
    <3>3. Ends'[o] = termMem'[r] /\ \A p \in Orgs \ {o} : Ends'[p] = term[p]
      BY <1>0, <2>2, <2>4, <3>2, SeenBefore DEF SeenAs, EndOf
    <3>4. Ends' = [Ends EXCEPT ![o] = termMem'[r]]
      BY <1>0, <2>4, <2>8, <3>3, EndsBecome
    <3>5. Ends[o] # Unlimited /\ termMem'[r] = Ledger!Later(Ends[o], Billed[i])
      BY <2>4, <2>6, <2>8, <3>1 DEF Extend, Ledger!Later
    <3>6. Ledger!Pay(i)
      BY <2>2, <2>6, <3>4, <3>5 DEF Ledger!Pay
    <3>7. QED
      BY <3>6 DEF Ledger!Next
  <2>11. QED
    BY <2>2, <2>9, <2>10
<1>5. ASSUME NEW r \in Requests, OrgReload(r) \/ OrgUpdate(r) PROVE UNCHANGED Ledger!vars
  <2>1. /\ pc[r] \in {"orgReload", "orgUpdate"} /\ pc'[r] \in {"orgUpdate", "invReload"}
        /\ UNCHANGED <<now, invoice, task, rowMem, termMem>>
        /\ \A q \in Requests \ {r} : pc'[q] = pc[q]
    BY <1>0, <1>5 DEF OrgReload, OrgUpdate, GoTo
  <2>2. \A q \in Requests : Paying(q)' <=> Paying(q)
    BY <2>1 DEF Paying
  <2>3. rowMem[r].org \in Orgs
    BY <1>0, <2>1 DEF RequestOK, Row, Saving
  <2>4. \A q \in Requests, o \in Orgs :
          /\ Extends(q, o) => q = r /\ o = rowMem[r].org
          /\ Extends(q, o)' => q = r /\ o = rowMem[r].org
    BY <1>0, <2>1 DEF Extends, OneSettles, Saving
  <2>5. Extends(r, rowMem[r].org)
    BY <2>1 DEF Extends
  <2>6. pc'[r] = "orgUpdate" => term' = term /\ Extends(r, rowMem[r].org)'
    BY <1>0, <1>5, <2>1 DEF OrgReload, OrgUpdate, GoTo, Extends
  <2>7. pc'[r] = "invReload" => term' = [term EXCEPT ![rowMem[r].org] = termMem[r]]
    BY <1>0, <1>5, <2>1 DEF OrgReload, OrgUpdate, GoTo
  <2>8. ASSUME NEW o \in Orgs PROVE Ends[o]' = Ends[o]
    <3>1. CASE o # rowMem[r].org
      BY <1>0, <2>1, <2>3, <2>4, <2>6, <2>7, <3>1, SeenBefore DEF SeenAs, EndOf
    <3>2. CASE o = rowMem[r].org
      <4>1. Ends[o] = termMem[r]
        BY <1>0, <2>5, <3>2, SeenBefore DEF SeenAs, EndOf
      <4>2. CASE pc'[r] = "orgUpdate"
        BY <1>0, <2>1, <2>6, <3>2, <4>1, <4>2, SeenBefore DEF SeenAs, EndOf
      <4>3. CASE pc'[r] = "invReload"
        <5>1. term'[o] = termMem[r]
          BY <1>0, <2>7, <3>2, <4>3
        <5>2. \A q \in Requests : ~Extends(q, o)'
          BY <2>4, <4>3 DEF Extends
        <5>3. QED
          BY <1>0, <4>1, <5>1, <5>2, SeenBefore DEF SeenAs, EndOf
      <4>4. QED
        BY <2>1, <4>2, <4>3
    <3>3. QED
      BY <3>1, <3>2
  <2>9. QED
    BY <1>0, <2>1, <2>2, <2>8, SameStatus, SameEndsOK DEF Ledger!vars
<1>6. ASSUME NEW r \in Requests, NEW i \in Invoices, Cancel(r, i) PROVE UNCHANGED Ledger!vars
  <2>1. \A q \in Requests : pc[q] \notin Saving /\ rowMem[q] = None /\ ~Paying(q)
    BY <1>6, NobodySettles DEF Cancel, CanStart, Paying
  <2>2. /\ UNCHANGED <<now, term, invoice, termMem>> /\ invoice[i] \in Row /\ ~invoice[i].paid
        /\ rowMem'[r] = [invoice[i] EXCEPT !.cancelled = TRUE] /\ pc'[r] = "invReload"
        /\ \A q \in Requests \ {r} : pc'[q] = pc[q] /\ rowMem'[q] = rowMem[q]
    BY <1>0, <1>6 DEF Cancel, GoTo
  <2>3. ~rowMem'[r].paid
    BY <2>2 DEF Row
  <2>4. \A q \in Requests : ~Paying(q)'
    BY <2>1, <2>2, <2>3 DEF Paying
  <2>5. \A q \in Requests, o \in Orgs : ~Extends(q, o) /\ ~Extends(q, o)'
    BY <2>1, <2>2 DEF Extends, Saving
  <2>6. QED
    BY <1>0, <2>1, <2>2, <2>4, <2>5, SameStatus, SameEnds DEF Ledger!vars
<1>7. ASSUME NEW r \in Requests, InvReload(r) PROVE UNCHANGED Ledger!vars
  <2>1. /\ pc[r] = "invReload" /\ UNCHANGED <<now, term, invoice>>
    BY <1>7 DEF InvReload
  <2>2. \A q \in Requests \ {r} : pc[q] \notin Saving /\ rowMem[q] = None
    BY <1>0, <2>1 DEF OneSettles, SettlesOK, Saving
  <2>3. CASE Reply(r)
    <3>1. {col \in {"paid", "cancelled"} : rowMem[r][col] # invoice[task[r].inv][col]} = {}
      <4>1. pc'[r] = "done"
        BY <1>0, <2>3 DEF Reply, GoTo
      <4>2. QED
        BY <1>0, <1>7, <4>1 DEF InvReload, GoTo
    <3>2. rowMem[r].paid = invoice[task[r].inv].paid
      BY <3>1
    <3>3. ~rowMem[r].paid
      BY <1>0, <2>1, <3>2 DEF SettlesOK, EntityIs, Saving
    <3>4. /\ pc'[r] = "done" /\ rowMem'[r] = None
          /\ \A q \in Requests \ {r} : pc'[q] = pc[q] /\ rowMem'[q] = rowMem[q]
      BY <1>0, <2>3 DEF Reply, GoTo
    <3>5. \A q \in Requests : ~Paying(q) /\ ~Paying(q)'
      BY <2>2, <3>3, <3>4 DEF Paying
    <3>6. \A q \in Requests, o \in Orgs : ~Extends(q, o) /\ ~Extends(q, o)'
      BY <2>1, <2>2, <3>4 DEF Extends, Saving
    <3>7. QED
      BY <1>0, <2>1, <3>5, <3>6, SameStatus, SameEnds DEF Ledger!vars
  <2>4. CASE ~Reply(r)
    <3>1. /\ pc'[r] = "invUpdate" /\ UNCHANGED <<task, rowMem, termMem>>
          /\ \A q \in Requests \ {r} : pc'[q] = pc[q]
      BY <1>0, <1>7, <2>4 DEF InvReload, GoTo
    <3>2. /\ \A q \in Requests : Paying(q)' <=> Paying(q)
          /\ \A q \in Requests, o \in Orgs : Extends(q, o)' <=> Extends(q, o)
      BY <2>1, <3>1 DEF Paying, Extends
    <3>3. QED
      BY <1>0, <2>1, <3>1, <3>2, SameStatus, SameEnds DEF Ledger!vars
  <2>5. QED
    BY <2>3, <2>4
<1>8. ASSUME NEW r \in Requests, InvUpdate(r) PROVE [Ledger!Next]_Ledger!vars
  <2>1. PICK i \in Invoices : i = task[r].inv /\ invoice[i] \in Row
    BY <1>0, <1>8 DEF InvUpdate, Saving
  <2> DEFINE row == [invoice[i] EXCEPT
               !.paid = IF "paid" \in dirty[r] THEN rowMem[r].paid ELSE invoice[i].paid,
               !.cancelled = IF "cancelled" \in dirty[r] THEN rowMem[r].cancelled
                             ELSE invoice[i].cancelled]
  <2>2. /\ pc[r] = "invUpdate" /\ Reply(r) /\ UNCHANGED <<now, term>>
        /\ invoice' = [invoice EXCEPT ![i] = row]
    BY <1>8, <2>1 DEF InvUpdate
  <2>3. /\ pc'[r] = "done" /\ rowMem'[r] = None
        /\ \A q \in Requests \ {r} : /\ pc'[q] = pc[q] /\ rowMem'[q] = rowMem[q]
                                     /\ pc[q] \notin Saving /\ rowMem[q] = None
    BY <1>0, <2>2 DEF Reply, GoTo, OneSettles, SettlesOK, Saving
  <2>4. /\ SettlesOK(r) /\ EntityIs(r) /\ rowMem[r] \in Row /\ task[r].op \in {"pay", "cancel"}
    BY <1>0, <2>2 DEF RequestOK, SettlesOK, Saving
  <2>5. row \in Row /\ row.org = invoice[i].org /\ row.months = invoice[i].months
    BY <2>1, <2>4 DEF Row
  <2>6. task[r].op = "pay" => row.paid /\ ~row.cancelled /\ rowMem[r].paid
    BY <2>1, <2>2, <2>4 DEF SettlesOK, EntityIs, Row
  <2>7. task[r].op = "cancel" => /\ row.cancelled /\ ~rowMem[r].paid
                                 /\ ~invoice[i].paid /\ ~invoice[i].cancelled
    BY <2>1, <2>2, <2>4 DEF SettlesOK, EntityIs, Row
  <2> HIDE DEF row
  <2>8. invoice'[i] = row /\ row # None /\ \A j \in Invoices \ {i} : invoice'[j] = invoice[j]
    BY <1>0, <2>2, <2>5, NoneAssumption
  <2>9. \A q \in Requests, o \in Orgs : ~Extends(q, o) /\ ~Extends(q, o)'
    BY <2>2, <2>3 DEF Extends, Saving
  <2>10. Ends' = Ends
    BY <1>0, <2>2, <2>9, SameEnds
  <2>11. Owners' = Owners /\ Billed' = Billed
    BY <2>1, <2>5, <2>8, NoneAssumption, SameBillsOK DEF SameBills, SameInvoice
  <2>12. \A j \in Invoices : ~PaidBy(j)'
    BY <2>3 DEF PaidBy, Paying
  <2>13. \A j \in Invoices \ {i} : ~PaidBy(j)
    BY <2>1, <2>3 DEF PaidBy, Paying
  <2>14. \A j \in Invoices \ {i} : StatusOf(j)' = StatusOf(j)
    BY <2>8, <2>12, <2>13 DEF StatusOf
  <2>15. CASE task[r].op = "pay"
    <3>1. Paying(r) /\ PaidBy(i)
      BY <2>1, <2>2, <2>4, <2>6, <2>15, NoneAssumption DEF Paying, PaidBy
    <3>2. StatusOf(i)' = StatusOf(i)
      BY <2>1, <2>4, <2>6, <2>8, <2>15, <3>1, NoneAssumption DEF StatusOf, EntityIs
    <3>3. QED
      BY <1>0, <2>2, <2>10, <2>11, <2>14, <3>2, SameStatusOK DEF Ledger!vars
  <2>16. CASE task[r].op = "cancel"
    <3>1. ~PaidBy(i)
      BY <2>3, <2>7, <2>16 DEF PaidBy, Paying
    <3>2. StatusOf(i) = "open" /\ StatusOf(i)' = "cancelled"
      BY <2>1, <2>7, <2>8, <2>16, <3>1, NoneAssumption DEF StatusOf
    <3>3. Ledger!Cancel(i)
      BY <1>0, <2>2, <2>10, <2>11, <2>14, <3>2, StatusBecomes DEF Ledger!Cancel
    <3>4. QED
      BY <3>3 DEF Ledger!Next
  <2>17. QED
    BY <2>4, <2>15, <2>16
<1>9. ASSUME NEW r \in Requests, NEW o \in Orgs, SetSubscription(r, o)
      PROVE  [Ledger!Next]_Ledger!vars
  <2>1. \A q \in Requests : pc[q] \notin Saving /\ rowMem[q] = None
    BY <1>9, NobodySettles DEF SetSubscription, CanStart
  <2>2. /\ UNCHANGED <<now, invoice, task, termMem, rowMem>> /\ pc'[r] = "done"
        /\ \A q \in Requests \ {r} : pc'[q] = pc[q]
    BY <1>0, <1>9 DEF SetSubscription, GoTo
  <2>3. /\ \A q \in Requests : ~Paying(q) /\ ~Paying(q)'
        /\ \A q \in Requests, p \in Orgs : ~Extends(q, p) /\ ~Extends(q, p)'
    BY <2>1, <2>2 DEF Paying, Extends, Saving
  <2>4. \A p \in Orgs : Ends[p] = term[p] /\ Ends'[p] = term'[p]
    BY <1>0, <2>3, SeenBefore DEF SeenAs, EndOf
  <2>5. PICK end \in Term :
          /\ term' = [term EXCEPT ![o] = end]
          /\ \/ end \in SetTerms
             \/ \E d \in Durations : end = Extend(term[o], d, now)
    <3>1. \A d \in Durations : Extend(term[o], d, now) \in Term
      BY <1>0, ExtendType DEF Term
    <3>2. QED
      BY <1>9, <3>1 DEF SetSubscription
  <2>6. Ends'[o] = end /\ \A p \in Orgs \ {o} : Ends'[p] = Ends[p]
    BY <1>0, <2>4, <2>5
  <2>7. Ends' = [Ends EXCEPT ![o] = end]
    BY <1>0, <2>6, EndsBecome
  <2>8. ASSUME NEW d \in Durations, end = Extend(term[o], d, now)
        PROVE  end = IF Ends[o] = Unlimited THEN now + d ELSE Ledger!Later(Ends[o], d)
    BY <2>4, <2>8 DEF Extend, Ledger!Later
  <2>9. Ends \in [Orgs -> Term]
    BY <1>0, <2>4, SeenBefore DEF SeenAs
  <2>10. Status' = Status /\ Owners' = Owners /\ Billed' = Billed
    BY <1>0, <2>2, <2>3, SameStatus
  <2>11. Ledger!Adjust(o)
    <3>1. CASE end \in SetTerms
      BY <2>2, <2>7, <2>10, <3>1 DEF Ledger!Adjust
    <3>2. ASSUME NEW d \in Durations, end = Extend(term[o], d, now) PROVE Ledger!Adjust(o)
      BY <2>2, <2>7, <2>8, <2>9, <2>10, <3>2 DEF Ledger!Adjust
    <3>3. QED
      BY <2>5, <3>1, <3>2
  <2>12. QED
    BY <2>11 DEF Ledger!Next
<1>10. CASE Tick
  <2>1. now' = now + 1 /\ UNCHANGED <<term, invoice, pc, task, rowMem, termMem>>
    BY <1>10 DEF Tick, requestVars
  <2>2. /\ \A q \in Requests : Paying(q)' <=> Paying(q)
        /\ \A q \in Requests, o \in Orgs : Extends(q, o)' <=> Extends(q, o)
    BY <2>1 DEF Paying, Extends
  <2>3. Ledger!Tick
    BY <1>0, <2>1, <2>2, SameStatus, SameEnds DEF Ledger!Tick
  <2>4. QED
    BY <2>3 DEF Ledger!Next
<1>11. CASE Crash
  <2>1. \A q \in Requests : pc[q] \notin Saving /\ rowMem[q] = None
    BY <1>11, NobodySettles DEF Crash
  <2>2. /\ UNCHANGED <<now, term, invoice>>
        /\ \A q \in Requests : pc'[q] \notin Saving /\ rowMem'[q] = None
    BY <1>0, <1>11 DEF Crash, InFlight, Saving
  <2>3. /\ \A q \in Requests : ~Paying(q) /\ ~Paying(q)'
        /\ \A q \in Requests, o \in Orgs : ~Extends(q, o) /\ ~Extends(q, o)'
    BY <2>1, <2>2 DEF Paying, Extends, Saving
  <2>4. QED
    BY <1>0, <2>2, <2>3, SameStatus, SameEnds DEF Ledger!vars
<1>12. CASE UNCHANGED vars
  <2>1. UNCHANGED <<now, term, invoice, pc, task, rowMem, termMem>>
    BY <1>12 DEF vars, requestVars
  <2>2. /\ \A q \in Requests : Paying(q)' <=> Paying(q)
        /\ \A q \in Requests, o \in Orgs : Extends(q, o)' <=> Extends(q, o)
    BY <2>1 DEF Paying, Extends
  <2>3. QED
    BY <1>0, <2>1, <2>2, SameStatus, SameEnds DEF Ledger!vars
<1>13. QED
  BY <1>1, <1>2, <1>3, <1>4, <1>5, <1>6, <1>7, <1>8, <1>9, <1>10, <1>11, <1>12
     DEF Next, Arrive, Serve, Quiet

LEMMA SerialInvariance ==
  ASSUME Room, Serial
  PROVE  Spec => [](TypeInv /\ NumInv /\ SettleInv)
<1>1. Init => TypeInv /\ NumInv /\ SettleInv
  BY InitTypeInv, InitNumInv, InitSettleInv
<1>2. TypeInv /\ NumInv /\ SettleInv /\ [Next]_vars => (TypeInv /\ NumInv /\ SettleInv)'
  BY StepTypeInv, StepNumInv, StepSettleInv
<1>3. QED
  BY <1>1, <1>2, PTL DEF Spec

\* Payments, cancellations and changes of a subscription that are served one
\* at a time implement the ledger of the documentation, while any number of
\* invoices is being issued and between them the server restarts: a payment
\* extends the subscription in one step and once, and only an unpaid invoice
\* is cancelled (markPaid, cancel).
THEOREM ImplementsInvoiceLedger ==
  ASSUME Room, Serial
  PROVE  Spec => InvoiceLedgerSpec
<1>1. Init => Ledger!Init
  BY LedgerStarts
<1>2. /\ TypeInv /\ NumInv /\ SettleInv /\ [Next]_vars
      /\ (TypeInv /\ NumInv /\ SettleInv)'
      => [Ledger!Next]_Ledger!vars
  BY InvoiceLedgerStep
<1>3. QED
  BY <1>1, <1>2, SerialInvariance, PTL DEF Spec, InvoiceLedgerSpec, Ledger!Spec

=============================================================================
