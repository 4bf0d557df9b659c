------------------------- MODULE SubscriptionsProofs -------------------------
(***************************************************************************)
(* Theorems about Subscriptions, for any sets of organisations, codes and  *)
(* requests, however many of them overlap and however often the server     *)
(* restarts: the table of codes, the two ledgers it implements, and why    *)
(* each request comes to an end.                                           *)
(***************************************************************************)
EXTENDS Subscriptions, FiniteSetTheorems, TLAPS

USE UnlimitedAssumption, SubscriptionsAssumption

HoldsOrg == {"redeemCheck", "consume", "upload", "reload", "update",
             "insertOrg", "commit"}
NamesOrg == HoldsOrg \union {"name", "code", "tx", "loadOrg"}
NamesCode == {"insertCode", "revokeReload", "revokeUpdate", "redeemCheck",
              "consume", "name", "code", "tx", "insertOrg", "commit"}
HoldsCode == {"revokeReload", "revokeUpdate"}

\* What a request holds where it is; the typing of a request needs it.
RequestOK(r) ==
  /\ pc[r] \in HoldsOrg => orgMem[r] \in OrgRow
  /\ pc[r] \in NamesOrg => task[r].org \in Orgs
  /\ pc[r] \in NamesCode => task[r].code \in Codes
  /\ pc[r] \in HoldsCode => codeMem[r] \in CodeRow
  /\ pc[r] \in {"generate", "insertCode"} => task[r].months \in Durations
  /\ pc[r] \in PCs \ {"new", "done"} => task[r] \in Task

\* The requests' own variables, and the tables.
LocalInv ==
  /\ pc \in [Requests -> PCs]
  /\ task \in [Requests -> Task \union {NoTask}]
  /\ orgMem \in [Requests -> OrgRow \union {None}]
  /\ codeMem \in [Requests -> CodeRow \union {None}]
  /\ dirty \in [Requests -> SUBSET (OrgColumns \union CodeColumns)]
  /\ \A r \in Requests : RequestOK(r)

SharedInv ==
  /\ now \in Nat
  /\ org \in [Orgs -> OrgRow]
  /\ codes \in [Codes -> CodeRow]
  /\ crashes \in Nat
  /\ grants \subseteq Codes \X Requests \X Orgs
  /\ ceiling \in [Orgs -> Nat]
  /\ \A c \in Codes : codes[c].issued => codes[c].months \in Durations

TypeInv == LocalInv /\ SharedInv

\* Why a code is consumed once.  A consumed code stays used or revoked: a
\* stale save of revokeCode may clear used_at, but then sets revoked_at, or
\* finds it set and never cleared since.  The code of an open registration
\* stays usable until COMMIT, as the row lock keeps every other write away.
OpenTx(r) == pc[r] \in {"insertOrg", "commit"}

SpentIsDead ==
  \A g \in grants : /\ codes[g[1]].issued
                    /\ codes[g[1]].used \/ codes[g[1]].revoked

TxHoldsUsable ==
  /\ \A r \in Requests : OpenTx(r) => Usable(task[r].code)
  /\ \A q, r \in Requests :
       OpenTx(q) /\ OpenTx(r) /\ q # r => task[q].code # task[r].code

RevokeWillRevoke ==
  \A r \in Requests :
    /\ pc[r] \in HoldsCode => codeMem[r].revoked /\ codes[task[r].code].issued
    /\ pc[r] = "revokeUpdate" => "revoked" \in dirty[r] \/ codes[task[r].code].revoked

CodeInv == SpentIsDead /\ TxHoldsUsable /\ RevokeWillRevoke /\ CodeConsumedOnce

LEMMA ExtendType ==
  ASSUME NEW t \in Term, NEW d \in Durations, NEW n \in Nat
  PROVE  /\ Renewed(t, d, n) \in Term
         /\ d # Unlimited => Extend(t, d, n) \in Nat
  BY DEF Renewed, Extend, Term

LEMMA OrgUpdatedType ==
  ASSUME NEW row \in OrgRow, NEW entity \in OrgRow, NEW cols
  PROVE  OrgUpdated(row, entity, cols) \in OrgRow
  BY DEF OrgUpdated, OrgRow

LEMMA CodeUpdatedType ==
  ASSUME NEW row \in CodeRow, NEW entity \in CodeRow, NEW cols
  PROVE  CodeUpdated(row, entity, cols) \in CodeRow
  BY DEF CodeUpdated, CodeRow

LEMMA NewRows ==
  /\ AbsentOrg \in OrgRow /\ AbsentCode \in CodeRow
  /\ \A name \in Names \union {None}, t \in Term : NewOrg(name, t) \in OrgRow
  /\ \A d \in Durations : NewCode(d) \in CodeRow /\ NewCode(d).months = d
  BY DEF AbsentOrg, AbsentCode, OrgRow, CodeRow, NewOrg, NewCode, Term

LEMMA DifferingColumns ==
  /\ \A e, row \in OrgRow : Differing(e, row) \subseteq OrgColumns
  /\ \A e, row \in CodeRow : Differing(e, row) \subseteq CodeColumns
  BY DEF Differing, OrgRow, CodeRow, OrgColumns, CodeColumns

LEMMA TypeInvTyped == TypeInv => TypeOK
  BY DEF TypeInv, LocalInv, SharedInv, TypeOK

LEMMA InitTypeInv == Init => TypeInv
<1> SUFFICES ASSUME Init PROVE TypeInv
  OBVIOUS
<1> USE DEF Init
<1>1. org \in [Orgs -> OrgRow]
  <2>1. PICK name \in [Founders -> Names], term \in [Founders -> InitialTerms] :
          org = [o \in Orgs |-> IF o \in Founders THEN NewOrg(name[o], term[o])
                                ELSE AbsentOrg]
    OBVIOUS
  <2>2. \A o \in Founders : NewOrg(name[o], term[o]) \in OrgRow
    BY NewRows
  <2>3. QED
    BY <2>1, <2>2, NewRows
<1>2. /\ codes \in [Codes -> CodeRow]
      /\ \A c \in Codes : codes[c].issued => codes[c].months \in Durations
  <2>1. PICK months \in [IssuedCodes -> Durations] :
          codes = [c \in Codes |-> IF c \in IssuedCodes THEN NewCode(months[c])
                                   ELSE AbsentCode]
    OBVIOUS
  <2>2. \A c \in IssuedCodes : NewCode(months[c]) \in CodeRow /\
                               NewCode(months[c]).months \in Durations
    BY NewRows
  <2>3. QED
    BY <2>1, <2>2, NewRows DEF AbsentCode
<1>3. ceiling \in [Orgs -> Nat]
  BY <1>1 DEF OrgRow, Term
<1>4. LocalInv
  BY DEF LocalInv, RequestOK, PCs, HoldsOrg, NamesOrg, NamesCode, HoldsCode
<1>5. QED
  BY <1>1, <1>2, <1>3, <1>4 DEF TypeInv, SharedInv

\* Wherever a request ends, nothing is left to be typed.
LEMMA ReplyLocal ==
  ASSUME LocalInv, NEW r \in Requests, Reply(r)
  PROVE  LocalInv'
  BY DEF LocalInv, Reply, GoTo, RequestOK, PCs, HoldsOrg, NamesOrg, NamesCode, HoldsCode

\* What consuming a code adds to the ledger of an organisation is a date again.
LEMMA CreditedType ==
  ASSUME SharedInv, NEW c \in Codes, codes[c].issued, NEW o \in Orgs
  PROVE  Credited(c, codes[c].months, o) \in [Orgs -> Nat]
<1>1. CASE Credited(c, codes[c].months, o) = ceiling
  BY <1>1 DEF SharedInv
<1>2. CASE codes[c].months # Unlimited
  <2>1. codes[c].months \in Nat
    BY <1>2 DEF SharedInv
  <2>2. Larger(ceiling[o], now) + codes[c].months \in Nat
    BY <2>1 DEF SharedInv, Larger
  <2>3. QED
    BY <1>1, <2>2 DEF SharedInv, Credited
<1>3. QED
  BY <1>1, <1>2 DEF Credited

\* The arguments of every kind of request.
LEMMA TaskTypes ==
  /\ "issue" \in Ops => \A d \in Durations, n \in Nat :
       [NoTask EXCEPT !.op = "issue", !.months = d, !.left = n] \in Task
  /\ "revoke" \in Ops => \A c \in Codes :
       [NoTask EXCEPT !.op = "revoke", !.code = c] \in Task
  /\ "redeem" \in Ops => \A o \in Orgs, c \in Codes :
       [NoTask EXCEPT !.op = "redeem", !.org = o, !.code = c] \in Task
  /\ "register" \in Ops => \A o \in Orgs, name \in Names, c \in Codes :
       [NoTask EXCEPT !.op = "register", !.org = o, !.name = name, !.code = c] \in Task
  /\ "set" \in Ops => \A o \in Orgs : [NoTask EXCEPT !.op = "set", !.org = o] \in Task
  /\ "rename" \in Ops => \A o \in Orgs, name \in Names :
       [NoTask EXCEPT !.op = "rename", !.org = o, !.name = name] \in Task
  /\ "logo" \in Ops => \A o \in Orgs : [NoTask EXCEPT !.op = "logo", !.org = o] \in Task
  BY DEF NoTask, Task

LEMMA StepTypeInv == TypeInv /\ CodeInv /\ [Next]_vars => TypeInv'
<1> SUFFICES ASSUME TypeInv, CodeInv, [Next]_vars PROVE TypeInv'
  OBVIOUS
<1> LocalInv /\ SharedInv
  BY DEF TypeInv
<1> USE DEF RequestOK, HoldsOrg, NamesOrg, NamesCode, HoldsCode, GoTo, CanStart
<1>1. ASSUME NEW r \in Requests, SaveOrgReload(r) PROVE TypeInv'
  <2>1. CASE Differing(orgMem[r], org[task[r].org]) = {}
    BY <1>1, <2>1, ReplyLocal DEF SaveOrgReload, TypeInv, SharedInv
  <2>2. CASE Differing(orgMem[r], org[task[r].org]) # {}
    <3>1. Differing(orgMem[r], org[task[r].org]) \subseteq OrgColumns
      BY <1>1, DifferingColumns DEF SaveOrgReload, LocalInv, SharedInv
    <3>2. LocalInv'
      BY <1>1, <2>2, <3>1 DEF SaveOrgReload, LocalInv, PCs
    <3>3. QED
      BY <1>1, <3>2 DEF SaveOrgReload, TypeInv, SharedInv
  <2>3. QED
    BY <2>1, <2>2
<1>2. ASSUME NEW r \in Requests, SaveOrgUpdate(r) PROVE TypeInv'
  <2>1. OrgUpdated(org[task[r].org], orgMem[r], dirty[r]) \in OrgRow
    BY <1>2, OrgUpdatedType DEF SaveOrgUpdate, LocalInv, SharedInv
  <2>2. QED
    BY <1>2, <2>1, ReplyLocal DEF SaveOrgUpdate, TypeInv, SharedInv
<1>3. ASSUME NEW r \in Requests, Issue(r) PROVE TypeInv'
  <2>1. PICK d \in Durations, n \in 1 .. MaxBatch :
          task' = [task EXCEPT ![r] =
                     [NoTask EXCEPT !.op = "issue", !.months = d, !.left = n]]
    BY <1>3 DEF Issue
  <2> DEFINE t == [NoTask EXCEPT !.op = "issue", !.months = d, !.left = n]
  <2>2. t \in Task /\ t.months = d
    <3>1. "issue" \in Ops /\ n \in Nat
      BY <1>3 DEF Issue
    <3>2. t \in Task
      BY <3>1, TaskTypes
    <3>3. t.months = d
      BY DEF NoTask
    <3>4. QED
      BY <3>2, <3>3
  <2> HIDE DEF t
  <2>3. QED
    BY <1>3, <2>1, <2>2 DEF Issue, TypeInv, LocalInv, SharedInv, PCs, t
<1>4. ASSUME NEW r \in Requests, IssueGenerate(r) PROVE TypeInv'
  <2>1. CASE Reply(r)
    BY <1>4, <2>1, ReplyLocal DEF IssueGenerate, TypeInv, SharedInv
  <2>2. CASE \E c \in Codes : /\ task' = [task EXCEPT ![r].code = c]
                              /\ pc' = [pc EXCEPT ![r] = "insertCode"]
                              /\ UNCHANGED <<orgMem, codeMem, dirty>>
    BY <1>4, <2>2 DEF IssueGenerate, TypeInv, LocalInv, SharedInv, PCs, Task
  <2>3. QED
    BY <1>4, <2>1, <2>2 DEF IssueGenerate
<1>5. ASSUME NEW r \in Requests, IssueInsert(r) PROVE TypeInv'
  <2> DEFINE c == task[r].code
  <2>1. CASE codes[c].issued
    BY <1>5, <2>1, ReplyLocal DEF IssueInsert, TypeInv, SharedInv
  <2>2. CASE ~codes[c].issued
    <3>1. /\ c \in Codes
          /\ codes' = [codes EXCEPT ![c] = NewCode(task[r].months)]
          /\ task[r].months \in Durations
      BY <1>5, <2>2 DEF IssueInsert, LocalInv
    <3>2. SharedInv'
      BY <1>5, <2>2, <3>1, NewRows DEF IssueInsert, SharedInv
    <3>3. CASE Reply(r)
      BY <3>2, <3>3, ReplyLocal DEF TypeInv
    <3>4. CASE /\ task' = [task EXCEPT ![r].code = None, ![r].left = @ - 1]
               /\ pc' = [pc EXCEPT ![r] = "generate"]
               /\ task[r].left # 1
               /\ UNCHANGED <<orgMem, codeMem, dirty>>
      BY <1>5, <3>2, <3>4 DEF IssueInsert, TypeInv, LocalInv, PCs, Task
    <3>5. QED
      BY <1>5, <2>2, <3>3, <3>4 DEF IssueInsert
  <2>3. QED
    BY <2>1, <2>2
<1>6. ASSUME NEW r \in Requests, NEW c \in Codes, Revoke(r, c) PROVE TypeInv'
  <2>1. \A row \in CodeRow : [row EXCEPT !.revoked = TRUE] \in CodeRow
    BY DEF CodeRow
  <2>3. codes[c] \in CodeRow
    BY DEF SharedInv
  <2>2. QED
    BY <1>6, <2>1, <2>3 DEF Revoke, TypeInv, LocalInv, SharedInv, PCs, Task, NoTask
<1>7. ASSUME NEW r \in Requests, RevokeReload(r) PROVE TypeInv'
  <2>1. CASE Reply(r)
    BY <1>7, <2>1, ReplyLocal DEF RevokeReload, TypeInv, SharedInv
  <2>2. CASE ~Reply(r)
    <3>1. Differing(codeMem[r], codes[task[r].code]) \subseteq CodeColumns
      BY <1>7, DifferingColumns DEF RevokeReload, LocalInv, SharedInv
    <3>2. LocalInv'
      BY <1>7, <2>2, <3>1 DEF RevokeReload, LocalInv, PCs
    <3>3. QED
      BY <1>7, <3>2 DEF RevokeReload, TypeInv, SharedInv
  <2>3. QED
    BY <2>1, <2>2
<1>8. ASSUME NEW r \in Requests, RevokeUpdate(r) PROVE TypeInv'
  <2> DEFINE c == task[r].code
             row == CodeUpdated(codes[c], codeMem[r], dirty[r])
  <2>1. c \in Codes /\ row \in CodeRow
    BY <1>8, CodeUpdatedType DEF RevokeUpdate, LocalInv, SharedInv
  <2>2. row.issued = codes[c].issued /\ row.months = codes[c].months
    BY DEF CodeUpdated
  <2>3. codes' = [codes EXCEPT ![c] = row]
    BY <1>8 DEF RevokeUpdate
  <2>4. SharedInv'
    BY <1>8, <2>1, <2>2, <2>3 DEF RevokeUpdate, SharedInv
  <2>5. QED
    BY <1>8, <2>4, ReplyLocal DEF RevokeUpdate, TypeInv
<1>9. ASSUME NEW r \in Requests, NEW o \in Orgs, NEW c \in Codes, Redeem(r, o, c)
      PROVE TypeInv'
  BY <1>9 DEF Redeem, TypeInv, LocalInv, SharedInv, PCs, Task, NoTask
<1>10. ASSUME NEW r \in Requests, RedeemCheck(r) PROVE TypeInv'
  <2>1. CASE Reply(r)
    BY <1>10, <2>1, ReplyLocal DEF RedeemCheck, TypeInv, SharedInv
  <2>2. CASE ~Reply(r)
    BY <1>10, <2>2 DEF RedeemCheck, TypeInv, LocalInv, SharedInv, PCs
  <2>3. QED
    BY <2>1, <2>2
<1>11. ASSUME NEW r \in Requests, RedeemConsume(r) PROVE TypeInv'
  <2> DEFINE c == task[r].code
             o == task[r].org
  <2>1. CASE Usable(c)
    <3>1. c \in Codes /\ o \in Orgs /\ codes[c].issued /\ orgMem[r] \in OrgRow
      BY <1>11, <2>1 DEF RedeemConsume, LocalInv, Usable
    <3>2. Renewed(orgMem[r].expires, codes[c].months, now) \in Term
      BY <3>1, ExtendType DEF SharedInv, OrgRow
    <3>3. LocalInv'
      BY <1>11, <2>1, <3>1, <3>2 DEF RedeemConsume, LocalInv, OrgRow, PCs
    <3>4. /\ codes' \in [Codes -> CodeRow]
          /\ \A d \in Codes : codes'[d].issued => codes'[d].months \in Durations
      <4>1. \A row \in CodeRow : [row EXCEPT !.used = TRUE, !.usedBy = o] \in CodeRow
        BY <3>1 DEF CodeRow
      <4>2. codes' = [codes EXCEPT ![c] = [codes[c] EXCEPT !.used = TRUE, !.usedBy = o]]
        BY <1>11, <2>1, <3>1 DEF RedeemConsume, SharedInv
      <4>3. codes'[c].issued = codes[c].issued /\ codes'[c].months = codes[c].months
        BY <3>1, <4>2 DEF SharedInv, CodeRow
      <4>4. QED
        BY <3>1, <4>1, <4>2, <4>3 DEF SharedInv
    <3>5. ceiling' \in [Orgs -> Nat]
      BY <1>11, <2>1, <3>1, CreditedType DEF RedeemConsume
    <3>6. SharedInv'
      BY <1>11, <2>1, <3>1, <3>4, <3>5 DEF RedeemConsume, SharedInv
    <3>7. QED
      BY <3>3, <3>6 DEF TypeInv
  <2>2. CASE ~Usable(c)
    BY <1>11, <2>2, ReplyLocal DEF RedeemConsume, TypeInv, SharedInv
  <2>3. QED
    BY <2>1, <2>2
<1>12. ASSUME NEW r \in Requests, NEW o \in Orgs, NEW name \in Names,
              NEW c \in Codes, Register(r, o, name, c)
       PROVE TypeInv'
  BY <1>12 DEF Register, TypeInv, LocalInv, SharedInv, PCs, Task, NoTask
<1>13. ASSUME NEW r \in Requests, RegisterName(r) PROVE TypeInv'
  <2>1. CASE Reply(r)
    BY <1>13, <2>1, ReplyLocal DEF RegisterName, TypeInv, SharedInv
  <2>2. CASE ~Reply(r)
    BY <1>13, <2>2 DEF RegisterName, TypeInv, LocalInv, SharedInv, PCs
  <2>3. QED
    BY <2>1, <2>2
<1>14. ASSUME NEW r \in Requests, RegisterCode(r) PROVE TypeInv'
  <2>1. CASE Reply(r)
    BY <1>14, <2>1, ReplyLocal DEF RegisterCode, TypeInv, SharedInv
  <2>2. CASE ~Reply(r)
    BY <1>14, <2>2 DEF RegisterCode, TypeInv, LocalInv, SharedInv, PCs
  <2>3. QED
    BY <2>1, <2>2
<1>15. ASSUME NEW r \in Requests, RegisterConsume(r) PROVE TypeInv'
  <2> DEFINE c == task[r].code
             end == IF codes[c].months = Unlimited THEN Unlimited
                    ELSE now + codes[c].months
  <2>1. CASE Usable(c)
    <3>1. c \in Codes /\ codes[c].months \in Durations
      BY <1>15, <2>1 DEF RegisterConsume, LocalInv, SharedInv, Usable
    <3>2. end \in Term
      <4>1. codes[c].months = Unlimited \/ codes[c].months \in Nat
        BY <3>1
      <4>2. codes[c].months \in Nat => now + codes[c].months \in Nat
        BY DEF SharedInv
      <4>3. QED
        BY <4>1, <4>2 DEF Term
    <3>3. task[r].name \in Names \union {None}
      BY <1>15 DEF RegisterConsume, LocalInv, PCs, Task
    <3>4. NewOrg(task[r].name, end) \in OrgRow
      BY <3>2, <3>3, NewRows
    <3>5. /\ orgMem' = [orgMem EXCEPT ![r] = NewOrg(task[r].name, end)]
          /\ pc' = [pc EXCEPT ![r] = "insertOrg"]
          /\ pc[r] = "tx"
          /\ UNCHANGED <<task, codeMem, dirty>>
      BY <1>15, <2>1 DEF RegisterConsume
    <3>6. LocalInv'
      BY <3>1, <3>4, <3>5 DEF LocalInv, PCs
    <3>7. QED
      BY <1>15, <3>6 DEF RegisterConsume, TypeInv, SharedInv
  <2>2. CASE ~Usable(c)
    BY <1>15, <2>2, ReplyLocal DEF RegisterConsume, TypeInv, SharedInv
  <2>3. QED
    BY <2>1, <2>2
<1>16. ASSUME NEW r \in Requests, RegisterInsert(r) PROVE TypeInv'
  <2>1. CASE Reply(r)
    BY <1>16, <2>1, ReplyLocal DEF RegisterInsert, TypeInv, SharedInv
  <2>2. CASE ~Reply(r)
    BY <1>16, <2>2 DEF RegisterInsert, TypeInv, LocalInv, SharedInv, PCs
  <2>3. QED
    BY <2>1, <2>2
<1>18. ASSUME NEW r \in Requests, NEW o \in Orgs, SetSubscription(r, o) PROVE TypeInv'
  <2>1. org[o] \in OrgRow /\ now \in Nat
    BY DEF SharedInv
  <2>2. /\ \E row \in OrgRow : orgMem' = [orgMem EXCEPT ![r] = row]
        /\ ceiling' \in [Orgs -> Nat]
    <3>1. PICK plan \in {org[o].plan} \union Plans :
            LET loaded == [org[o] EXCEPT !.plan = plan] IN
            \/ orgMem' = [orgMem EXCEPT ![r] = loaded] /\ UNCHANGED ceiling
            \/ /\ orgMem' = [orgMem EXCEPT ![r] = [loaded EXCEPT !.expires = Unlimited]]
               /\ UNCHANGED ceiling
            \/ \E d \in Durations \ {Unlimited} :
                 /\ orgMem' = [orgMem EXCEPT ![r] =
                                 [loaded EXCEPT !.expires = Extend(@, d, now)]]
                 /\ ceiling' = [ceiling EXCEPT ![o] = Larger(@, now) + d]
            \/ \E date \in SetDates :
                 /\ orgMem' = [orgMem EXCEPT ![r] = [loaded EXCEPT !.expires = date]]
                 /\ ceiling' = [ceiling EXCEPT ![o] = Larger(@, date)]
      BY <1>18 DEF SetSubscription
    <3> DEFINE loaded == [org[o] EXCEPT !.plan = plan]
    <3>2. loaded \in OrgRow
      BY <2>1 DEF OrgRow
    <3>3. \A t \in Term : [loaded EXCEPT !.expires = t] \in OrgRow
      BY <3>2 DEF OrgRow
    <3>4. CASE orgMem' = [orgMem EXCEPT ![r] = loaded] /\ UNCHANGED ceiling
      BY <3>2, <3>4 DEF SharedInv
    <3>5. CASE /\ orgMem' = [orgMem EXCEPT ![r] = [loaded EXCEPT !.expires = Unlimited]]
               /\ UNCHANGED ceiling
      BY <3>3, <3>5 DEF SharedInv, Term
    <3>6. CASE \E d \in Durations \ {Unlimited} :
                 /\ orgMem' = [orgMem EXCEPT ![r] =
                                 [loaded EXCEPT !.expires = Extend(@, d, now)]]
                 /\ ceiling' = [ceiling EXCEPT ![o] = Larger(@, now) + d]
      <4>1. PICK d \in Durations \ {Unlimited} :
              /\ orgMem' = [orgMem EXCEPT ![r] =
                              [loaded EXCEPT !.expires = Extend(loaded.expires, d, now)]]
              /\ ceiling' = [ceiling EXCEPT ![o] = Larger(ceiling[o], now) + d]
        BY <3>6, <3>2 DEF SharedInv, OrgRow
      <4>2. loaded.expires \in Term
        BY <3>2 DEF OrgRow
      <4>3. Extend(loaded.expires, d, now) \in Term
        BY <4>2, <2>1, ExtendType DEF Term
      <4>4. ceiling' \in [Orgs -> Nat]
        BY <4>1, <2>1 DEF SharedInv, Larger
      <4>5. QED
        BY <4>1, <4>3, <4>4, <3>3
    <3>7. CASE \E date \in SetDates :
                 /\ orgMem' = [orgMem EXCEPT ![r] = [loaded EXCEPT !.expires = date]]
                 /\ ceiling' = [ceiling EXCEPT ![o] = Larger(@, date)]
      BY <3>3, <3>7 DEF SharedInv, Larger, Term
    <3>8. QED
      BY <3>1, <3>4, <3>5, <3>6, <3>7
  <2>3. [NoTask EXCEPT !.op = "set", !.org = o] \in Task
    BY <1>18, TaskTypes DEF SetSubscription
  <2>4. [NoTask EXCEPT !.op = "set", !.org = o].org = o
    BY DEF NoTask
  <2>5. LocalInv'
    <3>1. PICK row \in OrgRow : orgMem' = [orgMem EXCEPT ![r] = row]
      BY <2>2
    <3>2. PICK t \in Task : t.org = o /\ task' = [task EXCEPT ![r] = t]
      BY <1>18, <2>3, <2>4 DEF SetSubscription
    <3>3. /\ pc[r] = "new" /\ pc' = [pc EXCEPT ![r] = "reload"]
          /\ UNCHANGED <<codeMem, dirty>>
      BY <1>18 DEF SetSubscription
    <3>4. QED
      BY <3>1, <3>2, <3>3 DEF LocalInv, PCs
  <2>6. QED
    BY <1>18, <2>2, <2>5 DEF SetSubscription, TypeInv, SharedInv
<1>17. ASSUME NEW r \in Requests, RegisterCommit(r) PROVE TypeInv'
  <2> DEFINE c == task[r].code
             o == task[r].org
  <2>1. c \in Codes /\ o \in Orgs /\ orgMem[r] \in OrgRow
    BY <1>17 DEF RegisterCommit, LocalInv
  <2>2. codes[c].issued
    BY <1>17, <2>1 DEF RegisterCommit, CodeInv, TxHoldsUsable, OpenTx, Usable
  <2>3. /\ codes' \in [Codes -> CodeRow]
        /\ \A d \in Codes : codes'[d].issued => codes'[d].months \in Durations
    <3>1. \A row \in CodeRow : [row EXCEPT !.used = TRUE, !.usedBy = o] \in CodeRow
      BY <2>1 DEF CodeRow
    <3>2. codes' = [codes EXCEPT ![c] = [codes[c] EXCEPT !.used = TRUE, !.usedBy = o]]
      BY <1>17, <2>1 DEF RegisterCommit, SharedInv
    <3>3. codes'[c].issued = codes[c].issued /\ codes'[c].months = codes[c].months
      BY <2>1, <3>2 DEF SharedInv, CodeRow
    <3>4. QED
      BY <2>1, <3>1, <3>2, <3>3 DEF SharedInv
  <2>4. ceiling' \in [Orgs -> Nat]
    BY <1>17, <2>1, <2>2, CreditedType DEF RegisterCommit
  <2>5. SharedInv'
    BY <1>17, <2>1, <2>3, <2>4 DEF RegisterCommit, SharedInv
  <2>6. QED
    BY <1>17, <2>5, ReplyLocal DEF RegisterCommit, TypeInv
<1>19. ASSUME NEW r \in Requests, NEW o \in Orgs, EditProfile(r, o) PROVE TypeInv'
  <2>1. PICK t \in Task : t.org = o /\ task' = [task EXCEPT ![r] = t]
    <3>1. CASE /\ CanStart(r, "rename")
               /\ \E name \in Names :
                    task' = [task EXCEPT ![r] = [NoTask EXCEPT !.op = "rename",
                                                  !.org = o, !.name = name]]
      BY <3>1, TaskTypes DEF NoTask
    <3>2. CASE /\ CanStart(r, "logo")
               /\ task' = [task EXCEPT ![r] = [NoTask EXCEPT !.op = "logo", !.org = o]]
      BY <3>2, TaskTypes DEF NoTask
    <3>3. QED
      BY <1>19, <3>1, <3>2 DEF EditProfile
  <2>2. LocalInv'
    BY <1>19, <2>1 DEF EditProfile, LocalInv, PCs
  <2>3. QED
    BY <1>19, <2>2 DEF EditProfile, TypeInv, SharedInv
<1>20. ASSUME NEW r \in Requests, LoadOrg(r) PROVE TypeInv'
  <2>1. PICK row \in OrgRow : orgMem' = [orgMem EXCEPT ![r] = row]
    <3>1. org[task[r].org] \in OrgRow
      BY <1>20 DEF LoadOrg, LocalInv, SharedInv
    <3>2. task[r].name \in Names \union {None}
      BY <1>20 DEF LoadOrg, LocalInv, PCs, Task
    <3>3. \A row \in OrgRow, name \in Names \union {None} :
            [row EXCEPT !.name = name] \in OrgRow
      BY DEF OrgRow
    <3>4. QED
      BY <1>20, <3>1, <3>2, <3>3 DEF LoadOrg
  <2>2. pc' \in {[pc EXCEPT ![r] = "reload"], [pc EXCEPT ![r] = "upload"]}
    BY <1>20 DEF LoadOrg
  <2>3. LocalInv'
    BY <1>20, <2>1, <2>2 DEF LoadOrg, LocalInv, PCs
  <2>4. QED
    BY <1>20, <2>3 DEF LoadOrg, TypeInv, SharedInv
<1>21. ASSUME NEW r \in Requests, UploadLogo(r) PROVE TypeInv'
  <2>1. orgMem[r] \in OrgRow
    BY <1>21 DEF UploadLogo, LocalInv
  <2>2. [orgMem[r] EXCEPT !.logo = TRUE] \in OrgRow
    BY <2>1 DEF OrgRow
  <2>3. PICK row \in OrgRow : orgMem' = [orgMem EXCEPT ![r] = row]
    BY <1>21, <2>2 DEF UploadLogo, LocalInv
  <2> /\ pc[r] = "upload" /\ pc' = [pc EXCEPT ![r] = "reload"]
      /\ UNCHANGED <<task, codeMem, dirty>>
    BY <1>21 DEF UploadLogo
  <2>4. LocalInv'
    BY <2>3 DEF LocalInv, PCs
  <2>5. QED
    BY <1>21, <2>4 DEF UploadLogo, TypeInv, SharedInv
<1>22. CASE Tick
  BY <1>22 DEF Tick, requestVars, TypeInv, LocalInv, SharedInv
<1>23. CASE Crash
  BY <1>23 DEF Crash, InFlight, TypeInv, LocalInv, SharedInv, PCs
<1>24. CASE UNCHANGED vars
  BY <1>24 DEF vars, requestVars, TypeInv, LocalInv, SharedInv
<1>25. QED
  BY <1>1, <1>2, <1>3, <1>4, <1>5, <1>6, <1>7, <1>8, <1>9, <1>10, <1>11, <1>12,
     <1>13, <1>14, <1>15, <1>16, <1>17, <1>18, <1>19, <1>20, <1>21, <1>22, <1>23,
     <1>24 DEF Next, Arrive, Serve, Quiet

-----------------------------------------------------------------------------
(* A code is consumed at most once *)

\* No request starts or goes on with a transaction or a revocation.
Calm ==
  \A q \in Requests :
    /\ OpenTx(q)' => OpenTx(q) /\ task'[q].code = task[q].code
    /\ pc'[q] \in HoldsCode =>
         /\ pc'[q] = pc[q] /\ task'[q] = task[q]
         /\ codeMem'[q] = codeMem[q] /\ dirty'[q] = dirty[q]

LEMMA ReplyCalm ==
  ASSUME LocalInv, NEW r \in Requests, Reply(r)
  PROVE  Calm
  BY DEF LocalInv, Reply, GoTo, Calm, OpenTx, HoldsCode

LEMMA CalmKeepsCodeInv ==
  ASSUME CodeInv, Calm, UNCHANGED <<codes, grants>>
  PROVE  CodeInv'
<1>1. SpentIsDead' /\ CodeConsumedOnce'
  BY DEF CodeInv, SpentIsDead, CodeConsumedOnce
<1>2. TxHoldsUsable'
  BY DEF CodeInv, TxHoldsUsable, Calm, Usable
<1>3. RevokeWillRevoke'
  BY DEF CodeInv, RevokeWillRevoke, Calm, HoldsCode
<1>4. QED
  BY <1>1, <1>2, <1>3 DEF CodeInv

\* A change of one row that keeps consumed codes dead, by a request that no
\* open transaction excludes and that is then finished with the code.
LEMMA RowChange ==
  ASSUME TypeInv, CodeInv, Calm, NEW c \in Codes, NEW row \in CodeRow,
         codes' = [codes EXCEPT ![c] = row],
         codes[c].issued => row.issued,
         codes[c].issued /\ codes[c].revoked => row.revoked,
         codes[c].issued /\ (codes[c].used \/ codes[c].revoked) => row.used \/ row.revoked,
         \A q \in Requests : OpenTx(q)' => task[q].code # c
  PROVE  TxHoldsUsable' /\ RevokeWillRevoke' /\
         \A g \in grants : codes'[g[1]].issued /\ (codes'[g[1]].used \/ codes'[g[1]].revoked)
<1>1. codes \in [Codes -> CodeRow] /\ \A g \in grants : g[1] \in Codes
  BY DEF TypeInv, SharedInv
<1>2. \A g \in grants : codes'[g[1]].issued /\ (codes'[g[1]].used \/ codes'[g[1]].revoked)
  BY <1>1 DEF CodeInv, SpentIsDead
<1>3. TxHoldsUsable'
  <2>1. \A q \in Requests : OpenTx(q)' => Usable(task[q].code)'
    <3> SUFFICES ASSUME NEW q \in Requests, OpenTx(q)' PROVE Usable(task[q].code)'
      OBVIOUS
    <3>1. OpenTx(q) /\ task'[q].code = task[q].code /\ task[q].code # c
      BY DEF Calm
    <3>2. Usable(task[q].code)
      BY <3>1 DEF CodeInv, TxHoldsUsable
    <3>3. task[q].code \in Codes
      BY <3>1 DEF TypeInv, LocalInv, RequestOK, OpenTx, NamesCode
    <3>4. codes'[task[q].code] = codes[task[q].code]
      BY <1>1, <3>1, <3>3
    <3>5. QED
      BY <3>1, <3>2, <3>4 DEF Usable
  <2>2. QED
    BY <2>1 DEF TxHoldsUsable, CodeInv, Calm
<1>4. RevokeWillRevoke'
  <2> SUFFICES ASSUME NEW q \in Requests, pc'[q] \in HoldsCode
               PROVE /\ codeMem'[q].revoked /\ codes'[task'[q].code].issued
                     /\ pc'[q] = "revokeUpdate" =>
                          "revoked" \in dirty'[q] \/ codes'[task'[q].code].revoked
    BY DEF RevokeWillRevoke, HoldsCode
  <2>1. /\ pc'[q] = pc[q] /\ task'[q] = task[q]
        /\ codeMem'[q] = codeMem[q] /\ dirty'[q] = dirty[q]
    BY DEF Calm
  <2>2. task[q].code \in Codes
    BY <2>1 DEF TypeInv, LocalInv, RequestOK, HoldsCode, NamesCode
  <2>3. codes[task[q].code].issued =>
          /\ codes'[task[q].code].issued
          /\ codes[task[q].code].revoked => codes'[task[q].code].revoked
    BY <1>1, <2>2
  <2>4. QED
    BY <2>1, <2>3 DEF CodeInv, RevokeWillRevoke
<1>5. QED
  BY <1>2, <1>3, <1>4

\* A usable code has not been consumed, so one more grant is its only one.
LEMMA FirstGrant ==
  ASSUME TypeInv, CodeInv, NEW c \in Codes, Usable(c), NEW r, NEW o,
         grants' = grants \union {<<c, r, o>>}
  PROVE  CodeConsumedOnce' /\ (\A g \in grants : g[1] # c)
<1>1. \A g \in grants : g[1] # c
  BY DEF CodeInv, SpentIsDead, Usable
<1>2. CodeConsumedOnce'
  BY <1>1 DEF CodeInv, CodeConsumedOnce
<1>3. QED
  BY <1>1, <1>2

LEMMA InitCodeInv == Init => CodeInv
  BY DEF Init, CodeInv, SpentIsDead, TxHoldsUsable, RevokeWillRevoke,
         CodeConsumedOnce, OpenTx, HoldsCode

LEMMA StepCodeInv == TypeInv /\ CodeInv /\ [Next]_vars => CodeInv'
<1> SUFFICES ASSUME TypeInv, CodeInv, [Next]_vars PROVE CodeInv'
  OBVIOUS
<1>0. LocalInv /\ SharedInv
  BY DEF TypeInv
<1> USE DEF GoTo, CanStart
<1>1. ASSUME NEW r \in Requests, SaveOrgReload(r) PROVE CodeInv'
  <2>1. Calm
    <3>1. CASE Reply(r)
      BY <1>0, <3>1, ReplyCalm
    <3>2. CASE ~Reply(r)
      BY <1>0, <1>1, <3>2 DEF SaveOrgReload, LocalInv, Calm, OpenTx, HoldsCode
    <3>3. QED
      BY <3>1, <3>2
  <2>2. QED
    BY <1>1, <2>1, CalmKeepsCodeInv DEF SaveOrgReload
<1>2. ASSUME NEW r \in Requests, SaveOrgUpdate(r) PROVE CodeInv'
  BY <1>0, <1>2, ReplyCalm, CalmKeepsCodeInv DEF SaveOrgUpdate
<1>3. ASSUME NEW r \in Requests, Issue(r) PROVE CodeInv'
  <2>1. /\ pc[r] = "new" /\ pc' = [pc EXCEPT ![r] = "generate"]
        /\ \A q \in Requests \ {r} : task'[q] = task[q]
        /\ UNCHANGED <<codes, grants, codeMem, dirty>>
    BY <1>0, <1>3 DEF Issue, LocalInv
  <2>2. Calm
    BY <1>0, <2>1 DEF LocalInv, Calm, OpenTx, HoldsCode
  <2>3. QED
    BY <2>1, <2>2, CalmKeepsCodeInv
<1>4. ASSUME NEW r \in Requests, IssueGenerate(r) PROVE CodeInv'
  <2>1. Calm
    <3>1. CASE Reply(r)
      BY <1>0, <3>1, ReplyCalm
    <3>2. CASE ~Reply(r)
      <4>1. /\ pc[r] = "generate" /\ pc' = [pc EXCEPT ![r] = "insertCode"]
            /\ \A q \in Requests \ {r} : task'[q] = task[q]
            /\ UNCHANGED <<codeMem, dirty>>
        BY <1>0, <1>4, <3>2 DEF IssueGenerate, LocalInv
      <4>2. QED
        BY <1>0, <4>1 DEF LocalInv, Calm, OpenTx, HoldsCode
    <3>3. QED
      BY <3>1, <3>2
  <2>2. QED
    BY <1>4, <2>1, CalmKeepsCodeInv DEF IssueGenerate
<1>5. ASSUME NEW r \in Requests, IssueInsert(r) PROVE CodeInv'
  <2> DEFINE c == task[r].code
             row == NewCode(task[r].months)
  <2>1. c \in Codes /\ pc[r] = "insertCode" /\ UNCHANGED grants
    BY <1>0, <1>5 DEF IssueInsert, LocalInv, RequestOK, NamesCode
  <2>2. Calm
    <3>1. CASE Reply(r)
      BY <1>0, <3>1, ReplyCalm
    <3>2. CASE ~Reply(r)
      <4>1. /\ pc' = [pc EXCEPT ![r] = "generate"]
            /\ \A q \in Requests \ {r} : task'[q] = task[q]
            /\ UNCHANGED <<codeMem, dirty>>
        BY <1>0, <1>5, <3>2 DEF IssueInsert, LocalInv
      <4>2. QED
        BY <1>0, <2>1, <4>1 DEF LocalInv, Calm, OpenTx, HoldsCode
    <3>3. QED
      BY <3>1, <3>2
  <2>3. CASE codes[c].issued
    BY <1>5, <2>2, <2>3, CalmKeepsCodeInv DEF IssueInsert
  <2>4. CASE ~codes[c].issued
    <3>1. codes' = [codes EXCEPT ![c] = row]
      BY <1>5, <2>4 DEF IssueInsert
    <3>2. row \in CodeRow /\ row.issued
      BY <1>0, <1>5, NewRows DEF LocalInv, RequestOK, IssueInsert, NewCode, AbsentCode
    <3>3. \A q \in Requests : OpenTx(q)' => task[q].code # c
      BY <2>2, <2>4 DEF CodeInv, TxHoldsUsable, Usable, Calm
    <3>4. /\ TxHoldsUsable' /\ RevokeWillRevoke'
          /\ \A g \in grants : codes'[g[1]].issued /\ (codes'[g[1]].used \/ codes'[g[1]].revoked)
      BY <2>1, <2>2, <2>4, <3>1, <3>2, <3>3, RowChange
    <3>5. QED
      BY <2>1, <3>4 DEF CodeInv, SpentIsDead, CodeConsumedOnce
  <2>5. QED
    BY <2>3, <2>4
<1>6. ASSUME NEW r \in Requests, NEW c \in Codes, Revoke(r, c) PROVE CodeInv'
  <2>1. /\ pc[r] = "new" /\ pc' = [pc EXCEPT ![r] = "revokeReload"]
        /\ task' = [task EXCEPT ![r] = [NoTask EXCEPT !.op = "revoke", !.code = c]]
        /\ codeMem' = [codeMem EXCEPT ![r] = [codes[c] EXCEPT !.revoked = TRUE]]
        /\ codes[c].issued
        /\ UNCHANGED <<codes, grants, dirty>>
    BY <1>6 DEF Revoke
  <2>2. task'[r].code = c /\ \A q \in Requests \ {r} : task'[q] = task[q]
    BY <1>0, <2>1 DEF LocalInv, NoTask
  <2>3. codeMem'[r].revoked /\ \A q \in Requests \ {r} : codeMem'[q] = codeMem[q]
    BY <1>0, <2>1 DEF LocalInv, SharedInv, CodeRow
  <2>4. pc'[r] = "revokeReload" /\ \A q \in Requests \ {r} : pc'[q] = pc[q]
    BY <1>0, <2>1 DEF LocalInv
  <2>5. TxHoldsUsable'
    BY <2>1, <2>2, <2>4 DEF CodeInv, TxHoldsUsable, OpenTx, Usable
  <2>6. RevokeWillRevoke'
    BY <2>1, <2>2, <2>3, <2>4 DEF CodeInv, RevokeWillRevoke, HoldsCode
  <2>7. QED
    BY <2>1, <2>5, <2>6 DEF CodeInv, SpentIsDead, CodeConsumedOnce
<1>7. ASSUME NEW r \in Requests, RevokeReload(r) PROVE CodeInv'
  <2>1. CASE Reply(r)
    BY <1>0, <1>7, <2>1, ReplyCalm, CalmKeepsCodeInv DEF RevokeReload
  <2>2. CASE ~Reply(r)
    <3> DEFINE cols == Differing(codeMem[r], codes[task[r].code])
    <3>1. /\ pc[r] = "revokeReload" /\ pc' = [pc EXCEPT ![r] = "revokeUpdate"]
          /\ dirty' = [dirty EXCEPT ![r] = cols]
          /\ UNCHANGED <<codes, grants, task, codeMem>>
      BY <1>7, <2>2 DEF RevokeReload
    <3>2. /\ pc'[r] = "revokeUpdate" /\ dirty'[r] = cols
          /\ \A q \in Requests \ {r} : pc'[q] = pc[q] /\ dirty'[q] = dirty[q]
      BY <1>0, <3>1, DifferingColumns DEF LocalInv
    <3>3. TxHoldsUsable'
      BY <3>1, <3>2 DEF CodeInv, TxHoldsUsable, OpenTx, Usable
    <3>4. codeMem[r].revoked /\ codes[task[r].code].issued
      BY <3>1 DEF CodeInv, RevokeWillRevoke, HoldsCode
    <3>5. "revoked" \in cols \/ codes[task[r].code].revoked
      <4>1. codes[task[r].code] \in CodeRow /\ codeMem[r] \in CodeRow
        BY <1>0, <3>1 DEF LocalInv, SharedInv, RequestOK, HoldsCode, NamesCode
      <4>2. "revoked" \in DOMAIN codes[task[r].code]
        BY <4>1 DEF CodeRow
      <4>3. \A e, row \in CodeRow : e["revoked"] = e.revoked
        BY DEF CodeRow
      <4>4. QED
        BY <3>4, <4>1, <4>2, <4>3 DEF Differing
    <3>6. RevokeWillRevoke'
      BY <3>1, <3>2, <3>4, <3>5 DEF CodeInv, RevokeWillRevoke, HoldsCode
    <3>7. QED
      BY <3>1, <3>3, <3>6 DEF CodeInv, SpentIsDead, CodeConsumedOnce
  <2>3. QED
    BY <2>1, <2>2
<1>8. ASSUME NEW r \in Requests, RevokeUpdate(r) PROVE CodeInv'
  <2> DEFINE c == task[r].code
             row == CodeUpdated(codes[c], codeMem[r], dirty[r])
  <2>1. /\ pc[r] = "revokeUpdate" /\ CodeFree(r, c) /\ Reply(r)
        /\ codes' = [codes EXCEPT ![c] = row]
        /\ UNCHANGED grants
    BY <1>8 DEF RevokeUpdate
  <2>2. c \in Codes /\ codeMem[r] \in CodeRow /\ codes[c] \in CodeRow
    BY <1>0, <2>1 DEF LocalInv, SharedInv, RequestOK, HoldsCode, NamesCode
  <2>3. codeMem[r].revoked /\ ("revoked" \in dirty[r] \/ codes[c].revoked)
    BY <2>1 DEF CodeInv, RevokeWillRevoke, HoldsCode
  <2>4. row \in CodeRow /\ row.revoked /\ row.issued = codes[c].issued
    BY <2>2, <2>3, CodeUpdatedType DEF CodeUpdated
  <2>5. Calm
    BY <1>0, <2>1, ReplyCalm
  <2>6. \A q \in Requests : OpenTx(q)' => task[q].code # c
    BY <2>1, <2>5 DEF Calm, CodeFree, LocksCode, OpenTx
  <2>7. /\ TxHoldsUsable' /\ RevokeWillRevoke'
        /\ \A g \in grants : codes'[g[1]].issued /\ (codes'[g[1]].used \/ codes'[g[1]].revoked)
    BY <2>1, <2>2, <2>4, <2>5, <2>6, RowChange
  <2>8. QED
    BY <2>1, <2>7 DEF CodeInv, SpentIsDead, CodeConsumedOnce
<1>9. ASSUME NEW r \in Requests, NEW o \in Orgs, NEW c \in Codes, Redeem(r, o, c)
      PROVE CodeInv'
  <2>1. Calm
    BY <1>0, <1>9 DEF Redeem, LocalInv, Calm, OpenTx, HoldsCode
  <2>2. QED
    BY <1>9, <2>1, CalmKeepsCodeInv DEF Redeem
<1>10. ASSUME NEW r \in Requests, RedeemCheck(r) PROVE CodeInv'
  <2>1. CASE Reply(r)
    BY <1>0, <1>10, <2>1, ReplyCalm, CalmKeepsCodeInv DEF RedeemCheck
  <2>2. CASE ~Reply(r)
    <3>1. Calm
      BY <1>0, <1>10, <2>2 DEF RedeemCheck, LocalInv, Calm, OpenTx, HoldsCode
    <3>2. QED
      BY <1>10, <3>1, CalmKeepsCodeInv DEF RedeemCheck
  <2>3. QED
    BY <2>1, <2>2
<1>11. ASSUME NEW r \in Requests, RedeemConsume(r) PROVE CodeInv'
  <2> DEFINE c == task[r].code
             o == task[r].org
             row == [codes[c] EXCEPT !.used = TRUE, !.usedBy = o]
  <2>1. CASE ~Usable(c)
    BY <1>0, <1>11, <2>1, ReplyCalm, CalmKeepsCodeInv DEF RedeemConsume
  <2>2. CASE Usable(c)
    <3>1. /\ pc[r] = "consume" /\ CodeFree(r, c) /\ pc' = [pc EXCEPT ![r] = "reload"]
          /\ grants' = grants \union {<<c, r, o>>}
          /\ UNCHANGED <<task, codeMem, dirty>>
      BY <1>11, <2>2 DEF RedeemConsume
    <3>2. c \in Codes /\ o \in Orgs /\ codes[c] \in CodeRow
      BY <1>0, <3>1 DEF LocalInv, SharedInv, RequestOK, HoldsOrg, NamesOrg, NamesCode
    <3>3. codes' = [codes EXCEPT ![c] = row]
      BY <1>0, <1>11, <2>2, <3>2 DEF RedeemConsume, SharedInv
    <3>4. /\ row \in CodeRow /\ row.used
          /\ row.issued = codes[c].issued /\ row.revoked = codes[c].revoked
      BY <3>2 DEF CodeRow
    <3>5. Calm
      BY <1>0, <3>1 DEF LocalInv, Calm, OpenTx, HoldsCode
    <3>6. \A q \in Requests : OpenTx(q)' => task[q].code # c
      BY <1>0, <3>1 DEF LocalInv, OpenTx, CodeFree, LocksCode
    <3> HIDE DEF row
    <3>7. /\ TxHoldsUsable' /\ RevokeWillRevoke'
          /\ \A g \in grants : codes'[g[1]].issued /\ (codes'[g[1]].used \/ codes'[g[1]].revoked)
      BY <3>2, <3>3, <3>4, <3>5, <3>6, RowChange
    <3>8. CodeConsumedOnce'
      BY <2>2, <3>1, <3>2, FirstGrant
    <3>9. codes'[c].issued /\ codes'[c].used
      BY <1>0, <2>2, <3>2, <3>3, <3>4 DEF SharedInv, Usable
    <3>10. SpentIsDead'
      BY <3>1, <3>7, <3>9 DEF SpentIsDead
    <3>11. QED
      BY <3>7, <3>8, <3>10 DEF CodeInv
  <2>3. QED
    BY <2>1, <2>2
<1>12. ASSUME NEW r \in Requests, NEW o \in Orgs, NEW name \in Names,
              NEW c \in Codes, Register(r, o, name, c)
       PROVE CodeInv'
  <2>1. Calm
    BY <1>0, <1>12 DEF Register, LocalInv, Calm, OpenTx, HoldsCode
  <2>2. QED
    BY <1>12, <2>1, CalmKeepsCodeInv DEF Register
<1>13. ASSUME NEW r \in Requests, RegisterName(r) PROVE CodeInv'
  <2>1. CASE Reply(r)
    BY <1>0, <1>13, <2>1, ReplyCalm, CalmKeepsCodeInv DEF RegisterName
  <2>2. CASE ~Reply(r)
    <3>1. Calm
      BY <1>0, <1>13, <2>2 DEF RegisterName, LocalInv, Calm, OpenTx, HoldsCode
    <3>2. QED
      BY <1>13, <3>1, CalmKeepsCodeInv DEF RegisterName
  <2>3. QED
    BY <2>1, <2>2
<1>14. ASSUME NEW r \in Requests, RegisterCode(r) PROVE CodeInv'
  <2>1. CASE Reply(r)
    BY <1>0, <1>14, <2>1, ReplyCalm, CalmKeepsCodeInv DEF RegisterCode
  <2>2. CASE ~Reply(r)
    <3>1. Calm
      BY <1>0, <1>14, <2>2 DEF RegisterCode, LocalInv, Calm, OpenTx, HoldsCode
    <3>2. QED
      BY <1>14, <3>1, CalmKeepsCodeInv DEF RegisterCode
  <2>3. QED
    BY <2>1, <2>2
<1>15. ASSUME NEW r \in Requests, RegisterConsume(r) PROVE CodeInv'
  <2> DEFINE c == task[r].code
  <2>1. CASE ~Usable(c)
    BY <1>0, <1>15, <2>1, ReplyCalm, CalmKeepsCodeInv DEF RegisterConsume
  <2>2. CASE Usable(c)
    <3>1. /\ pc[r] = "tx" /\ CodeFree(r, c) /\ pc' = [pc EXCEPT ![r] = "insertOrg"]
          /\ UNCHANGED <<codes, grants, task, codeMem, dirty>>
      BY <1>15, <2>2 DEF RegisterConsume
    <3>2. /\ ~OpenTx(r) /\ OpenTx(r)'
          /\ \A q \in Requests \ {r} : OpenTx(q)' <=> OpenTx(q)
      BY <1>0, <3>1 DEF LocalInv, OpenTx
    <3>3. \A q \in Requests \ {r} : OpenTx(q) => task[q].code # c
      BY <3>1 DEF CodeFree, LocksCode, OpenTx
    <3>4. TxHoldsUsable'
      BY <2>2, <3>1, <3>2, <3>3 DEF CodeInv, TxHoldsUsable, Usable
    <3>5. RevokeWillRevoke'
      BY <1>0, <3>1 DEF LocalInv, CodeInv, RevokeWillRevoke, HoldsCode
    <3>6. QED
      BY <3>1, <3>4, <3>5 DEF CodeInv, SpentIsDead, CodeConsumedOnce
  <2>3. QED
    BY <2>1, <2>2
<1>16. ASSUME NEW r \in Requests, RegisterInsert(r) PROVE CodeInv'
  <2>1. CASE Reply(r)
    BY <1>0, <1>16, <2>1, ReplyCalm, CalmKeepsCodeInv DEF RegisterInsert
  <2>2. CASE ~Reply(r)
    <3>1. Calm
      BY <1>0, <1>16, <2>2 DEF RegisterInsert, LocalInv, Calm, OpenTx, HoldsCode
    <3>2. QED
      BY <1>16, <3>1, CalmKeepsCodeInv DEF RegisterInsert
  <2>3. QED
    BY <2>1, <2>2
<1>17. ASSUME NEW r \in Requests, RegisterCommit(r) PROVE CodeInv'
  <2> DEFINE c == task[r].code
             o == task[r].org
             row == [codes[c] EXCEPT !.used = TRUE, !.usedBy = o]
  <2>1. /\ pc[r] = "commit" /\ Reply(r)
        /\ grants' = grants \union {<<c, r, o>>}
    BY <1>17 DEF RegisterCommit
  <2>2. c \in Codes /\ o \in Orgs /\ codes[c] \in CodeRow
    BY <1>0, <2>1 DEF LocalInv, SharedInv, RequestOK, HoldsOrg, NamesOrg, NamesCode
  <2>3. codes' = [codes EXCEPT ![c] = row]
    BY <1>0, <1>17, <2>2 DEF RegisterCommit, SharedInv
  <2>4. /\ row \in CodeRow /\ row.used
        /\ row.issued = codes[c].issued /\ row.revoked = codes[c].revoked
    BY <2>2 DEF CodeRow
  <2>5. Calm /\ ~OpenTx(r)'
    BY <1>0, <2>1, ReplyCalm DEF LocalInv, OpenTx, Reply, GoTo
  <2>6. OpenTx(r) /\ Usable(c)
    BY <2>1 DEF CodeInv, TxHoldsUsable, OpenTx
  <2>7. \A q \in Requests : OpenTx(q)' => task[q].code # c
    BY <2>5, <2>6 DEF Calm, CodeInv, TxHoldsUsable
  <2> HIDE DEF row
  <2>8. /\ TxHoldsUsable' /\ RevokeWillRevoke'
        /\ \A g \in grants : codes'[g[1]].issued /\ (codes'[g[1]].used \/ codes'[g[1]].revoked)
    BY <2>2, <2>3, <2>4, <2>5, <2>7, RowChange
  <2>9. CodeConsumedOnce'
    BY <2>1, <2>2, <2>6, FirstGrant
  <2>10. codes'[c].issued /\ codes'[c].used
    BY <1>0, <2>2, <2>3, <2>4, <2>6 DEF SharedInv, Usable
  <2>11. SpentIsDead'
    BY <2>1, <2>8, <2>10 DEF SpentIsDead
  <2>12. QED
    BY <2>8, <2>9, <2>11 DEF CodeInv
<1>18. ASSUME NEW r \in Requests, NEW o \in Orgs, SetSubscription(r, o) PROVE CodeInv'
  <2>1. /\ pc[r] = "new" /\ pc' = [pc EXCEPT ![r] = "reload"]
        /\ \A q \in Requests \ {r} : task'[q] = task[q]
        /\ UNCHANGED <<codes, grants, codeMem, dirty>>
    BY <1>0, <1>18 DEF SetSubscription, LocalInv
  <2>2. Calm
    BY <1>0, <2>1 DEF LocalInv, Calm, OpenTx, HoldsCode
  <2>3. QED
    BY <2>1, <2>2, CalmKeepsCodeInv
<1>19. ASSUME NEW r \in Requests, NEW o \in Orgs, EditProfile(r, o) PROVE CodeInv'
  <2>1. /\ pc[r] = "new" /\ pc' = [pc EXCEPT ![r] = "loadOrg"]
        /\ \A q \in Requests \ {r} : task'[q] = task[q]
        /\ UNCHANGED <<codes, grants, codeMem, dirty>>
    BY <1>0, <1>19 DEF EditProfile, LocalInv
  <2>2. Calm
    BY <1>0, <2>1 DEF LocalInv, Calm, OpenTx, HoldsCode
  <2>3. QED
    BY <2>1, <2>2, CalmKeepsCodeInv
<1>20. ASSUME NEW r \in Requests, LoadOrg(r) PROVE CodeInv'
  <2>1. /\ pc[r] = "loadOrg" /\ pc'[r] \in {"reload", "upload"}
        /\ \A q \in Requests \ {r} : pc'[q] = pc[q]
        /\ UNCHANGED <<codes, grants, task, codeMem, dirty>>
    BY <1>0, <1>20 DEF LoadOrg, LocalInv
  <2>2. Calm
    BY <1>0, <2>1 DEF LocalInv, Calm, OpenTx, HoldsCode
  <2>3. QED
    BY <2>1, <2>2, CalmKeepsCodeInv
<1>21. ASSUME NEW r \in Requests, UploadLogo(r) PROVE CodeInv'
  <2>1. /\ pc[r] = "upload" /\ pc' = [pc EXCEPT ![r] = "reload"]
        /\ UNCHANGED <<codes, grants, task, codeMem, dirty>>
    BY <1>21 DEF UploadLogo
  <2>2. Calm
    BY <1>0, <2>1 DEF LocalInv, Calm, OpenTx, HoldsCode
  <2>3. QED
    BY <2>1, <2>2, CalmKeepsCodeInv
<1>22. CASE Tick
  BY <1>22, CalmKeepsCodeInv DEF Tick, requestVars, Calm, OpenTx
<1>23. CASE Crash
  <2>1. Calm
    BY <1>23 DEF Crash, InFlight, Calm, OpenTx, HoldsCode
  <2>2. QED
    BY <1>23, <2>1, CalmKeepsCodeInv DEF Crash
<1>24. CASE UNCHANGED vars
  BY <1>24, CalmKeepsCodeInv DEF vars, requestVars, Calm, OpenTx
<1>25. QED
  BY <1>1, <1>2, <1>3, <1>4, <1>5, <1>6, <1>7, <1>8, <1>9, <1>10, <1>11, <1>12,
     <1>13, <1>14, <1>15, <1>16, <1>17, <1>18, <1>19, <1>20, <1>21, <1>22, <1>23,
     <1>24 DEF Next, Arrive, Serve, Quiet

LEMMA Invariance == Spec => [](TypeInv /\ CodeInv)
<1>1. Init => TypeInv /\ CodeInv
  BY InitTypeInv, InitCodeInv
<1>2. TypeInv /\ CodeInv /\ [Next]_vars => (TypeInv /\ CodeInv)'
  BY StepTypeInv, StepCodeInv
<1>3. QED
  BY <1>1, <1>2, PTL DEF Spec

\* The tables and the requests keep their types.
THEOREM TypeCorrect == Spec => []TypeOK
  BY Invariance, TypeInvTyped, PTL

\* A registration code is worth something to at most one request, whatever
\* redemptions, registrations and revocations of it overlap (the conditional
\* UPDATEs of redeemForOrganization and register, the stale save of revokeCode).
THEOREM ConsumedOnce == Spec => []CodeConsumedOnce
<1>1. CodeInv => CodeConsumedOnce
  BY DEF CodeInv
<1>2. QED
  BY <1>1, Invariance, PTL

-----------------------------------------------------------------------------
(***************************************************************************)
(* What Subscriptions promises of codes and of terms.  It implements       *)
(* CodeLedger, and a revocation is final: both follow from what a step may *)
(* do to the table of codes (CodeStep).  And no interleaving of            *)
(* redemptions, registrations, admin changes, profile edits and crashes    *)
(* gives an organisation more months than its codes and the super admin    *)
(* account for.                                                            *)
(***************************************************************************)

\* The ways in which a step may treat the row of code c.
Issues(c) ==
  /\ ~codes[c].issued
  /\ \E d \in Durations : codes' = [codes EXCEPT ![c] = NewCode(d)]
  /\ UNCHANGED grants

Revokes(c) ==
  /\ codes[c].issued
  /\ \E row \in CodeRow : /\ row.issued /\ row.revoked
                          /\ codes' = [codes EXCEPT ![c] = row]
  /\ UNCHANGED grants

Consumes(c, r, o) ==
  /\ Usable(c)
  /\ codes' = [codes EXCEPT ![c].used = TRUE, ![c].usedBy = o]
  /\ grants' = grants \union {<<c, r, o>>}

\* Every step leaves the codes alone, issues one, revokes one, or consumes one
\* that is usable at that moment.
LEMMA CodeStep ==
  ASSUME TypeInv, CodeInv, [Next]_vars
  PROVE  \/ UNCHANGED <<codes, grants>>
         \/ \E c \in Codes : Issues(c) \/ Revokes(c)
         \/ \E c \in Codes, r \in Requests, o \in Orgs : Consumes(c, r, o)
<1> DEFINE Goal == \/ UNCHANGED <<codes, grants>>
                   \/ \E c \in Codes : Issues(c) \/ Revokes(c)
                   \/ \E c \in Codes, r \in Requests, o \in Orgs : Consumes(c, r, o)
<1>0. LocalInv /\ SharedInv
  BY DEF TypeInv
<1>1. ASSUME NEW r \in Requests, IssueInsert(r) PROVE Goal
  <2>1. task[r].code \in Codes /\ task[r].months \in Durations
    BY <1>0, <1>1 DEF IssueInsert, LocalInv, RequestOK, NamesCode
  <2>2. QED
    BY <1>1, <2>1 DEF IssueInsert, Issues
<1>2. ASSUME NEW r \in Requests, RevokeUpdate(r) PROVE Goal
  <2> DEFINE c == task[r].code
             row == CodeUpdated(codes[c], codeMem[r], dirty[r])
  <2>1. pc[r] = "revokeUpdate" /\ codes' = [codes EXCEPT ![c] = row] /\ UNCHANGED grants
    BY <1>2 DEF RevokeUpdate
  <2>2. c \in Codes /\ codeMem[r] \in CodeRow /\ codes[c] \in CodeRow
    BY <1>0, <2>1 DEF LocalInv, SharedInv, RequestOK, HoldsCode, NamesCode
  <2>3. /\ codeMem[r].revoked /\ codes[c].issued
        /\ "revoked" \in dirty[r] \/ codes[c].revoked
    BY <2>1 DEF CodeInv, RevokeWillRevoke, HoldsCode
  <2>4. row \in CodeRow /\ row.revoked /\ row.issued
    BY <2>2, <2>3, CodeUpdatedType DEF CodeUpdated
  <2> HIDE DEF row
  <2>5. QED
    BY <2>1, <2>2, <2>3, <2>4 DEF Revokes
<1>3. ASSUME NEW r \in Requests, RedeemConsume(r) PROVE Goal
  <2>1. task[r].code \in Codes /\ task[r].org \in Orgs
    BY <1>0, <1>3 DEF RedeemConsume, LocalInv, RequestOK, NamesCode, NamesOrg, HoldsOrg
  <2>2. CASE Usable(task[r].code)
    BY <1>3, <2>1, <2>2 DEF RedeemConsume, Consumes
  <2>3. CASE ~Usable(task[r].code)
    BY <1>3, <2>3 DEF RedeemConsume
  <2>4. QED
    BY <2>2, <2>3
<1>4. ASSUME NEW r \in Requests, RegisterCommit(r) PROVE Goal
  <2>1. task[r].code \in Codes /\ task[r].org \in Orgs
    BY <1>0, <1>4 DEF RegisterCommit, LocalInv, RequestOK, NamesCode, NamesOrg, HoldsOrg
  <2>2. Usable(task[r].code)
    BY <1>4 DEF RegisterCommit, CodeInv, TxHoldsUsable, OpenTx
  <2>3. QED
    BY <1>4, <2>1, <2>2 DEF RegisterCommit, Consumes
<1>5. ASSUME NEW r \in Requests, Arrive(r) PROVE Goal
  BY <1>5 DEF Arrive, Issue, Revoke, Redeem, Register, SetSubscription, EditProfile
<1>6. ASSUME NEW r \in Requests,
             \/ IssueGenerate(r) \/ RevokeReload(r) \/ RedeemCheck(r)
             \/ RegisterName(r) \/ RegisterCode(r) \/ RegisterConsume(r)
             \/ RegisterInsert(r) \/ LoadOrg(r) \/ UploadLogo(r)
             \/ SaveOrgReload(r) \/ SaveOrgUpdate(r)
      PROVE Goal
  BY <1>6 DEF IssueGenerate, RevokeReload, RedeemCheck, RegisterName, RegisterCode,
    RegisterConsume, RegisterInsert, LoadOrg, UploadLogo, SaveOrgReload, SaveOrgUpdate
<1>7. CASE Tick \/ Crash \/ Quiet \/ UNCHANGED vars
  BY <1>7 DEF Tick, Crash, Quiet, vars
<1>8. QED
  BY <1>1, <1>2, <1>3, <1>4, <1>5, <1>6, <1>7 DEF Next, Serve

\* Nothing is revoked at the start.
LEMMA InitNotRevoked == Init => \A c \in Codes : ~codes[c].revoked
<1> SUFFICES ASSUME Init, NEW c \in Codes PROVE ~codes[c].revoked
  OBVIOUS
<1>1. PICK months \in [IssuedCodes -> Durations] :
        codes = [d \in Codes |-> IF d \in IssuedCodes THEN NewCode(months[d])
                                 ELSE AbsentCode]
  BY DEF Init
<1>2. ~AbsentCode.revoked /\ ~NewCode(months[c]).revoked
  BY DEF NewCode, AbsentCode
<1>3. QED
  BY <1>1, <1>2

\* A code that was never issued has not been revoked either: issuing it cannot
\* undo a revocation.
RevokedIsIssued == \A c \in Codes : codes[c].revoked => codes[c].issued

LEMMA RevokedIsIssuedInvariant == Spec => []RevokedIsIssued
<1>1. Init => RevokedIsIssued
  BY InitNotRevoked DEF RevokedIsIssued
<1>2. TypeInv /\ CodeInv /\ RevokedIsIssued /\ [Next]_vars => RevokedIsIssued'
  <2> SUFFICES ASSUME TypeInv, CodeInv, RevokedIsIssued, [Next]_vars
               PROVE RevokedIsIssued'
    OBVIOUS
  <2>1. codes \in [Codes -> CodeRow]
    BY DEF TypeInv, SharedInv
  <2>2. CASE UNCHANGED <<codes, grants>>
    BY <2>2 DEF RevokedIsIssued
  <2>3. ASSUME NEW c \in Codes, Issues(c) PROVE RevokedIsIssued'
    BY <2>1, <2>3 DEF RevokedIsIssued, Issues, NewCode, AbsentCode
  <2>4. ASSUME NEW c \in Codes, Revokes(c) PROVE RevokedIsIssued'
    BY <2>1, <2>4 DEF RevokedIsIssued, Revokes
  <2>5. ASSUME NEW c \in Codes, NEW r \in Requests, NEW o \in Orgs, Consumes(c, r, o)
        PROVE RevokedIsIssued'
    BY <2>1, <2>5 DEF RevokedIsIssued, Consumes, CodeRow
  <2>6. QED
    BY <2>2, <2>3, <2>4, <2>5, CodeStep
<1>3. QED
  BY <1>1, <1>2, Invariance, PTL DEF Spec

\* A revocation stays in the table for good, and its code is not consumed any
\* more, however the save of revokeCode and open registrations interleave.
THEOREM RevocationFinal == Spec => RevocationIsFinal
<1> DEFINE Final == \A c \in Codes : codes[c].revoked =>
                      /\ codes'[c].revoked
                      /\ \A g \in grants' \ grants : g[1] # c
<1>1. TypeInv /\ CodeInv /\ RevokedIsIssued /\ [Next]_vars => [Final]_vars
  <2> SUFFICES ASSUME TypeInv, CodeInv, RevokedIsIssued, [Next]_vars
               PROVE Final
    OBVIOUS
  <2>1. codes \in [Codes -> CodeRow]
    BY DEF TypeInv, SharedInv
  <2>2. CASE UNCHANGED <<codes, grants>>
    BY <2>2
  <2>3. ASSUME NEW c \in Codes, Issues(c) PROVE Final
    BY <2>1, <2>3 DEF RevokedIsIssued, Issues
  <2>4. ASSUME NEW c \in Codes, Revokes(c) PROVE Final
    BY <2>1, <2>4 DEF Revokes
  <2>5. ASSUME NEW c \in Codes, NEW r \in Requests, NEW o \in Orgs, Consumes(c, r, o)
        PROVE Final
    BY <2>1, <2>5 DEF Consumes, Usable, CodeRow
  <2>6. QED
    BY <2>2, <2>3, <2>4, <2>5, CodeStep
<1>2. QED
  BY <1>1, Invariance, RevokedIsIssuedInvariant, PTL DEF Spec, RevocationIsFinal

-----------------------------------------------------------------------------
(* Refinement *)

\* Who consumed a code is determined by any of its grants.
LEMMA HolderIs ==
  ASSUME CodeConsumedOnce, NEW c \in Codes, NEW g \in grants, g[1] = c
  PROVE  CodeHolder[c] = g[3]
<1>1. (CHOOSE h \in grants : h[1] = c) = g
  BY DEF CodeConsumedOnce
<1>2. QED
  BY <1>1 DEF CodeHolder

\* The initial tables are an initial ledger.
LEMMA LedgerInit == Init => Ledger!Init
<1> SUFFICES ASSUME Init PROVE Ledger!Init
  OBVIOUS
<1>1. \A c \in Codes : ~codes[c].revoked
  BY InitNotRevoked
<1>2. grants = {}
  BY DEF Init
<1>3. CodeHolder = [c \in Codes |-> None]
  BY <1>2 DEF CodeHolder
<1>4. QED
  BY <1>1, <1>3 DEF Ledger!Init

\* A step offers, withdraws or spends a code in the ledger, or leaves it alone.
LEMMA LedgerStep ==
  ASSUME TypeInv, TypeInv', CodeInv, CodeInv', RevokedIsIssued, [Next]_vars
  PROVE  [Ledger!Next]_Ledger!vars
<1> DEFINE Offered == {c \in Codes : codes[c].issued}
           Withdrawn == {c \in Codes : codes[c].revoked}
<1>0. codes \in [Codes -> CodeRow] /\ CodeConsumedOnce /\ CodeConsumedOnce'
  BY DEF TypeInv, SharedInv, CodeInv
<1>1. UNCHANGED grants => UNCHANGED CodeHolder
  BY DEF CodeHolder
<1>2. CASE UNCHANGED <<codes, grants>>
  BY <1>1, <1>2 DEF Ledger!vars
<1>3. ASSUME NEW c \in Codes, Issues(c) PROVE Ledger!Next
  <2>1. PICK row : row.issued /\ ~row.revoked /\ codes' = [codes EXCEPT ![c] = row]
    BY <1>3 DEF Issues, NewCode, AbsentCode
  <2>2. c \notin Offered /\ Offered' = Offered \union {c} /\ Withdrawn' = Withdrawn
    BY <1>0, <1>3, <2>1 DEF Issues, RevokedIsIssued
  <2>3. Ledger!Offer(c)
    BY <1>1, <1>3, <2>2 DEF Ledger!Offer, Issues
  <2>4. QED
    BY <2>3 DEF Ledger!Next
<1>4. ASSUME NEW c \in Codes, Revokes(c) PROVE Ledger!Next
  <2>1. PICK row : row.issued /\ row.revoked /\ codes' = [codes EXCEPT ![c] = row]
    BY <1>4 DEF Revokes
  <2>2. c \in Offered /\ Withdrawn' = Withdrawn \union {c} /\ Offered' = Offered
    BY <1>0, <1>4, <2>1 DEF Revokes
  <2>3. Ledger!Withdraw(c)
    BY <1>1, <1>4, <2>2 DEF Ledger!Withdraw, Revokes
  <2>4. QED
    BY <2>3 DEF Ledger!Next
<1>5. ASSUME NEW c \in Codes, NEW r \in Requests, NEW o \in Orgs, Consumes(c, r, o)
      PROVE Ledger!Next
  <2>1. c \in Offered \ Withdrawn /\ Offered' = Offered /\ Withdrawn' = Withdrawn
    BY <1>0, <1>5 DEF Consumes, Usable, CodeRow
  <2>2. \A g \in grants : g[1] # c
    BY <1>5, FirstGrant DEF Consumes
  <2>3. CodeHolder[c] = None
    BY <2>2 DEF CodeHolder
  <2>4. \A d \in Codes : CodeHolder'[d] = IF d = c THEN o ELSE CodeHolder[d]
    <3> SUFFICES ASSUME NEW d \in Codes
                 PROVE CodeHolder'[d] = IF d = c THEN o ELSE CodeHolder[d]
      OBVIOUS
    <3>1. grants' = grants \union {<<c, r, o>>}
      BY <1>5 DEF Consumes
    <3>2. CASE d = c
      <4>1. <<c, r, o>> \in grants' /\ <<c, r, o>>[1] = c /\ <<c, r, o>>[3] = o
        BY <3>1
      <4>2. (CHOOSE h \in grants' : h[1] = c) = <<c, r, o>>
        BY <1>0, <4>1 DEF CodeConsumedOnce
      <4>3. QED
        BY <3>2, <4>1, <4>2 DEF CodeHolder
    <3>3. ASSUME d # c, NEW g \in grants, g[1] = d PROVE CodeHolder'[d] = CodeHolder[d]
      <4>1. CodeHolder[d] = g[3]
        BY <1>0, <3>3, HolderIs
      <4>2. (CHOOSE h \in grants' : h[1] = d) = g
        BY <1>0, <3>1, <3>3 DEF CodeConsumedOnce
      <4>3. QED
        BY <3>1, <3>3, <4>1, <4>2 DEF CodeHolder
    <3>4. CASE d # c /\ \A g \in grants : g[1] # d
      BY <3>1, <3>4 DEF CodeHolder
    <3>5. QED
      BY <3>2, <3>3, <3>4
  <2>5. CodeHolder' = [CodeHolder EXCEPT ![c] = o]
    BY <2>4 DEF CodeHolder
  <2>6. Ledger!Spend(c, o)
    BY <2>1, <2>3, <2>5 DEF Ledger!Spend
  <2>7. QED
    BY <2>6 DEF Ledger!Next
<1>6. QED
  BY <1>2, <1>3, <1>4, <1>5, CodeStep

\* Under every interleaving, crash and stale save the requests implement the
\* ledger of codes.
THEOREM ImplementsCodeLedger == Spec => CodeLedgerSpec
<1>1. Init => Ledger!Init
  BY LedgerInit
<1>2. /\ TypeInv /\ CodeInv /\ RevokedIsIssued /\ [Next]_vars
      /\ (TypeInv /\ CodeInv)'
      => [Ledger!Next]_Ledger!vars
  BY LedgerStep
<1>3. QED
  BY <1>1, <1>2, Invariance, RevokedIsIssuedInvariant, PTL
     DEF Spec, CodeLedgerSpec, Ledger!Spec

-----------------------------------------------------------------------------
(* Months are never credited twice *)

\* Within(t, b): a term that has an end ends at b or before.
Within(t, b) == t # Unlimited => t <= b

\* The bound holds of the rows, and of every copy of a row in a request that
\* may yet be saved; the entity of an open registration is bounded by the
\* months of its code, which COMMIT credits.
RowsWithin == \A o \in Orgs : Within(org[o].expires, ceiling[o])

Copying == {"redeemCheck", "consume", "upload", "reload", "update"}

CopyWithin(r) ==
  pc[r] \in Copying => Within(orgMem[r].expires, ceiling[task[r].org])

FoundingWithin(r) ==
  OpenTx(r) =>
    Within(orgMem[r].expires, now + codes[task[r].code].months)
    /\ (orgMem[r].expires # Unlimited => codes[task[r].code].months # Unlimited)

CopiesWithin == \A r \in Requests : CopyWithin(r) /\ FoundingWithin(r)

CreditInv == RowsWithin /\ CopiesWithin

\* Consuming a code raises the bound by its months, and lowers no other.
LEMMA CreditedRaises ==
  ASSUME TypeInv, CodeInv, NEW c \in Codes, NEW o \in Orgs, Usable(c)
  PROVE  LET d == codes[c].months
             raised == Credited(c, d, o)
         IN /\ \A p \in Orgs : raised[p] \in Nat /\ ceiling[p] <= raised[p]
            /\ d # Unlimited => /\ d \in Nat
                                /\ now + d <= raised[o]
                                /\ ceiling[o] + d <= raised[o]
<1> DEFINE d == codes[c].months
           raised == Credited(c, d, o)
<1>1. /\ d \in Durations /\ now \in Nat /\ ceiling \in [Orgs -> Nat]
      /\ \A p \in Orgs : ceiling[p] \in Nat
  BY DEF TypeInv, SharedInv, Usable
<1>2. ~\E g \in grants : g[1] = c
  BY DEF CodeInv, SpentIsDead, Usable
<1>3. CASE d = Unlimited
  BY <1>1, <1>3 DEF Credited
<1>4. CASE d # Unlimited
  <2>1. raised = [ceiling EXCEPT ![o] = Larger(ceiling[o], now) + d] /\ d \in Nat
    BY <1>1, <1>2, <1>4 DEF Credited
  <2>2. /\ Larger(ceiling[o], now) \in Nat
        /\ ceiling[o] <= Larger(ceiling[o], now) /\ now <= Larger(ceiling[o], now)
    BY <1>1 DEF Larger
  <2>3. raised[o] = Larger(ceiling[o], now) + d /\ \A p \in Orgs \ {o} : raised[p] = ceiling[p]
    BY <1>1, <2>1
  <2> HIDE DEF d, raised
  <2>4. /\ raised[o] \in Nat /\ ceiling[o] <= raised[o]
        /\ now + d <= raised[o] /\ ceiling[o] + d <= raised[o]
    BY <1>1, <2>1, <2>2, <2>3
  <2>5. \A p \in Orgs : raised[p] \in Nat /\ ceiling[p] <= raised[p]
    BY <1>1, <2>3, <2>4
  <2>6. QED
    BY <1>4, <2>1, <2>4, <2>5 DEF d, raised
<1>5. QED
  BY <1>3, <1>4

\* The bounds stand when they are raised.
LEMMA WithinGrows ==
  ASSUME NEW t \in Term, NEW b \in Nat, NEW b2 \in Nat, Within(t, b), b <= b2
  PROVE  Within(t, b2)
  BY DEF Within, Term

LEMMA InitCreditInv == Init => CreditInv
<1> SUFFICES ASSUME Init PROVE CreditInv
  OBVIOUS
<1>1. TypeInv
  BY InitTypeInv
<1>2. RowsWithin
  <2> SUFFICES ASSUME NEW o \in Orgs, org[o].expires # Unlimited
               PROVE org[o].expires <= ceiling[o]
    BY DEF RowsWithin, Within
  <2>1. org[o].expires \in Nat
    BY <1>1 DEF TypeInv, SharedInv, OrgRow, Term
  <2>2. ceiling[o] = org[o].expires
    BY DEF Init
  <2>3. QED
    BY <2>1, <2>2
<1>3. CopiesWithin
  BY DEF Init, CopiesWithin, CopyWithin, FoundingWithin, OpenTx, Copying
<1>4. QED
  BY <1>2, <1>3 DEF CreditInv

-----------------------------------------------------------------------------
(* The steps *)

\* The bounds, the clock and the worth of the issued codes only grow.
Grows ==
  /\ now' \in Nat /\ now <= now'
  /\ \A o \in Orgs : ceiling'[o] \in Nat /\ ceiling[o] <= ceiling'[o]
  /\ \A c \in Codes : codes[c].issued => codes'[c].months = codes[c].months

\* Request q has no entity that it did not have before.
Carries(q) ==
  /\ pc'[q] \in Copying => /\ pc[q] \in Copying /\ orgMem'[q] = orgMem[q]
                           /\ task'[q].org = task[q].org
  /\ OpenTx(q)' => /\ OpenTx(q) /\ orgMem'[q] = orgMem[q]
                   /\ task'[q].code = task[q].code

LEMMA CarriedWithin ==
  ASSUME TypeInv, CodeInv, CreditInv, Grows, NEW q \in Requests, Carries(q)
  PROVE  CopyWithin(q)' /\ FoundingWithin(q)'
<1>1. CopyWithin(q) /\ FoundingWithin(q) /\ RequestOK(q) /\ now \in Nat
  BY DEF CreditInv, CopiesWithin, TypeInv, LocalInv, SharedInv
<1>2. CopyWithin(q)'
  <2> SUFFICES ASSUME pc'[q] \in Copying, orgMem'[q].expires # Unlimited
               PROVE orgMem'[q].expires <= ceiling'[task'[q].org]
    BY DEF CopyWithin, Within
  <2>1. pc[q] \in Copying /\ orgMem'[q] = orgMem[q] /\ task'[q].org = task[q].org
    BY DEF Carries
  <2>2. task[q].org \in Orgs /\ orgMem[q] \in OrgRow
    BY <1>1, <2>1 DEF RequestOK, Copying, NamesOrg, HoldsOrg
  <2>3. orgMem[q].expires \in Nat
    BY <2>1, <2>2 DEF OrgRow, Term
  <2>4. orgMem[q].expires <= ceiling[task[q].org] /\ ceiling[task[q].org] \in Nat
    BY <1>1, <2>1, <2>2 DEF CopyWithin, Within, TypeInv, SharedInv
  <2>5. QED
    BY <2>1, <2>2, <2>3, <2>4 DEF Grows
<1>3. FoundingWithin(q)'
  <2> SUFFICES ASSUME OpenTx(q)', orgMem'[q].expires # Unlimited
               PROVE /\ orgMem'[q].expires <= now' + codes'[task'[q].code].months
                     /\ codes'[task'[q].code].months # Unlimited
    BY DEF FoundingWithin, Within
  <2>1. OpenTx(q) /\ orgMem'[q] = orgMem[q] /\ task'[q].code = task[q].code
    BY DEF Carries
  <2> DEFINE c == task[q].code
  <2>2. c \in Codes /\ orgMem[q] \in OrgRow
    BY <1>1, <2>1 DEF RequestOK, OpenTx, NamesCode, HoldsOrg
  <2>3. codes[c].issued /\ codes[c].months \in Durations
    BY <2>1, <2>2 DEF CodeInv, TxHoldsUsable, Usable, TypeInv, SharedInv
  <2>4. /\ orgMem[q].expires <= now + codes[c].months /\ codes[c].months \in Nat
        /\ codes[c].months # Unlimited
    BY <1>1, <2>1, <2>3 DEF FoundingWithin, Within
  <2>5. orgMem[q].expires \in Nat
    BY <2>1, <2>2 DEF OrgRow, Term
  <2>6. codes'[c].months = codes[c].months /\ now <= now' /\ now' \in Nat
    BY <2>2, <2>3 DEF Grows
  <2>7. QED
    BY <1>1, <2>1, <2>4, <2>5, <2>6
<1>4. QED
  BY <1>2, <1>3

\* When no row of an organisation changes, the rows stay within the bounds.
LEMMA SameRowsWithin ==
  ASSUME TypeInv, CreditInv, Grows, UNCHANGED org
  PROVE  RowsWithin'
<1> SUFFICES ASSUME NEW o \in Orgs, org[o].expires # Unlimited
             PROVE org[o].expires <= ceiling'[o]
  BY DEF RowsWithin, Within
<1>1. org[o].expires \in Nat /\ ceiling[o] \in Nat
  BY DEF TypeInv, SharedInv, OrgRow, Term
<1>2. org[o].expires <= ceiling[o]
  BY DEF CreditInv, RowsWithin, Within
<1>3. QED
  BY <1>1, <1>2 DEF Grows

\* Nothing that bounds a term changes.
LEMMA StillGrows ==
  ASSUME TypeInv, UNCHANGED <<now, ceiling, codes>>
  PROVE  Grows
  BY DEF TypeInv, SharedInv, Grows

\* A request that ends has no entity left.
LEMMA ReplyCarries ==
  ASSUME TypeInv, NEW r \in Requests, Reply(r)
  PROVE  \A q \in Requests : Carries(q)
  BY DEF TypeInv, LocalInv, Reply, GoTo, Carries, Copying, OpenTx

\* An end that is later than now moves on by d, any other becomes now + d.
LEMMA ExtendWithin ==
  ASSUME NEW t \in Term, NEW n \in Nat, NEW d \in Nat, NEW b \in Nat, NEW b2 \in Nat,
         Within(t, b), b + d <= b2, n + d <= b2
  PROVE  Extend(t, d, n) \in Nat /\ Within(Extend(t, d, n), b2)
  BY DEF Within, Extend, Term

\* A step after which every request carries what it had.
LEMMA QuietStep ==
  ASSUME TypeInv, CodeInv, CreditInv, Grows, UNCHANGED org,
         \A q \in Requests : Carries(q)
  PROVE  CreditInv'
  BY CarriedWithin, SameRowsWithin DEF CreditInv, CopiesWithin

\* A step in which only request r gets a new entity.
LEMMA EntityStep ==
  ASSUME TypeInv, CodeInv, CreditInv, Grows, UNCHANGED org, NEW r \in Requests,
         \A q \in Requests \ {r} : Carries(q),
         CopyWithin(r)', FoundingWithin(r)'
  PROVE  CreditInv'
  BY CarriedWithin, SameRowsWithin DEF CreditInv, CopiesWithin

\* Consuming a code does not change what any code is worth.
LEMMA ConsumedMonths ==
  ASSUME TypeInv, NEW c \in Codes, NEW o \in Orgs,
         codes' = [codes EXCEPT ![c].used = TRUE, ![c].usedBy = o]
  PROVE  \A e \in Codes : codes'[e].months = codes[e].months
<1> DEFINE row == [codes[c] EXCEPT !.used = TRUE, !.usedBy = o]
<1>1. codes \in [Codes -> CodeRow] /\ codes[c] \in CodeRow
  BY DEF TypeInv, SharedInv
<1>2. codes' = [codes EXCEPT ![c] = row]
  BY <1>1
<1>3. row.months = codes[c].months
  BY <1>1 DEF CodeRow
<1> HIDE DEF row
<1>4. QED
  BY <1>1, <1>2, <1>3

LEMMA StepCreditInv == TypeInv /\ CodeInv /\ CreditInv /\ [Next]_vars => CreditInv'
<1> SUFFICES ASSUME TypeInv, CodeInv, CreditInv, [Next]_vars
             PROVE CreditInv'
  OBVIOUS
<1>0. /\ LocalInv /\ SharedInv
      /\ pc \in [Requests -> PCs] /\ orgMem \in [Requests -> OrgRow \union {None}]
      /\ task \in [Requests -> Task \union {NoTask}]
      /\ now \in Nat /\ ceiling \in [Orgs -> Nat] /\ org \in [Orgs -> OrgRow]
  BY DEF TypeInv, LocalInv, SharedInv
<1>1. ASSUME NEW r \in Requests, Issue(r) PROVE CreditInv'
  <2>1. /\ pc' = [pc EXCEPT ![r] = "generate"] /\ UNCHANGED <<now, org, codes, orgMem, ceiling>>
        /\ \A q \in Requests \ {r} : task'[q] = task[q]
    BY <1>0, <1>1 DEF Issue, GoTo
  <2>2. \A q \in Requests : Carries(q)
    BY <1>0, <2>1 DEF Carries, Copying, OpenTx
  <2>3. QED
    BY <2>1, <2>2, StillGrows, QuietStep
<1>2. ASSUME NEW r \in Requests, IssueGenerate(r) PROVE CreditInv'
  <2>1. UNCHANGED <<now, org, codes, ceiling>>
    BY <1>2 DEF IssueGenerate
  <2>2. \A q \in Requests : Carries(q)
    <3>1. CASE Reply(r)
      BY <3>1, ReplyCarries
    <3>2. CASE ~Reply(r)
      <4>1. /\ pc' = [pc EXCEPT ![r] = "insertCode"] /\ UNCHANGED orgMem
            /\ \A q \in Requests \ {r} : task'[q] = task[q]
        BY <1>0, <1>2, <3>2 DEF IssueGenerate, GoTo
      <4>2. QED
        BY <1>0, <4>1 DEF Carries, Copying, OpenTx
    <3>3. QED
      BY <3>1, <3>2
  <2>3. QED
    BY <2>1, <2>2, StillGrows, QuietStep
<1>3. ASSUME NEW r \in Requests, IssueInsert(r) PROVE CreditInv'
  <2>1. /\ UNCHANGED <<now, org, ceiling>> /\ task[r].code \in Codes
        /\ \A c \in Codes : codes[c].issued => codes'[c] = codes[c]
    BY <1>0, <1>3 DEF IssueInsert, LocalInv, RequestOK, NamesCode, SharedInv
  <2>2. Grows
    BY <1>0, <2>1 DEF Grows
  <2>3. \A q \in Requests : Carries(q)
    <3>1. CASE Reply(r)
      BY <3>1, ReplyCarries
    <3>2. CASE ~Reply(r)
      <4>1. /\ pc' = [pc EXCEPT ![r] = "generate"] /\ UNCHANGED orgMem
            /\ \A q \in Requests \ {r} : task'[q] = task[q]
        BY <1>0, <1>3, <3>2 DEF IssueInsert, GoTo
      <4>2. QED
        BY <1>0, <4>1 DEF Carries, Copying, OpenTx
    <3>3. QED
      BY <3>1, <3>2
  <2>4. QED
    BY <2>1, <2>2, <2>3, QuietStep
<1>4. ASSUME NEW r \in Requests, NEW c \in Codes, Revoke(r, c) PROVE CreditInv'
  <2>1. /\ pc' = [pc EXCEPT ![r] = "revokeReload"] /\ UNCHANGED <<now, org, codes, orgMem, ceiling>>
        /\ \A q \in Requests \ {r} : task'[q] = task[q]
    BY <1>0, <1>4 DEF Revoke, GoTo
  <2>2. \A q \in Requests : Carries(q)
    BY <1>0, <2>1 DEF Carries, Copying, OpenTx
  <2>3. QED
    BY <2>1, <2>2, StillGrows, QuietStep
<1>5. ASSUME NEW r \in Requests, RevokeReload(r) PROVE CreditInv'
  <2>1. UNCHANGED <<now, org, codes, ceiling>>
    BY <1>5 DEF RevokeReload
  <2>2. CASE Reply(r)
    BY <2>1, <2>2, ReplyCarries, StillGrows, QuietStep
  <2>3. CASE ~Reply(r)
    <3>1. /\ pc' = [pc EXCEPT ![r] = "revokeUpdate"] /\ UNCHANGED <<task, orgMem>>
      BY <1>5, <2>3 DEF RevokeReload, GoTo
    <3>2. \A q \in Requests : Carries(q)
      BY <1>0, <3>1 DEF Carries, Copying, OpenTx
    <3>3. QED
      BY <2>1, <3>2, StillGrows, QuietStep
  <2>4. QED
    BY <2>2, <2>3
<1>6. ASSUME NEW r \in Requests, RevokeUpdate(r) PROVE CreditInv'
  <2>1. /\ Reply(r) /\ UNCHANGED <<now, org, ceiling>>
        /\ codes' = [codes EXCEPT ![task[r].code] =
                       CodeUpdated(codes[task[r].code], codeMem[r], dirty[r])]
    BY <1>6 DEF RevokeUpdate
  <2>2. \A c \in Codes : codes'[c].months = codes[c].months
    BY <1>0, <2>1 DEF SharedInv, CodeUpdated
  <2>3. Grows
    BY <1>0, <2>1, <2>2 DEF Grows
  <2>4. QED
    BY <2>1, <2>3, ReplyCarries, QuietStep
<1>7. ASSUME NEW r \in Requests, NEW o \in Orgs, NEW c \in Codes, Redeem(r, o, c)
      PROVE CreditInv'
  <2>1. /\ pc' = [pc EXCEPT ![r] = "redeemCheck"] /\ UNCHANGED <<now, org, codes, ceiling>>
        /\ orgMem' = [orgMem EXCEPT ![r] = org[o]]
        /\ task'[r].org = o
        /\ \A q \in Requests \ {r} : task'[q] = task[q]
    BY <1>0, <1>7 DEF Redeem, GoTo, NoTask
  <2>2. \A q \in Requests \ {r} : Carries(q)
    BY <1>0, <2>1 DEF Carries, OpenTx
  <2>3. CopyWithin(r)' /\ FoundingWithin(r)'
    BY <1>0, <2>1 DEF CreditInv, RowsWithin, CopyWithin, FoundingWithin, OpenTx
  <2>4. QED
    BY <2>1, <2>2, <2>3, StillGrows, EntityStep
<1>8. ASSUME NEW r \in Requests, RedeemCheck(r) PROVE CreditInv'
  <2>1. UNCHANGED <<now, org, codes, ceiling>>
    BY <1>8 DEF RedeemCheck
  <2>2. CASE Reply(r)
    BY <2>1, <2>2, ReplyCarries, StillGrows, QuietStep
  <2>3. CASE ~Reply(r)
    <3>1. /\ pc[r] = "redeemCheck" /\ pc' = [pc EXCEPT ![r] = "consume"]
          /\ UNCHANGED <<task, orgMem>>
      BY <1>8, <2>3 DEF RedeemCheck, GoTo
    <3>2. \A q \in Requests : Carries(q)
      BY <1>0, <3>1 DEF Carries, Copying, OpenTx
    <3>3. QED
      BY <2>1, <3>2, StillGrows, QuietStep
  <2>4. QED
    BY <2>2, <2>3
<1>9. ASSUME NEW r \in Requests, RedeemConsume(r) PROVE CreditInv'
  <2> DEFINE c == task[r].code
             o == task[r].org
             d == codes[c].months
  <2>1. CASE ~Usable(c)
    BY <1>9, <2>1, ReplyCarries, StillGrows, QuietStep DEF RedeemConsume
  <2>2. CASE Usable(c)
    <3>1. /\ pc[r] = "consume" /\ pc' = [pc EXCEPT ![r] = "reload"]
          /\ codes' = [codes EXCEPT ![c].used = TRUE, ![c].usedBy = o]
          /\ orgMem' = [orgMem EXCEPT ![r].expires = Renewed(orgMem[r].expires, d, now)]
          /\ ceiling' = Credited(c, d, o)
          /\ UNCHANGED <<now, org, task>>
      BY <1>9, <2>2 DEF RedeemConsume, GoTo
    <3>2. c \in Codes /\ o \in Orgs /\ orgMem[r] \in OrgRow /\ d \in Durations
      BY <1>0, <2>2, <3>1 DEF LocalInv, SharedInv, RequestOK, HoldsOrg, NamesOrg,
        NamesCode, Usable
    <3>3. \A e \in Codes : codes'[e].months = codes[e].months
      BY <3>1, <3>2, ConsumedMonths
    <3>4. Grows
      <4>1. \A p \in Orgs : ceiling'[p] \in Nat /\ ceiling[p] <= ceiling'[p]
        BY <2>2, <3>1, <3>2, CreditedRaises
      <4>2. now' = now
        BY <3>1
      <4>3. QED
        BY <1>0, <3>3, <4>1, <4>2 DEF Grows
    <3>5. \A q \in Requests \ {r} : Carries(q)
      BY <1>0, <3>1 DEF Carries, OpenTx
    <3>6. /\ orgMem'[r].expires = Renewed(orgMem[r].expires, d, now)
          /\ pc'[r] = "reload" /\ task'[r].org = o
      BY <1>0, <3>1, <3>2 DEF OrgRow
    <3>7. Within(orgMem[r].expires, ceiling[o]) /\ orgMem[r].expires \in Term
      BY <3>1, <3>2 DEF CreditInv, CopiesWithin, CopyWithin, Copying, OrgRow
    <3>8. Within(orgMem'[r].expires, ceiling'[o])
      <4>1. CASE d = Unlimited
        BY <3>6, <4>1 DEF Renewed, Within
      <4>2. CASE d # Unlimited
        <5>1. /\ d \in Nat /\ ceiling[o] \in Nat /\ ceiling'[o] \in Nat
              /\ now + d <= ceiling'[o] /\ ceiling[o] + d <= ceiling'[o]
          BY <1>0, <2>2, <3>1, <3>2, <4>2, CreditedRaises
        <5>2. orgMem'[r].expires = Extend(orgMem[r].expires, d, now)
          BY <3>6, <4>2 DEF Renewed
        <5> HIDE DEF d
        <5>3. QED
          BY <1>0, <3>7, <5>1, <5>2, ExtendWithin
      <4>3. QED
        BY <4>1, <4>2
    <3>9. CopyWithin(r)' /\ FoundingWithin(r)'
      BY <3>6, <3>8 DEF CopyWithin, FoundingWithin, OpenTx
    <3>10. QED
      BY <3>1, <3>4, <3>5, <3>9, EntityStep
  <2>3. QED
    BY <2>1, <2>2
<1>10. ASSUME NEW r \in Requests, NEW o \in Orgs, NEW name \in Names, NEW c \in Codes,
              Register(r, o, name, c)
       PROVE CreditInv'
  <2>1. /\ pc' = [pc EXCEPT ![r] = "name"] /\ UNCHANGED <<now, org, codes, orgMem, ceiling>>
        /\ \A q \in Requests \ {r} : task'[q] = task[q]
    BY <1>0, <1>10 DEF Register, GoTo
  <2>2. \A q \in Requests : Carries(q)
    BY <1>0, <2>1 DEF Carries, Copying, OpenTx
  <2>3. QED
    BY <2>1, <2>2, StillGrows, QuietStep
<1>11. ASSUME NEW r \in Requests,
              RegisterName(r) \/ RegisterCode(r) \/ RegisterInsert(r) \/ SaveOrgReload(r)
       PROVE CreditInv'
  <2>1. UNCHANGED <<now, org, codes, ceiling>>
    BY <1>11 DEF RegisterName, RegisterCode, RegisterInsert, SaveOrgReload
  <2>2. CASE Reply(r)
    BY <2>1, <2>2, ReplyCarries, StillGrows, QuietStep
  <2>3. CASE ~Reply(r)
    <3>1. /\ \/ pc[r] = "name" /\ pc' = [pc EXCEPT ![r] = "code"]
             \/ pc[r] = "code" /\ pc' = [pc EXCEPT ![r] = "tx"]
             \/ pc[r] = "insertOrg" /\ pc' = [pc EXCEPT ![r] = "commit"]
             \/ pc[r] = "reload" /\ pc' = [pc EXCEPT ![r] = "update"]
          /\ UNCHANGED <<task, orgMem>>
      BY <1>11, <2>3 DEF RegisterName, RegisterCode, RegisterInsert, SaveOrgReload, GoTo
    <3>2. \A q \in Requests : Carries(q)
      BY <1>0, <3>1 DEF Carries, Copying, OpenTx
    <3>3. QED
      BY <2>1, <3>2, StillGrows, QuietStep
  <2>4. QED
    BY <2>2, <2>3
<1>12. ASSUME NEW r \in Requests, RegisterConsume(r) PROVE CreditInv'
  <2> DEFINE c == task[r].code
             d == codes[c].months
             end == IF d = Unlimited THEN Unlimited ELSE now + d
  <2>1. CASE ~Usable(c)
    BY <1>12, <2>1, ReplyCarries, StillGrows, QuietStep DEF RegisterConsume
  <2>2. CASE Usable(c)
    <3>1. /\ pc[r] = "tx" /\ pc' = [pc EXCEPT ![r] = "insertOrg"]
          /\ orgMem' = [orgMem EXCEPT ![r] = NewOrg(task[r].name, end)]
          /\ UNCHANGED <<now, org, codes, ceiling, task>>
      BY <1>12, <2>2 DEF RegisterConsume, GoTo
    <3>2. \A q \in Requests \ {r} : Carries(q)
      BY <1>0, <3>1 DEF Carries, Copying, OpenTx
    <3>3. orgMem'[r].expires = end /\ pc'[r] = "insertOrg"
      BY <1>0, <3>1 DEF NewOrg, AbsentOrg
    <3>4. d # Unlimited => d \in Nat
      BY <1>0, <2>2, <3>1 DEF SharedInv, LocalInv, RequestOK, NamesCode, Usable
    <3>5. CopyWithin(r)' /\ FoundingWithin(r)'
      BY <1>0, <3>1, <3>3, <3>4 DEF CopyWithin, FoundingWithin, Copying, Within
    <3>6. QED
      BY <3>1, <3>2, <3>5, StillGrows, EntityStep
  <2>3. QED
    BY <2>1, <2>2
<1>13. ASSUME NEW r \in Requests, RegisterCommit(r) PROVE CreditInv'
  <2> DEFINE c == task[r].code
             o == task[r].org
             d == codes[c].months
  <2>1. /\ pc[r] = "commit" /\ Reply(r) /\ UNCHANGED now
        /\ org' = [org EXCEPT ![o] = orgMem[r]]
        /\ codes' = [codes EXCEPT ![c].used = TRUE, ![c].usedBy = o]
        /\ ceiling' = Credited(c, d, o)
    BY <1>13 DEF RegisterCommit
  <2>2. c \in Codes /\ o \in Orgs /\ orgMem[r] \in OrgRow
    BY <1>0, <2>1 DEF LocalInv, RequestOK, HoldsOrg, NamesOrg, NamesCode
  <2>3. Usable(c) /\ FoundingWithin(r) /\ OpenTx(r)
    BY <2>1 DEF CodeInv, TxHoldsUsable, OpenTx, CreditInv, CopiesWithin
  <2>4. \A e \in Codes : codes'[e].months = codes[e].months
    BY <2>1, <2>2, ConsumedMonths
  <2>5. Grows
    <3>1. \A p \in Orgs : ceiling'[p] \in Nat /\ ceiling[p] <= ceiling'[p]
      BY <2>1, <2>2, <2>3, CreditedRaises
    <3>2. now' = now
      BY <2>1
    <3>3. QED
      BY <1>0, <2>4, <3>1, <3>2 DEF Grows
  <2>6. Within(orgMem[r].expires, ceiling'[o])
    <3> SUFFICES ASSUME orgMem[r].expires # Unlimited PROVE orgMem[r].expires <= ceiling'[o]
      BY DEF Within
    <3>1. orgMem[r].expires \in Nat
      BY <2>2 DEF OrgRow, Term
    <3>2. orgMem[r].expires <= now + d /\ d # Unlimited
      BY <2>3 DEF FoundingWithin, Within
    <3>3. d \in Nat /\ ceiling'[o] \in Nat /\ now + d <= ceiling'[o]
      BY <2>1, <2>2, <2>3, <3>2, CreditedRaises
    <3> HIDE DEF d
    <3>4. QED
      BY <1>0, <3>1, <3>2, <3>3
  <2>7. \A p \in Orgs \ {o} : Within(org[p].expires, ceiling'[p])
    <3>1. \A p \in Orgs : org[p].expires \in Term /\ Within(org[p].expires, ceiling[p])
      BY <1>0 DEF OrgRow, CreditInv, RowsWithin
    <3>2. \A p \in Orgs : ceiling[p] \in Nat /\ ceiling'[p] \in Nat /\ ceiling[p] <= ceiling'[p]
      BY <1>0, <2>5 DEF Grows
    <3>3. QED
      BY <3>1, <3>2, WithinGrows
  <2>8. RowsWithin'
    BY <1>0, <2>1, <2>2, <2>6, <2>7 DEF RowsWithin
  <2>9. CopiesWithin'
    BY <2>1, <2>5, ReplyCarries, CarriedWithin DEF CopiesWithin
  <2>10. QED
    BY <2>8, <2>9 DEF CreditInv
<1>14. ASSUME NEW r \in Requests, NEW o \in Orgs, SetSubscription(r, o) PROVE CreditInv'
  <2>1. /\ pc' = [pc EXCEPT ![r] = "reload"] /\ UNCHANGED <<now, org, codes>>
        /\ task'[r].org = o
        /\ \A q \in Requests \ {r} : task'[q] = task[q]
    BY <1>0, <1>14 DEF SetSubscription, GoTo, NoTask
  <2> DEFINE Entered == /\ \A q \in Requests \ {r} : orgMem'[q] = orgMem[q]
                       /\ \A p \in Orgs : ceiling'[p] \in Nat /\ ceiling[p] <= ceiling'[p]
                       /\ Within(orgMem'[r].expires, ceiling'[o])
  <2>2. Entered
    <3>1. PICK plan \in {org[o].plan} \union Plans :
            LET loaded == [org[o] EXCEPT !.plan = plan] IN
            \/ /\ orgMem' = [orgMem EXCEPT ![r] = loaded]
               /\ UNCHANGED ceiling
            \/ /\ orgMem' = [orgMem EXCEPT ![r] = [loaded EXCEPT !.expires = Unlimited]]
               /\ UNCHANGED ceiling
            \/ \E d \in Durations \ {Unlimited} :
                 /\ orgMem' = [orgMem EXCEPT ![r] =
                                 [loaded EXCEPT !.expires = Extend(@, d, now)]]
                 /\ ceiling' = [ceiling EXCEPT ![o] = Larger(@, now) + d]
            \/ \E date \in SetDates :
                 /\ orgMem' = [orgMem EXCEPT ![r] = [loaded EXCEPT !.expires = date]]
                 /\ ceiling' = [ceiling EXCEPT ![o] = Larger(@, date)]
      BY <1>14 DEF SetSubscription
    <3> DEFINE loaded == [org[o] EXCEPT !.plan = plan]
    <3>2. /\ org[o] \in OrgRow /\ loaded.expires = org[o].expires
          /\ \A t : [loaded EXCEPT !.expires = t].expires = t
      BY <1>0 DEF OrgRow
    <3>3. /\ org[o].expires \in Term /\ Within(org[o].expires, ceiling[o])
          /\ \A p \in Orgs : ceiling[p] \in Nat
      BY <1>0, <3>2 DEF OrgRow, CreditInv, RowsWithin
    <3>4. CASE orgMem' = [orgMem EXCEPT ![r] = loaded] /\ UNCHANGED ceiling
      BY <1>0, <3>2, <3>3, <3>4
    <3>5. CASE /\ orgMem' = [orgMem EXCEPT ![r] = [loaded EXCEPT !.expires = Unlimited]]
               /\ UNCHANGED ceiling
      <4>1. orgMem'[r].expires = Unlimited
        BY <1>0, <3>2, <3>5
      <4>2. QED
        BY <1>0, <3>3, <3>5, <4>1 DEF Within
    <3>6. ASSUME NEW d \in Durations \ {Unlimited},
                 orgMem' = [orgMem EXCEPT ![r] =
                              [loaded EXCEPT !.expires = Extend(@, d, now)]],
                 ceiling' = [ceiling EXCEPT ![o] = Larger(@, now) + d]
          PROVE  Entered
      <4>1. orgMem'[r].expires = Extend(org[o].expires, d, now) /\ d \in Nat
        BY <1>0, <3>2, <3>6
      <4>2. /\ Larger(ceiling[o], now) \in Nat
            /\ ceiling[o] <= Larger(ceiling[o], now) /\ now <= Larger(ceiling[o], now)
        BY <1>0 DEF Larger
      <4>3. QED
        BY <1>0, <3>3, <3>6, <4>1, <4>2, ExtendWithin
    <3>7. ASSUME NEW date \in SetDates,
                 orgMem' = [orgMem EXCEPT ![r] = [loaded EXCEPT !.expires = date]],
                 ceiling' = [ceiling EXCEPT ![o] = Larger(@, date)]
          PROVE  Entered
      <4>1. orgMem'[r].expires = date /\ date \in Nat
        BY <1>0, <3>2, <3>7
      <4>2. /\ Larger(ceiling[o], date) \in Nat
            /\ ceiling[o] <= Larger(ceiling[o], date) /\ date <= Larger(ceiling[o], date)
        BY <3>3, <4>1 DEF Larger
      <4>3. QED
        BY <1>0, <3>3, <3>7, <4>1, <4>2 DEF Within
    <3>8. QED
      BY <3>1, <3>4, <3>5, <3>6, <3>7
  <2>3. Grows
    BY <1>0, <2>1, <2>2 DEF Grows
  <2>4. \A q \in Requests \ {r} : Carries(q)
    BY <1>0, <2>1, <2>2 DEF Carries, OpenTx
  <2>5. CopyWithin(r)' /\ FoundingWithin(r)'
    BY <1>0, <2>1, <2>2 DEF CopyWithin, FoundingWithin, OpenTx
  <2>6. QED
    BY <2>1, <2>3, <2>4, <2>5, EntityStep
<1>15. ASSUME NEW r \in Requests, NEW o \in Orgs, EditProfile(r, o) PROVE CreditInv'
  <2>1. /\ pc' = [pc EXCEPT ![r] = "loadOrg"]
        /\ UNCHANGED <<now, org, codes, orgMem, ceiling>>
        /\ \A q \in Requests \ {r} : task'[q] = task[q]
    BY <1>0, <1>15 DEF EditProfile, GoTo
  <2>2. \A q \in Requests : Carries(q)
    BY <1>0, <2>1 DEF Carries, Copying, OpenTx
  <2>3. QED
    BY <2>1, <2>2, StillGrows, QuietStep
<1>16. ASSUME NEW r \in Requests, LoadOrg(r) PROVE CreditInv'
  <2> DEFINE o == task[r].org
  <2>1. /\ pc[r] = "loadOrg" /\ UNCHANGED <<now, org, codes, ceiling, task>>
        /\ \A q \in Requests \ {r} : pc'[q] = pc[q] /\ orgMem'[q] = orgMem[q]
        /\ pc'[r] \in {"reload", "upload"}
    BY <1>0, <1>16 DEF LoadOrg, GoTo
  <2>2. o \in Orgs /\ org[o] \in OrgRow
    BY <1>0, <2>1 DEF LocalInv, RequestOK, NamesOrg
  <2>3. orgMem'[r].expires = org[o].expires
    <3>1. \A n : [org[o] EXCEPT !.name = n].expires = org[o].expires
      BY <2>2 DEF OrgRow
    <3>2. QED
      BY <1>0, <1>16, <3>1 DEF LoadOrg
  <2>4. CopyWithin(r)' /\ FoundingWithin(r)'
    BY <2>1, <2>2, <2>3 DEF CreditInv, RowsWithin, CopyWithin, FoundingWithin, OpenTx
  <2>5. \A q \in Requests \ {r} : Carries(q)
    BY <2>1 DEF Carries, OpenTx
  <2>6. QED
    BY <2>1, <2>4, <2>5, StillGrows, EntityStep
<1>17. ASSUME NEW r \in Requests, UploadLogo(r) PROVE CreditInv'
  <2>1. /\ pc[r] = "upload" /\ pc' = [pc EXCEPT ![r] = "reload"]
        /\ orgMem' = [orgMem EXCEPT ![r].logo = TRUE]
        /\ UNCHANGED <<now, org, codes, ceiling, task>>
    BY <1>17 DEF UploadLogo, GoTo
  <2>2. orgMem[r] \in OrgRow
    BY <1>0, <2>1 DEF LocalInv, RequestOK, HoldsOrg
  <2>3. orgMem'[r].expires = orgMem[r].expires
    BY <1>0, <2>1, <2>2 DEF OrgRow
  <2>4. CopyWithin(r)' /\ FoundingWithin(r)'
    BY <1>0, <2>1, <2>3 DEF CreditInv, CopiesWithin, CopyWithin, FoundingWithin,
      OpenTx, Copying
  <2>5. \A q \in Requests \ {r} : Carries(q)
    BY <1>0, <2>1 DEF Carries, OpenTx
  <2>6. QED
    BY <2>1, <2>4, <2>5, StillGrows, EntityStep
<1>18. ASSUME NEW r \in Requests, SaveOrgUpdate(r) PROVE CreditInv'
  <2> DEFINE o == task[r].org
             row == OrgUpdated(org[o], orgMem[r], dirty[r])
  <2>1. /\ pc[r] = "update" /\ Reply(r) /\ UNCHANGED <<now, codes, ceiling>>
        /\ org' = org \/ org' = [org EXCEPT ![o] = row]
    BY <1>18 DEF SaveOrgUpdate
  <2>2. o \in Orgs
    BY <1>0, <2>1 DEF LocalInv, RequestOK, HoldsOrg, NamesOrg
  <2>3. row.expires = org[o].expires \/ row.expires = orgMem[r].expires
    BY DEF OrgUpdated
  <2>4. Within(org[o].expires, ceiling[o]) /\ Within(orgMem[r].expires, ceiling[o])
    BY <2>1, <2>2 DEF CreditInv, RowsWithin, CopiesWithin, CopyWithin, Copying
  <2> HIDE DEF row
  <2>5. RowsWithin'
    BY <1>0, <2>1, <2>2, <2>3, <2>4 DEF CreditInv, RowsWithin, Within
  <2>6. CopiesWithin'
    BY <2>1, StillGrows, ReplyCarries, CarriedWithin DEF CopiesWithin
  <2>7. QED
    BY <2>5, <2>6 DEF CreditInv
<1>19. CASE Tick
  <2>1. Grows /\ UNCHANGED <<org, requestVars>>
    BY <1>0, <1>19 DEF Tick, Grows
  <2>2. QED
    BY <2>1, QuietStep DEF requestVars, Carries, OpenTx
<1>20. CASE Crash
  <2>1. UNCHANGED <<now, org, codes, ceiling>> /\ \A q \in Requests : pc'[q] \in {"new", "done"}
    BY <1>0, <1>20 DEF Crash, InFlight
  <2>2. QED
    BY <2>1, StillGrows, QuietStep DEF Carries, Copying, OpenTx
<1>21. CASE UNCHANGED vars
  BY <1>21, StillGrows, QuietStep DEF vars, requestVars, Carries, OpenTx
<1>22. QED
  BY <1>1, <1>2, <1>3, <1>4, <1>5, <1>6, <1>7, <1>8, <1>9, <1>10, <1>11, <1>12,
     <1>13, <1>14, <1>15, <1>16, <1>17, <1>18, <1>19, <1>20, <1>21
     DEF Next, Arrive, Serve, Quiet

\* A lost update may cost an organisation months but never give it any.
THEOREM NotOverCredited == Spec => []NeverOverCredited
<1>1. Init => CreditInv
  BY InitCreditInv
<1>2. TypeInv /\ CodeInv /\ CreditInv /\ [Next]_vars => CreditInv'
  BY StepCreditInv
<1>3. CreditInv => NeverOverCredited
  BY DEF CreditInv, RowsWithin, Within, NeverOverCredited
<1>4. QED
  BY <1>1, <1>2, <1>3, Invariance, PTL DEF Spec

-----------------------------------------------------------------------------
(* Requests that do not overlap *)

\* One request at a time and no restart: the premise of the documented
\* ledger.  Nothing else is assumed of the constants; the set of requests is
\* finite, as every history of a server is.
Serial == MaxInFlight <= 1 /\ MaxCrashes = 0 /\ IsFiniteSet(Requests)

Alone == \A q, r \in InFlight : q = r

\* What a request knows of the tables is still so: nobody else has written.
\* Its entity differs from the row only in what it is about to save, and that
\* is never both the name and the end; a registration that has found its slug,
\* its name and its code free finds them free at each later step.
Fresh(r) ==
  LET o == task[r].org
      c == task[r].code
  IN
  /\ pc[r] \in {"redeemCheck", "consume", "loadOrg", "upload", "reload", "update"}
       => org[o].exists
  /\ pc[r] \in {"redeemCheck", "consume", "upload"} => orgMem[r] = org[o]
  /\ pc[r] = "consume" => (org[o].expires = Unlimited => codes[c].months = Unlimited)
  /\ pc[r] \in {"reload", "update"}
       => orgMem[r].expires = org[o].expires \/ orgMem[r].name = org[o].name
  /\ pc[r] = "update" => dirty[r] = Differing(orgMem[r], org[o])
  /\ pc[r] \in {"name", "code", "tx", "insertOrg", "commit"} => ~org[o].exists
  /\ pc[r] \in {"code", "tx", "insertOrg", "commit"}
       => \A p \in Orgs : org[p].exists => org[p].name # task[r].name
  /\ pc[r] \in {"insertOrg", "commit"} => orgMem[r].exists
  /\ pc[r] \in HoldsCode
       => codes[c].issued /\ ~codes[c].used /\ codeMem[r] = [codes[c] EXCEPT !.revoked = TRUE]

\* No stale save has brought a spent code back, and a code is worth something
\* from the moment it is issued.
Kept ==
  /\ \A g \in grants : codes[g[1]].used
  /\ \A c \in Codes : ~codes[c].issued => codes[c].months = None /\ ~codes[c].revoked

SerialInv == Alone /\ Kept /\ \A r \in Requests : Fresh(r)

LEMMA FirstAlone ==
  ASSUME Serial, Cardinality(InFlight) < MaxInFlight
  PROVE  InFlight = {}
<1>1. IsFiniteSet(InFlight)
  BY FS_Subset DEF Serial, InFlight
<1>2. Cardinality(InFlight) = 0
  BY <1>1, FS_CardinalityType DEF Serial
<1>3. QED
  BY <1>1, <1>2, FS_EmptySet

\* The request that takes a step is the only one in flight.
LEMMA OthersIdle ==
  ASSUME Serial, TypeInv, Alone, NEW r \in Requests, Arrive(r) \/ Serve(r)
  PROVE  /\ \A q \in Requests \ {r} : pc[q] \in {"new", "done"} /\ pc'[q] = pc[q]
         /\ Alone'
<1>1. \E place : pc' = [pc EXCEPT ![r] = place]
  BY DEF Arrive, Serve, GoTo, Reply, Issue, Revoke, Redeem, Register, SetSubscription,
         EditProfile, IssueGenerate, IssueInsert, RevokeReload, RevokeUpdate,
         RedeemCheck, RedeemConsume, RegisterName, RegisterCode, RegisterConsume,
         RegisterInsert, RegisterCommit, LoadOrg, UploadLogo, SaveOrgReload, SaveOrgUpdate
<1>2. CASE Arrive(r)
  <2>1. InFlight = {}
    BY <1>2, FirstAlone DEF Arrive, CanStart, Issue, Revoke, Redeem, Register,
                            SetSubscription, EditProfile
  <2>2. QED
    BY <1>1, <2>1 DEF TypeInv, LocalInv, InFlight, Alone
<1>3. CASE Serve(r)
  <2>1. r \in InFlight
    BY <1>3 DEF Serve, InFlight, IssueGenerate, IssueInsert, RevokeReload, RevokeUpdate,
         RedeemCheck, RedeemConsume, RegisterName, RegisterCode, RegisterConsume,
         RegisterInsert, RegisterCommit, LoadOrg, UploadLogo, SaveOrgReload, SaveOrgUpdate
  <2>2. QED
    BY <1>1, <2>1 DEF TypeInv, LocalInv, InFlight, Alone
<1>4. QED
  BY <1>2, <1>3

\* A request that knows nothing of the tables has nothing to be fresh of.
LEMMA NothingToKnow ==
  ASSUME NEW r \in Requests, pc'[r] \in {"new", "done", "generate", "insertCode"}
  PROVE  Fresh(r)'
  BY DEF Fresh, HoldsCode

LEMMA InitSerialInv == Init => SerialInv
<1> SUFFICES ASSUME Init PROVE SerialInv
  OBVIOUS
<1>1. Alone
  BY DEF Init, Alone, InFlight
<1>2. Kept
  <2>1. PICK months \in [IssuedCodes -> Durations] :
          codes = [c \in Codes |-> IF c \in IssuedCodes THEN NewCode(months[c])
                                   ELSE AbsentCode]
    BY DEF Init
  <2>2. \A c \in IssuedCodes : NewCode(months[c]).issued
    BY DEF NewCode, AbsentCode
  <2>3. AbsentCode.months = None /\ ~AbsentCode.revoked
    BY DEF AbsentCode
  <2>4. grants = {}
    BY DEF Init
  <2>5. QED
    BY <2>1, <2>2, <2>3, <2>4 DEF Kept
<1>3. \A r \in Requests : Fresh(r)
  BY DEF Init, Fresh, HoldsCode
<1>4. QED
  BY <1>1, <1>2, <1>3 DEF SerialInv

\* What setSubscription has in memory: perhaps another end, never another name.
LEMMA SetSubscriptionEntity ==
  ASSUME TypeInv, NEW r \in Requests, NEW o \in Orgs, SetSubscription(r, o)
  PROVE  /\ orgMem'[r].name = org[o].name
         /\ \/ orgMem'[r].expires = org[o].expires
            \/ orgMem'[r].expires = Unlimited
            \/ \E d \in Durations \ {Unlimited} :
                 orgMem'[r].expires = Extend(org[o].expires, d, now)
            \/ \E date \in SetDates : orgMem'[r].expires = date
<1>1. PICK plan \in {org[o].plan} \union Plans :
        \/ orgMem' = [orgMem EXCEPT ![r] = [org[o] EXCEPT !.plan = plan]]
        \/ orgMem' = [orgMem EXCEPT ![r] = [[org[o] EXCEPT !.plan = plan]
                                             EXCEPT !.expires = Unlimited]]
        \/ \E d \in Durations \ {Unlimited} :
             orgMem' = [orgMem EXCEPT ![r] = [[org[o] EXCEPT !.plan = plan]
               EXCEPT !.expires = Extend([org[o] EXCEPT !.plan = plan].expires, d, now)]]
        \/ \E date \in SetDates :
             orgMem' = [orgMem EXCEPT ![r] = [[org[o] EXCEPT !.plan = plan]
                                                  EXCEPT !.expires = date]]
  BY DEF SetSubscription
<1> DEFINE loaded == [org[o] EXCEPT !.plan = plan]
<1>2. org[o] \in OrgRow
  BY DEF TypeInv, SharedInv
<1>3. loaded.name = org[o].name /\ loaded.expires = org[o].expires
  BY <1>2 DEF OrgRow
<1>4. \A end : /\ [loaded EXCEPT !.expires = end].name = org[o].name
               /\ [loaded EXCEPT !.expires = end].expires = end
  BY <1>2 DEF OrgRow
<1> HIDE DEF loaded
<1>5. \/ orgMem'[r] = loaded
      \/ orgMem'[r] = [loaded EXCEPT !.expires = Unlimited]
      \/ \E d \in Durations \ {Unlimited} :
           orgMem'[r] = [loaded EXCEPT !.expires = Extend(org[o].expires, d, now)]
      \/ \E date \in SetDates : orgMem'[r] = [loaded EXCEPT !.expires = date]
  BY <1>1, <1>3 DEF TypeInv, LocalInv, loaded
<1>6. QED
  BY <1>3, <1>4, <1>5

\* The rows stay as the request knows them, and it learns no more than that.
LEMMA StepFresh ==
  ASSUME Serial, TypeInv, CodeInv, SerialInv, NEW r \in Requests, Arrive(r) \/ Serve(r)
  PROVE  Fresh(r)' /\ Kept'
<1> Fresh(r) /\ Kept /\ LocalInv /\ SharedInv /\ RequestOK(r)
  BY DEF SerialInv, TypeInv, LocalInv
<1> USE DEF GoTo, CanStart, HoldsCode, HoldsOrg, NamesOrg, NamesCode
<1>0. UNCHANGED <<codes, grants>> => Kept'
  BY DEF Kept
<1>1. CASE Reply(r) /\ UNCHANGED <<codes, grants>>
  <2>1. pc'[r] = "done"
    BY <1>1 DEF Reply, LocalInv
  <2>2. QED
    BY <1>0, <1>1, <2>1, NothingToKnow
<1>2. CASE Issue(r) \/ IssueGenerate(r)
  <2>1. pc'[r] \in {"generate", "insertCode", "done"}
    BY <1>2 DEF Issue, IssueGenerate, Reply, LocalInv
  <2>2. UNCHANGED <<codes, grants>>
    BY <1>2 DEF Issue, IssueGenerate
  <2>3. QED
    BY <1>0, <2>1, <2>2, NothingToKnow
<1>3. CASE IssueInsert(r)
  <2>1. pc'[r] \in {"generate", "done"}
    BY <1>3 DEF IssueInsert, Reply, LocalInv
  <2>2. Kept'
    <3> DEFINE c == task[r].code
    <3>1. CASE codes[c].issued
      BY <1>0, <1>3, <3>1 DEF IssueInsert
    <3>2. CASE ~codes[c].issued
      <4>1. codes' = [codes EXCEPT ![c] = NewCode(task[r].months)] /\ UNCHANGED grants
        BY <1>3, <3>2 DEF IssueInsert
      <4>2. NewCode(task[r].months).issued
        BY DEF NewCode, AbsentCode
      <4>3. \A g \in grants : g[1] # c
        BY <3>2 DEF CodeInv, SpentIsDead
      <4>4. QED
        BY <4>1, <4>2, <4>3 DEF Kept, SharedInv
    <3>3. QED
      BY <3>1, <3>2
  <2>3. QED
    BY <2>1, <2>2, NothingToKnow
<1>4. ASSUME NEW c \in Codes, Revoke(r, c) PROVE Fresh(r)' /\ Kept'
  <2>1. /\ pc'[r] = "revokeReload" /\ task'[r].code = c
        /\ codeMem'[r] = [codes[c] EXCEPT !.revoked = TRUE]
    BY <1>4 DEF Revoke, LocalInv, NoTask
  <2>2. QED
    BY <1>0, <1>4, <2>1 DEF Revoke, Fresh
<1>5. CASE RevokeReload(r)
  <2>1. CASE pc'[r] = "revokeUpdate" /\ UNCHANGED <<task, codeMem>>
    BY <1>0, <1>5, <2>1 DEF RevokeReload, Fresh
  <2>2. QED
    BY <1>1, <1>5, <2>1 DEF RevokeReload, LocalInv
<1>6. CASE RevokeUpdate(r)
  <2> DEFINE c == task[r].code
             row == CodeUpdated(codes[c], codeMem[r], dirty[r])
  <2>1. codes' = [codes EXCEPT ![c] = row] /\ UNCHANGED grants /\ Reply(r)
    BY <1>6 DEF RevokeUpdate
  <2>2. codeMem[r] = [codes[c] EXCEPT !.revoked = TRUE] /\ c \in Codes /\ codes[c].issued
    BY <1>6 DEF RevokeUpdate, Fresh, RequestOK
  <2>3. row.used = codes[c].used /\ row.issued = codes[c].issued /\ row.months = codes[c].months
    BY <2>2 DEF CodeUpdated, SharedInv, CodeRow
  <2>4. Kept'
    BY <2>1, <2>2, <2>3 DEF Kept, SharedInv
  <2>5. QED
    BY <2>1, <2>4, NothingToKnow DEF Reply, LocalInv
<1>7. ASSUME NEW o \in Orgs, NEW c \in Codes, Redeem(r, o, c) PROVE Fresh(r)' /\ Kept'
  <2>1. pc'[r] = "redeemCheck" /\ task'[r].org = o /\ orgMem'[r] = org[o]
    BY <1>7 DEF Redeem, LocalInv, NoTask
  <2>2. QED
    BY <1>0, <1>7, <2>1 DEF Redeem, Fresh
<1>8. CASE RedeemCheck(r)
  <2>1. CASE Reply(r)
    BY <1>1, <1>8, <2>1 DEF RedeemCheck
  <2>2. CASE ~Reply(r)
    BY <1>0, <1>8, <2>2 DEF RedeemCheck, Fresh, LocalInv
  <2>3. QED
    BY <2>1, <2>2
<1>9. CASE RedeemConsume(r)
  <2> DEFINE c == task[r].code
             o == task[r].org
  <2>1. CASE Usable(c)
    <3>1. c \in Codes /\ o \in Orgs /\ orgMem[r] = org[o] /\ org[o].exists
      BY <1>9 DEF RedeemConsume, Fresh, RequestOK
    <3>2. /\ pc'[r] = "reload" /\ task' = task
          /\ orgMem'[r] = [orgMem[r] EXCEPT
                             !.expires = Renewed(orgMem[r].expires, codes[c].months, now)]
          /\ org' = org
      BY <1>9, <2>1 DEF RedeemConsume, LocalInv
    <3>3. orgMem'[r].name = org[o].name
      BY <3>1, <3>2 DEF SharedInv, OrgRow
    <3>4. Fresh(r)'
      BY <3>1, <3>2, <3>3 DEF Fresh
    <3>5. /\ grants' = grants \union {<<c, r, o>>}
          /\ codes' = [codes EXCEPT ![c] = [codes[c] EXCEPT !.used = TRUE, !.usedBy = o]]
      BY <1>9, <2>1, <3>1 DEF RedeemConsume, SharedInv
    <3>6. Kept'
      BY <3>1, <3>5, <2>1 DEF Kept, SharedInv, CodeRow, Usable
    <3>7. QED
      BY <3>4, <3>6
  <2>2. CASE ~Usable(c)
    BY <1>1, <1>9, <2>2 DEF RedeemConsume
  <2>3. QED
    BY <2>1, <2>2
<1>10. ASSUME NEW o \in Orgs, NEW c \in Codes, NEW name \in Names, Register(r, o, name, c)
       PROVE Fresh(r)' /\ Kept'
  <2>1. pc'[r] = "name" /\ task'[r].org = o
    BY <1>10 DEF Register, LocalInv, NoTask
  <2>2. QED
    BY <1>0, <1>10, <2>1 DEF Register, Fresh
<1>11. CASE RegisterName(r)
  <2>1. CASE Reply(r)
    BY <1>1, <1>11, <2>1 DEF RegisterName
  <2>2. CASE ~Reply(r)
    BY <1>0, <1>11, <2>2 DEF RegisterName, Fresh, LocalInv
  <2>3. QED
    BY <2>1, <2>2
<1>12. CASE RegisterCode(r)
  <2>1. CASE Reply(r)
    BY <1>1, <1>12, <2>1 DEF RegisterCode
  <2>2. CASE ~Reply(r)
    BY <1>0, <1>12, <2>2 DEF RegisterCode, Fresh, LocalInv
  <2>3. QED
    BY <2>1, <2>2
<1>13. CASE RegisterConsume(r)
  <2>1. CASE Usable(task[r].code)
    <3>0. \A name, t : NewOrg(name, t).exists
      BY DEF NewOrg, AbsentOrg
    <3>1. pc'[r] = "insertOrg" /\ UNCHANGED <<task, org, codes, grants>> /\ orgMem'[r].exists
      BY <1>13, <2>1, <3>0 DEF RegisterConsume, LocalInv
    <3>2. QED
      BY <1>0, <1>13, <3>1 DEF RegisterConsume, Fresh
  <2>2. CASE ~Usable(task[r].code)
    BY <1>1, <1>13, <2>2 DEF RegisterConsume
  <2>3. QED
    BY <2>1, <2>2
<1>14. CASE RegisterInsert(r)
  <2>1. CASE Reply(r)
    BY <1>1, <1>14, <2>1 DEF RegisterInsert
  <2>2. CASE ~Reply(r)
    BY <1>0, <1>14, <2>2 DEF RegisterInsert, Fresh, LocalInv
  <2>3. QED
    BY <2>1, <2>2
<1>15. CASE RegisterCommit(r)
  <2> DEFINE c == task[r].code
             o == task[r].org
  <2>1. c \in Codes /\ Usable(c) /\ pc'[r] = "done"
    BY <1>15 DEF RegisterCommit, RequestOK, Reply, LocalInv, CodeInv, TxHoldsUsable, OpenTx
  <2>2. /\ grants' = grants \union {<<c, r, o>>}
        /\ codes' = [codes EXCEPT ![c] = [codes[c] EXCEPT !.used = TRUE, !.usedBy = o]]
    BY <1>15, <2>1 DEF RegisterCommit, SharedInv
  <2>3. Kept'
    BY <2>1, <2>2 DEF Kept, SharedInv, CodeRow, Usable
  <2>4. QED
    BY <2>1, <2>3, NothingToKnow
<1>16. ASSUME NEW o \in Orgs, SetSubscription(r, o) PROVE Fresh(r)' /\ Kept'
  <2>1. pc'[r] = "reload" /\ task'[r].org = o /\ UNCHANGED <<org, codes, grants>> /\ org[o].exists
    BY <1>16 DEF SetSubscription, LocalInv, NoTask
  <2>2. orgMem'[r].name = org[o].name
    BY <1>16, SetSubscriptionEntity
  <2>3. QED
    BY <1>0, <2>1, <2>2 DEF Fresh
<1>17. ASSUME NEW o \in Orgs, EditProfile(r, o) PROVE Fresh(r)' /\ Kept'
  <2>1. pc'[r] = "loadOrg" /\ task'[r].org = o
    <3>1. \A name : /\ [NoTask EXCEPT !.op = "rename", !.org = o, !.name = name].org = o
                    /\ [NoTask EXCEPT !.op = "logo", !.org = o].org = o
      BY DEF NoTask
    <3>2. \E t : t.org = o /\ task' = [task EXCEPT ![r] = t]
      BY <1>17, <3>1 DEF EditProfile
    <3>3. QED
      BY <1>17, <3>2 DEF EditProfile, LocalInv
  <2>2. QED
    BY <1>0, <1>17, <2>1 DEF EditProfile, Fresh
<1>18. CASE LoadOrg(r)
  <2>1. /\ pc'[r] \in {"reload", "upload"} /\ UNCHANGED <<task, org, codes, grants>>
        /\ org[task[r].org].exists
    BY <1>18 DEF LoadOrg, LocalInv, Fresh
  <2>2. orgMem'[r].expires = org[task[r].org].expires
    BY <1>18 DEF LoadOrg, LocalInv, SharedInv, OrgRow, RequestOK
  <2>3. pc'[r] = "upload" => orgMem'[r] = org[task[r].org]
    BY <1>18 DEF LoadOrg, LocalInv
  <2>4. QED
    BY <1>0, <2>1, <2>2, <2>3 DEF Fresh
<1>19. CASE UploadLogo(r)
  <2>1. pc'[r] = "reload" /\ UNCHANGED <<task, org, codes, grants>> /\ org[task[r].org].exists
    BY <1>19 DEF UploadLogo, LocalInv, Fresh
  <2>2. orgMem'[r].expires = orgMem[r].expires /\ orgMem[r] = org[task[r].org]
    BY <1>19 DEF UploadLogo, LocalInv, OrgRow, RequestOK, Fresh
  <2>3. QED
    BY <1>0, <2>1, <2>2 DEF Fresh
<1>20. CASE SaveOrgReload(r)
  <2>1. CASE Reply(r)
    BY <1>1, <1>20, <2>1 DEF SaveOrgReload
  <2>2. CASE ~Reply(r)
    <3>1. /\ pc'[r] = "update" /\ UNCHANGED <<task, org, orgMem, codes, grants>>
          /\ dirty'[r] = Differing(orgMem[r], org[task[r].org])
      BY <1>20, <2>2 DEF SaveOrgReload, LocalInv
    <3>2. QED
      BY <1>0, <1>20, <3>1 DEF SaveOrgReload, Fresh, Differing
  <2>3. QED
    BY <2>1, <2>2
<1>21. CASE SaveOrgUpdate(r)
  BY <1>1, <1>21 DEF SaveOrgUpdate
<1>22. QED
  BY <1>2, <1>3, <1>4, <1>5, <1>6, <1>7, <1>8, <1>9, <1>10, <1>11, <1>12, <1>13,
     <1>14, <1>15, <1>16, <1>17, <1>18, <1>19, <1>20, <1>21 DEF Arrive, Serve

LEMMA StepSerialInv ==
  ASSUME Serial, TypeInv, CodeInv, SerialInv, [Next]_vars
  PROVE  SerialInv'
<1>1. ASSUME NEW r \in Requests, Arrive(r) \/ Serve(r) PROVE SerialInv'
  <2>1. Fresh(r)' /\ Kept'
    BY <1>1, StepFresh
  <2>2. /\ \A q \in Requests \ {r} : pc'[q] \in {"new", "done"}
        /\ Alone'
    BY <1>1, OthersIdle DEF SerialInv
  <2>3. QED
    BY <2>1, <2>2, NothingToKnow DEF SerialInv
<1>2. CASE Tick \/ UNCHANGED vars
  BY <1>2 DEF Tick, vars, requestVars, SerialInv, Alone, InFlight, Kept, Fresh, Differing
<1>3. ~Crash
  BY DEF Serial, Crash, TypeInv, SharedInv
<1>4. QED
  BY <1>1, <1>2, <1>3 DEF Next, Quiet

LEMMA SerialInvariance ==
  ASSUME Serial
  PROVE  Spec => []SerialInv
<1>1. Init => SerialInv
  BY InitSerialInv
<1>2. TypeInv /\ CodeInv /\ SerialInv /\ [Next]_vars => SerialInv'
  BY StepSerialInv
<1>3. QED
  BY <1>1, <1>2, Invariance, PTL DEF Spec

-----------------------------------------------------------------------------
(* The documented ledger *)

\* What the ledger shows while r is the only request: the rows, but for the
\* organisation r is about to save or found and the code its transaction holds.
Writing(r) == pc[r] \in {"insertOrg", "commit", "reload", "update"}

RowTerm(o) == IF org[o].exists THEN org[o].expires ELSE None

SeenTerms(r) ==
  [o \in Orgs |-> IF Writing(r) /\ task[r].org = o THEN orgMem[r].expires
                  ELSE RowTerm(o)]

SeenSpent(r) ==
  {g[1] : g \in grants} \union (IF OpenTx(r) THEN {task[r].code} ELSE {})

SeenByOne ==
  \A r \in Requests :
    (\A q \in Requests \ {r} : pc[q] \in {"new", "done"})
      => Terms = SeenTerms(r) /\ Spent = SeenSpent(r)

LEMMA SeenByOneHolds == SeenByOne
<1> SUFFICES ASSUME NEW r \in Requests,
                    \A q \in Requests \ {r} : pc[q] \in {"new", "done"}
             PROVE  Terms = SeenTerms(r) /\ Spent = SeenSpent(r)
  BY DEF SeenByOne
<1>1. \A o \in Orgs : Founding(o) \union Saving(o) =
                        IF Writing(r) /\ task[r].org = o THEN {r} ELSE {}
  BY DEF Founding, Saving, Writing
<1>2. (CHOOSE q \in {r} : TRUE) = r
  OBVIOUS
<1>3. Terms = SeenTerms(r)
  BY <1>1, <1>2 DEF Terms, SeenTerms, RowTerm
<1>4. {task[q].code : q \in {p \in Requests : pc[p] \in {"insertOrg", "commit"}}}
        = IF OpenTx(r) THEN {task[r].code} ELSE {}
  BY DEF OpenTx
<1>5. QED
  BY <1>3, <1>4 DEF Spent, SeenSpent

LEMMA Seen ==
  ASSUME Serial, TypeInv, Alone, NEW r \in Requests, Arrive(r) \/ Serve(r)
  PROVE  /\ Terms = SeenTerms(r) /\ Terms' = SeenTerms(r)'
         /\ Spent = SeenSpent(r) /\ Spent' = SeenSpent(r)'
<1>1. SeenByOne'
  BY SeenByOneHolds, PTL
<1>2. /\ \A q \in Requests \ {r} : pc[q] \in {"new", "done"}
      /\ \A q \in Requests \ {r} : pc'[q] \in {"new", "done"}
  BY OthersIdle
<1>3. Terms' = SeenTerms(r)' /\ Spent' = SeenSpent(r)'
  BY <1>1, <1>2 DEF SeenByOne
<1>4. QED
  BY <1>2, <1>3, SeenByOneHolds DEF SeenByOne

\* extendSubscription and the documentation add months alike.
LEMMA PlusIsRenewed ==
  ASSUME NEW end \in Term, NEW d \in Durations \union {Unlimited}, now \in Nat
  PROVE  Promise!Plus(end, d) = Renewed(end, d, now)
<1>1. CASE d = Unlimited
  BY <1>1 DEF Promise!Plus, Renewed
<1>2. CASE d # Unlimited /\ end = Unlimited
  BY <1>2 DEF Promise!Plus, Renewed, Extend
<1>3. CASE d # Unlimited /\ end # Unlimited
  <2>1. d \in Nat /\ end \in Nat
    BY <1>3 DEF Term
  <2>2. Promise!Plus(end, d) = (IF end < now THEN now ELSE end) + d
    BY <1>3 DEF Promise!Plus
  <2>3. QED
    BY <1>3, <2>1, <2>2 DEF Renewed, Extend
<1>4. QED
  BY <1>1, <1>2, <1>3

LEMMA PromiseInit == Init => Promise!Init
<1> SUFFICES ASSUME Init PROVE Promise!Init
  OBVIOUS
<1>0. TypeInv /\ pc = [r \in Requests |-> "new"] /\ grants = {} /\ now = 0
  BY InitTypeInv DEF Init
<1>1. [c \in Codes |-> codes[c].months] \in [Codes -> Durations \union {None}]
  BY <1>0 DEF TypeInv, SharedInv, CodeRow
<1>2. {c \in Codes : codes[c].revoked} = {}
  BY InitNotRevoked
<1>3. Spent = {}
  BY <1>0 DEF Spent
<1>4. Terms = [o \in Orgs |-> RowTerm(o)]
  <2>1. \A o \in Orgs : Founding(o) \union Saving(o) = {}
    BY <1>0 DEF Founding, Saving
  <2>2. QED
    BY <2>1 DEF Terms, RowTerm
<1>5. \A o \in Orgs : Terms[o] \in Nat \union {Unlimited, None}
  BY <1>0, <1>4 DEF RowTerm, TypeInv, SharedInv, OrgRow, Term
<1>6. QED
  BY <1>0, <1>1, <1>2, <1>3, <1>5 DEF Promise!Init

\* A step that writes neither table and has no new end in memory is not seen.
LEMMA NotSeen ==
  ASSUME NEW r \in Requests,
         Terms = SeenTerms(r), Terms' = SeenTerms(r)',
         Spent = SeenSpent(r), Spent' = SeenSpent(r)',
         UNCHANGED <<now, org, codes, grants>>,
         \/ ~Writing(r) /\ ~Writing(r)'
         \/ Writing(r) /\ Writing(r)' /\ UNCHANGED <<task, orgMem>> /\ (OpenTx(r)' <=> OpenTx(r))
  PROVE  UNCHANGED Promise!vars
<1>1. SeenTerms(r)' = SeenTerms(r)
  BY DEF SeenTerms, RowTerm, Writing
<1>2. SeenSpent(r)' = SeenSpent(r)
  BY DEF SeenSpent, OpenTx, Writing
<1>3. QED
  BY <1>1, <1>2 DEF Promise!vars

LEMMA OneMoreGrant ==
  ASSUME NEW c, NEW r, NEW o
  PROVE  {g[1] : g \in grants \union {<<c, r, o>>}} = {g[1] : g \in grants} \union {c}
<1>1. <<c, r, o>>[1] = c
  OBVIOUS
<1>2. QED
  BY <1>1

LEMMA PromiseStep ==
  ASSUME Serial, TypeInv, CodeInv, SerialInv, NEW r \in Requests, Arrive(r) \/ Serve(r)
  PROVE  Promise!Next \/ UNCHANGED Promise!vars
<1> DEFINE o == task[r].org
           c == task[r].code
           worth == [d \in Codes |-> codes[d].months]
           withdrawn == {d \in Codes : codes[d].revoked}
<1> Fresh(r) /\ Kept /\ Alone /\ LocalInv /\ SharedInv /\ RequestOK(r)
  BY DEF SerialInv, TypeInv, LocalInv
<1>0. /\ Terms = SeenTerms(r) /\ Terms' = SeenTerms(r)'
      /\ Spent = SeenSpent(r) /\ Spent' = SeenSpent(r)'
  BY Seen
<1> USE DEF GoTo, CanStart
<1>1. ASSUME UNCHANGED <<now, org, codes, grants>>, ~Writing(r), ~Writing(r)'
      PROVE  UNCHANGED Promise!vars
  BY <1>0, <1>1, NotSeen
<1>2. ASSUME UNCHANGED <<now, org, codes, grants>>, ~Writing(r), Reply(r)
      PROVE  UNCHANGED Promise!vars
  BY <1>1, <1>2 DEF Reply, Writing, LocalInv
<1>3. CASE \/ Issue(r) \/ IssueGenerate(r)
           \/ \E d \in Codes : Revoke(r, d)
           \/ RevokeReload(r)
           \/ \E p \in Orgs, d \in Codes : Redeem(r, p, d)
           \/ RedeemCheck(r)
           \/ \E p \in Orgs, d \in Codes, name \in Names : Register(r, p, name, d)
           \/ RegisterName(r) \/ RegisterCode(r)
           \/ \E p \in Orgs : EditProfile(r, p)
  <2>1. UNCHANGED <<now, org, codes, grants>> /\ ~Writing(r)
    BY <1>3 DEF Issue, IssueGenerate, Revoke, RevokeReload, Redeem, RedeemCheck,
                Register, RegisterName, RegisterCode, EditProfile, Writing
  <2>2. Reply(r) \/ ~Writing(r)'
    BY <1>3 DEF Issue, IssueGenerate, Revoke, RevokeReload, Redeem, RedeemCheck,
                Register, RegisterName, RegisterCode, EditProfile, Writing, LocalInv
  <2>3. QED
    BY <1>1, <1>2, <2>1, <2>2
<1>4. CASE IssueInsert(r)
  <2>1. ~Writing(r) /\ ~Writing(r)' /\ ~OpenTx(r) /\ ~OpenTx(r)'
    BY <1>4 DEF IssueInsert, Writing, OpenTx, Reply, LocalInv
  <2>2. CASE codes[c].issued
    BY <1>1, <1>4, <2>1, <2>2 DEF IssueInsert
  <2>3. CASE ~codes[c].issued
    <3>1. /\ codes' = [codes EXCEPT ![c] = NewCode(task[r].months)]
          /\ UNCHANGED <<now, org, grants>>
      BY <1>4, <2>3 DEF IssueInsert
    <3>2. c \in Codes /\ task[r].months \in Durations
      BY <1>4 DEF IssueInsert, RequestOK, NamesCode
    <3>3. /\ NewCode(task[r].months).months = task[r].months
          /\ ~NewCode(task[r].months).revoked
      BY DEF NewCode, AbsentCode
    <3>4. worth[c] = None /\ worth' = [worth EXCEPT ![c] = task[r].months]
      BY <2>3, <3>1, <3>2, <3>3 DEF Kept, SharedInv
    <3>5. withdrawn' = withdrawn
      BY <2>3, <3>1, <3>2, <3>3 DEF Kept, SharedInv
    <3>6. UNCHANGED <<Terms, Spent>>
      BY <1>0, <2>1, <3>1 DEF SeenTerms, SeenSpent, RowTerm
    <3>7. PICK d \in Codes, m \in Durations : d = c /\ m = task[r].months
      BY <3>2
    <3>8. Promise!Offer(d, m)
      BY <3>1, <3>4, <3>5, <3>6, <3>7 DEF Promise!Offer
    <3>9. QED
      BY <3>8 DEF Promise!Next
  <2>4. QED
    BY <2>2, <2>3
<1>5. CASE RevokeUpdate(r)
  <2> DEFINE row == CodeUpdated(codes[c], codeMem[r], dirty[r])
  <2>1. codes' = [codes EXCEPT ![c] = row] /\ UNCHANGED <<now, org, grants>>
    BY <1>5 DEF RevokeUpdate
  <2>2. /\ c \in Codes /\ codes[c].issued /\ ~codes[c].used
        /\ codeMem[r] = [codes[c] EXCEPT !.revoked = TRUE]
    BY <1>5 DEF RevokeUpdate, Fresh, RequestOK, HoldsCode, NamesCode
  <2>3. row.months = codes[c].months /\ (row.revoked = TRUE \/ row.revoked = codes[c].revoked)
    BY <2>2 DEF CodeUpdated, SharedInv, CodeRow
  <2>4. ~Writing(r) /\ ~Writing(r)' /\ ~OpenTx(r) /\ ~OpenTx(r)'
    BY <1>5 DEF RevokeUpdate, Writing, OpenTx, Reply, LocalInv
  <2>5. UNCHANGED <<Terms, Spent>>
    BY <1>0, <2>1, <2>4 DEF SeenTerms, SeenSpent, RowTerm
  <2>6. worth' = worth
    BY <2>1, <2>2, <2>3 DEF SharedInv
  <2>7. CASE row.revoked = TRUE
    <3>1. withdrawn' = withdrawn \union {c}
      BY <2>1, <2>2, <2>7 DEF SharedInv
    <3>2. c \notin Spent /\ worth[c] # None
      BY <1>0, <2>2, <2>4 DEF SeenSpent, Kept, SharedInv, Term
    <3>3. PICK d \in Codes : d = c
      BY <2>2
    <3>4. Promise!Withdraw(d)
      BY <2>1, <2>5, <2>6, <3>1, <3>2, <3>3 DEF Promise!Withdraw
    <3>5. QED
      BY <3>4 DEF Promise!Next
  <2>8. CASE row.revoked = codes[c].revoked
    <3>1. withdrawn' = withdrawn
      BY <2>1, <2>2, <2>8 DEF SharedInv
    <3>2. QED
      BY <2>1, <2>5, <2>6, <3>1 DEF Promise!vars
  <2>9. QED
    BY <2>3, <2>7, <2>8
<1>6. CASE RedeemConsume(r)
  <2>1. CASE Usable(c)
    <3>1. /\ c \in Codes /\ o \in Orgs /\ orgMem[r] = org[o] /\ org[o].exists
          /\ codes[c].issued /\ ~codes[c].used /\ ~codes[c].revoked
          /\ org[o].expires = Unlimited => codes[c].months = Unlimited
      BY <1>6, <2>1 DEF RedeemConsume, Fresh, RequestOK, Usable, HoldsOrg, NamesOrg, NamesCode
    <3>2. codes[c].months \in Durations /\ org[o].expires \in Term /\ org[o].expires # None
      BY <3>1 DEF SharedInv, OrgRow
    <3>3. /\ codes' = [codes EXCEPT ![c] = [codes[c] EXCEPT !.used = TRUE, !.usedBy = o]]
          /\ grants' = grants \union {<<c, r, o>>}
          /\ UNCHANGED <<now, org, task>>
      BY <1>6, <2>1, <3>1 DEF RedeemConsume, SharedInv
    <3>3a. orgMem'[r].expires = Renewed(org[o].expires, codes[c].months, now)
      <4>1. orgMem'[r] = [orgMem[r] EXCEPT
                            !.expires = Renewed(orgMem[r].expires, codes[c].months, now)]
        BY <1>6, <2>1 DEF RedeemConsume, LocalInv
      <4>2. org[o] \in OrgRow
        BY <3>1 DEF SharedInv
      <4>3. QED
        BY <3>1, <4>1, <4>2 DEF OrgRow
    <3>4. ~Writing(r) /\ Writing(r)' /\ ~OpenTx(r) /\ ~OpenTx(r)'
      BY <1>6, <2>1 DEF RedeemConsume, Writing, OpenTx, LocalInv
    <3>5. UNCHANGED <<worth, withdrawn>>
      BY <3>1, <3>3 DEF SharedInv, CodeRow
    <3>6. Spent' = Spent \union {c} /\ c \notin Spent
      <4>1. Spent = {g[1] : g \in grants} /\ Spent' = {g[1] : g \in grants'}
        BY <1>0, <3>4 DEF SeenSpent
      <4>2. Spent' = Spent \union {c}
        BY <3>3, <4>1, OneMoreGrant
      <4>3. c \notin Spent
        BY <3>1, <4>1 DEF Kept
      <4>4. QED
        BY <4>2, <4>3
    <3>7. Terms[o] = org[o].expires
      BY <1>0, <3>1, <3>4 DEF SeenTerms, RowTerm
    <3>8. Terms' = [Terms EXCEPT ![o] = Promise!Plus(Terms[o], worth[c])]
      <4>1. Promise!Plus(Terms[o], worth[c]) = orgMem'[r].expires
        BY <3>1, <3>2, <3>3a, <3>7, PlusIsRenewed DEF SharedInv
      <4>2. QED
        BY <1>0, <3>1, <3>3, <3>4, <4>1 DEF SeenTerms, RowTerm
    <3>9. worth[c] # None
      BY <3>1, <3>2 DEF Term
    <3>10. Promise!Renew(o, c)
      BY <3>1, <3>2, <3>3, <3>5, <3>6, <3>7, <3>8, <3>9 DEF Promise!Renew, Promise!Spend
    <3>11. QED
      BY <3>1, <3>10 DEF Promise!Next
  <2>2. CASE ~Usable(c)
    BY <1>2, <1>6, <2>2 DEF RedeemConsume, Writing
  <2>3. QED
    BY <2>1, <2>2
<1>7. CASE RegisterConsume(r)
  <2>1. CASE Usable(c)
    <3>1. /\ c \in Codes /\ o \in Orgs /\ ~org[o].exists
          /\ codes[c].issued /\ ~codes[c].used /\ ~codes[c].revoked
      BY <1>7, <2>1 DEF RegisterConsume, Fresh, RequestOK, Usable, NamesOrg, NamesCode
    <3>2. codes[c].months \in Durations /\ codes[c].months # None
      BY <3>1 DEF SharedInv, Term
    <3>3. /\ UNCHANGED <<now, org, codes, grants, task>>
          /\ orgMem'[r].expires = IF codes[c].months = Unlimited THEN Unlimited
                                  ELSE now + codes[c].months
      <4>1. \A name, t : NewOrg(name, t).expires = t
        BY DEF NewOrg, AbsentOrg
      <4>2. QED
        BY <1>7, <2>1, <4>1 DEF RegisterConsume, LocalInv
    <3>4. ~Writing(r) /\ Writing(r)' /\ ~OpenTx(r) /\ OpenTx(r)'
      BY <1>7, <2>1 DEF RegisterConsume, Writing, OpenTx, LocalInv
    <3>6. Spent' = Spent \union {c} /\ c \notin Spent
      BY <1>0, <3>1, <3>3, <3>4 DEF SeenSpent, Kept
    <3>7. Terms[o] = None
      BY <1>0, <3>1, <3>4 DEF SeenTerms, RowTerm
    <3>8. Terms' = [Terms EXCEPT ![o] = Promise!Plus(now, worth[c])]
      <4>1. Promise!Plus(now, worth[c]) = orgMem'[r].expires
        <5>1. Promise!Plus(now, worth[c]) = Renewed(now, codes[c].months, now)
          BY <3>1, <3>2, PlusIsRenewed DEF SharedInv, Term
        <5>2. QED
          BY <3>3, <5>1 DEF Renewed, Extend, SharedInv
      <4>2. QED
        BY <1>0, <3>1, <3>3, <3>4, <4>1 DEF SeenTerms, RowTerm
    <3>9. Promise!Found(o, c)
      BY <3>1, <3>2, <3>3, <3>6, <3>7, <3>8 DEF Promise!Found, Promise!Spend
    <3>10. QED
      BY <3>1, <3>9 DEF Promise!Next
  <2>2. CASE ~Usable(c)
    BY <1>2, <1>7, <2>2 DEF RegisterConsume, Writing
  <2>3. QED
    BY <2>1, <2>2
<1>8. CASE RegisterInsert(r)
  <2>1. UNCHANGED <<now, org, codes, grants, task, orgMem>> /\ pc'[r] = "commit"
    BY <1>8 DEF RegisterInsert, Fresh, NameTaken, LocalInv
  <2>2. /\ Writing(r) /\ Writing(r)' /\ UNCHANGED <<task, orgMem>>
        /\ OpenTx(r) /\ OpenTx(r)'
    BY <1>8, <2>1 DEF RegisterInsert, Writing, OpenTx
  <2>3. QED
    BY <1>0, <2>1, <2>2, NotSeen
<1>9. CASE RegisterCommit(r)
  <2>1. /\ c \in Codes /\ o \in Orgs /\ orgMem[r].exists
    <3>1. pc[r] = "commit"
      BY <1>9 DEF RegisterCommit
    <3>2. QED
      BY <3>1 DEF Fresh, RequestOK, NamesCode, NamesOrg, HoldsOrg
  <2>2. /\ codes' = [codes EXCEPT ![c] = [codes[c] EXCEPT !.used = TRUE, !.usedBy = o]]
        /\ org' = [org EXCEPT ![o] = orgMem[r]]
        /\ grants' = grants \union {<<c, r, o>>}
        /\ UNCHANGED now
    BY <1>9, <2>1 DEF RegisterCommit, SharedInv
  <2>3. Writing(r) /\ ~Writing(r)' /\ OpenTx(r) /\ ~OpenTx(r)'
    BY <1>9 DEF RegisterCommit, Writing, OpenTx, LocalInv, Reply
  <2>4. UNCHANGED <<worth, withdrawn>>
    BY <2>1, <2>2 DEF SharedInv, CodeRow
  <2>5. UNCHANGED Terms
    BY <1>0, <2>1, <2>2, <2>3 DEF SeenTerms, RowTerm, SharedInv
  <2>6. UNCHANGED Spent
    BY <1>0, <2>2, <2>3, OneMoreGrant DEF SeenSpent
  <2>7. QED
    BY <2>2, <2>4, <2>5, <2>6 DEF Promise!vars
<1>10. ASSUME NEW p \in Orgs, SetSubscription(r, p)
       PROVE  Promise!Next \/ UNCHANGED Promise!vars
  <2>1. /\ UNCHANGED <<now, org, codes, grants>> /\ org[p].exists
        /\ task'[r].org = p
    BY <1>10 DEF SetSubscription, LocalInv, NoTask
  <2>2. ~Writing(r) /\ Writing(r)' /\ ~OpenTx(r) /\ ~OpenTx(r)'
    BY <1>10 DEF SetSubscription, Writing, OpenTx, LocalInv
  <2>3. org[p].expires \in Term /\ org[p].expires # None
    BY DEF SharedInv, OrgRow
  <2>4. Terms[p] = org[p].expires
    BY <1>0, <2>1, <2>2 DEF SeenTerms, RowTerm
  <2>5. Terms' = [Terms EXCEPT ![p] = orgMem'[r].expires]
    BY <1>0, <2>1, <2>2 DEF SeenTerms, RowTerm
  <2>6. UNCHANGED <<now, worth, withdrawn, Spent>>
    BY <1>0, <2>1, <2>2 DEF SeenSpent
  <2>7. \/ orgMem'[r].expires = org[p].expires
        \/ orgMem'[r].expires = Unlimited
        \/ \E d \in Durations \ {Unlimited} :
             orgMem'[r].expires = Extend(org[p].expires, d, now)
        \/ \E date \in SetDates : orgMem'[r].expires = date
    BY <1>10, SetSubscriptionEntity
  <2>8. CASE orgMem'[r].expires = org[p].expires
    BY <1>0, <2>4, <2>5, <2>6, <2>8 DEF Promise!vars, SeenTerms
  <2>9. CASE orgMem'[r].expires = Unlimited
    <3>1. Promise!Plus(Terms[p], Unlimited) = Unlimited
      BY DEF Promise!Plus
    <3>2. Promise!Adjust(p)
      BY <2>3, <2>4, <2>5, <2>6, <2>9, <3>1 DEF Promise!Adjust
    <3>3. QED
      BY <3>2 DEF Promise!Next
  <2>10. ASSUME NEW d \in Durations \ {Unlimited},
                orgMem'[r].expires = Extend(org[p].expires, d, now)
         PROVE  Promise!Next
    <3>1. Promise!Plus(Terms[p], d) = orgMem'[r].expires
      BY <2>3, <2>4, <2>10, PlusIsRenewed DEF Renewed, SharedInv
    <3>2. Promise!Adjust(p)
      BY <2>3, <2>4, <2>5, <2>6, <3>1 DEF Promise!Adjust
    <3>3. QED
      BY <3>2 DEF Promise!Next
  <2>11. ASSUME NEW date \in SetDates, orgMem'[r].expires = date
         PROVE  Promise!Next
    <3>1. Promise!Adjust(p)
      BY <2>3, <2>4, <2>5, <2>6, <2>11 DEF Promise!Adjust
    <3>2. QED
      BY <3>1 DEF Promise!Next
  <2>12. QED
    BY <2>7, <2>8, <2>9, <2>10, <2>11
<1>11. CASE LoadOrg(r)
  <2>1. /\ UNCHANGED <<now, org, codes, grants, task>> /\ org[o].exists
        /\ ~Writing(r) /\ ~OpenTx(r) /\ ~OpenTx(r)'
    BY <1>11 DEF LoadOrg, Fresh, Writing, OpenTx, LocalInv
  <2>2. orgMem'[r].expires = org[o].expires
    BY <1>11 DEF LoadOrg, LocalInv, SharedInv, OrgRow, RequestOK, NamesOrg
  <2>3. UNCHANGED Terms
    BY <1>0, <2>1, <2>2 DEF SeenTerms, RowTerm
  <2>4. UNCHANGED Spent
    BY <1>0, <2>1 DEF SeenSpent
  <2>5. QED
    BY <2>1, <2>3, <2>4 DEF Promise!vars
<1>12. CASE UploadLogo(r)
  <2>1. /\ UNCHANGED <<now, org, codes, grants, task>> /\ org[o].exists
        /\ ~Writing(r) /\ ~OpenTx(r) /\ ~OpenTx(r)' /\ orgMem[r] = org[o]
    BY <1>12 DEF UploadLogo, Fresh, Writing, OpenTx, LocalInv
  <2>2. orgMem'[r].expires = orgMem[r].expires
    BY <1>12 DEF UploadLogo, LocalInv, OrgRow, RequestOK, HoldsOrg
  <2>3. UNCHANGED Terms
    BY <1>0, <2>1, <2>2 DEF SeenTerms, RowTerm
  <2>4. UNCHANGED Spent
    BY <1>0, <2>1 DEF SeenSpent
  <2>5. QED
    BY <2>1, <2>3, <2>4 DEF Promise!vars
<1>13. CASE SaveOrgReload(r)
  <2>1. /\ UNCHANGED <<now, org, codes, grants>> /\ Writing(r) /\ ~OpenTx(r) /\ ~OpenTx(r)'
        /\ org[o].exists /\ org[o] \in OrgRow
    BY <1>13 DEF SaveOrgReload, Writing, OpenTx, LocalInv, SharedInv, Fresh, RequestOK,
                 NamesOrg, HoldsOrg, Reply
  <2>2. CASE Differing(orgMem[r], org[o]) = {}
    <3>1. orgMem[r].expires = org[o].expires
      BY <2>1, <2>2 DEF Differing, OrgRow
    <3>2. ~Writing(r)'
      BY <1>13, <2>2 DEF SaveOrgReload, Reply, Writing, LocalInv
    <3>3. UNCHANGED Terms
      BY <1>0, <2>1, <3>1, <3>2 DEF SeenTerms, RowTerm
    <3>4. UNCHANGED Spent
      BY <1>0, <2>1 DEF SeenSpent
    <3>5. QED
      BY <2>1, <3>3, <3>4 DEF Promise!vars
  <2>3. CASE Differing(orgMem[r], org[o]) # {}
    <3>1. Writing(r)' /\ UNCHANGED <<task, orgMem>>
      BY <1>13, <2>3 DEF SaveOrgReload, Writing, LocalInv
    <3>2. QED
      BY <1>0, <2>1, <3>1, NotSeen
  <2>4. QED
    BY <2>2, <2>3
<1>14. CASE SaveOrgUpdate(r)
  <2>1. /\ UNCHANGED <<now, codes, grants>> /\ Writing(r) /\ ~Writing(r)'
        /\ ~OpenTx(r) /\ ~OpenTx(r)'
        /\ o \in Orgs /\ org[o].exists /\ org[o] \in OrgRow
        /\ dirty[r] = Differing(orgMem[r], org[o])
        /\ orgMem[r].expires = org[o].expires \/ orgMem[r].name = org[o].name
    BY <1>14 DEF SaveOrgUpdate, Writing, OpenTx, LocalInv, SharedInv, Fresh, RequestOK,
                 NamesOrg, HoldsOrg, Reply
  <2>2. /\ "name" \in dirty[r] => orgMem[r].expires = org[o].expires
        /\ "expires" \notin dirty[r] => orgMem[r].expires = org[o].expires
    BY <2>1 DEF Differing, OrgRow
  <2>3. /\ OrgUpdated(org[o], orgMem[r], dirty[r]).exists
        /\ OrgUpdated(org[o], orgMem[r], dirty[r]).expires = orgMem[r].expires
    BY <2>1, <2>2 DEF OrgUpdated
  <2>4. \/ UNCHANGED org /\ "name" \in dirty[r]
        \/ org' = [org EXCEPT ![o] = OrgUpdated(org[o], orgMem[r], dirty[r])]
    BY <1>14 DEF SaveOrgUpdate
  <2>5. org'[o].exists /\ org'[o].expires = orgMem[r].expires
    BY <2>1, <2>2, <2>3, <2>4 DEF SharedInv
  <2>6. \A p \in Orgs \ {o} : org'[p] = org[p]
    BY <2>4 DEF SharedInv
  <2>7. UNCHANGED Terms
    BY <1>0, <2>1, <2>5, <2>6 DEF SeenTerms, RowTerm
  <2>8. UNCHANGED Spent
    BY <1>0, <2>1 DEF SeenSpent
  <2>9. QED
    BY <2>1, <2>7, <2>8 DEF Promise!vars
<1>15. QED
  BY <1>3, <1>4, <1>5, <1>6, <1>7, <1>8, <1>9, <1>10, <1>11, <1>12, <1>13, <1>14
     DEF Arrive, Serve

\* One after the other and without a restart, the requests implement the
\* ledger the documentation describes: the consumption of a code and the new
\* end of the subscription are one event, whatever is renamed or uploaded in
\* between, and a subscription is never left without the months of its code.
THEOREM ImplementsSubscriptionLedger ==
  ASSUME Serial
  PROVE  Spec => SubscriptionLedgerSpec
<1>1. Init => Promise!Init
  BY PromiseInit
<1>2. TypeInv /\ CodeInv /\ SerialInv /\ [Next]_vars => [Promise!Next]_Promise!vars
  <2> SUFFICES ASSUME TypeInv, CodeInv, SerialInv, [Next]_vars
               PROVE  Promise!Next \/ UNCHANGED Promise!vars
    OBVIOUS
  <2>1. ASSUME NEW r \in Requests, Arrive(r) \/ Serve(r)
        PROVE  Promise!Next \/ UNCHANGED Promise!vars
    BY <2>1, PromiseStep
  <2>2. CASE Tick
    BY <2>2 DEF Tick, requestVars, Promise!Next, Promise!Tick, Terms, Spent, Founding, Saving
  <2>3. CASE UNCHANGED vars
    BY <2>3 DEF vars, requestVars, Promise!vars, Terms, Spent, Founding, Saving
  <2>4. ~Crash
    BY DEF Serial, Crash, TypeInv, SharedInv
  <2>5. QED
    BY <2>1, <2>2, <2>3, <2>4 DEF Next, Quiet
<1>3. QED
  BY <1>1, <1>2, Invariance, SerialInvariance, PTL
     DEF Spec, SubscriptionLedgerSpec, Promise!Spec

-----------------------------------------------------------------------------
(* Requests that come to an end *)

\* The steps a request has left at most.  Issuing goes round for every code;
\* every other request only goes forward.
Steps(place) ==
  CASE place \in {"revokeUpdate", "update", "commit"} -> 1
    [] place \in {"revokeReload", "reload", "insertOrg"} -> 2
    [] place \in {"consume", "upload", "tx"} -> 3
    [] place \in {"redeemCheck", "loadOrg", "code"} -> 4
    [] place = "name" -> 5
    [] OTHER -> 0

Work(r) ==
  IF pc[r] = "generate" THEN 2 * task[r].left
  ELSE IF pc[r] = "insertCode" THEN 2 * task[r].left - 1
  ELSE Steps(pc[r])

\* What issuing has left to do, and what loads an organisation.
AtWork ==
  \A r \in Requests :
    /\ pc[r] \in {"generate", "insertCode"} => task[r].left \in 1 .. MaxBatch
    /\ pc[r] = "loadOrg" => task[r].op \in {"rename", "logo"}

LEMMA ServedWhenReady ==
  ASSUME NEW r \in Requests, Serve(r)
  PROVE  Ready(r)
BY DEF Serve, Ready, IssueGenerate, IssueInsert, RevokeReload, RevokeUpdate, RedeemCheck,
   RedeemConsume, RegisterName, RegisterCode, RegisterConsume, RegisterInsert, RegisterCommit,
   LoadOrg, UploadLogo, SaveOrgReload, SaveOrgUpdate

\* A step of a request leaves it less to do, and the others as much as before.
WorkFalls(r) ==
  /\ \A q \in Requests \ {r} : pc'[q] = pc[q] /\ task'[q] = task[q]
  /\ pc'[r] \in {"generate", "insertCode"} => task'[r].left \in 1 .. MaxBatch
  /\ pc'[r] = "loadOrg" => task'[r].op \in {"rename", "logo"}
  /\ pc[r] # "new" => Work(r)' < Work(r)

LEMMA InitAtWork == Init => AtWork
BY DEF Init, AtWork

LEMMA ReplyWork ==
  ASSUME TypeInv, AtWork, NEW r \in Requests, Reply(r), pc[r] \notin {"new", "done"}
  PROVE  WorkFalls(r)
<1>1. /\ pc' = [pc EXCEPT ![r] = "done"] /\ task' = [task EXCEPT ![r] = NoTask]
  BY DEF Reply, GoTo
<1>2. pc'[r] = "done" /\ \A q \in Requests \ {r} : pc'[q] = pc[q] /\ task'[q] = task[q]
  BY <1>1 DEF TypeInv, LocalInv
<1>3. Work(r)' = 0
  BY <1>2 DEF Work, Steps
<1>4. Work(r) > 0
  BY DEF Work, Steps, PCs, TypeInv, LocalInv, AtWork
<1>5. QED
  BY <1>2, <1>3, <1>4 DEF WorkFalls

\* A request that goes forward.
LEMMA ForwardWork ==
  ASSUME TypeInv, NEW r \in Requests, NEW place, pc' = [pc EXCEPT ![r] = place], task' = task,
         pc[r] \notin {"new", "generate", "insertCode"},
         place \notin {"generate", "insertCode", "loadOrg"}, Steps(place) < Steps(pc[r])
  PROVE  WorkFalls(r)
BY DEF TypeInv, LocalInv, WorkFalls, Work

LEMMA ArriveWork ==
  ASSUME TypeInv, NEW r \in Requests, Arrive(r)
  PROVE  WorkFalls(r)
<1>1. CASE Issue(r)
  <2>1. PICK d \in Durations, n \in 1 .. MaxBatch :
          task' = [task EXCEPT ![r] = [NoTask EXCEPT !.op = "issue", !.months = d, !.left = n]]
    BY <1>1 DEF Issue
  <2>2. [NoTask EXCEPT !.op = "issue", !.months = d, !.left = n].left = n
    BY DEF NoTask
  <2>3. QED
    BY <1>1, <2>1, <2>2 DEF Issue, CanStart, GoTo, TypeInv, LocalInv, WorkFalls
<1>2. CASE \E o \in Orgs : EditProfile(r, o)
  <2>1. PICK o \in Orgs :
          \/ \E name \in Names : task' = [task EXCEPT ![r] =
                [NoTask EXCEPT !.op = "rename", !.org = o, !.name = name]]
          \/ task' = [task EXCEPT ![r] = [NoTask EXCEPT !.op = "logo", !.org = o]]
    BY <1>2 DEF EditProfile
  <2>2. ASSUME NEW new, task' = [task EXCEPT ![r] = new], new.op \in {"rename", "logo"}
        PROVE  WorkFalls(r)
    BY <1>2, <2>2 DEF EditProfile, CanStart, GoTo, TypeInv, LocalInv, WorkFalls
  <2>3. ASSUME NEW name
        PROVE  [NoTask EXCEPT !.op = "rename", !.org = o, !.name = name].op = "rename"
    BY DEF NoTask
  <2>4. [NoTask EXCEPT !.op = "logo", !.org = o].op = "logo"
    BY DEF NoTask
  <2>5. QED
    BY <2>1, <2>2, <2>3, <2>4
<1>3. CASE \/ \E c \in Codes : Revoke(r, c)
           \/ \E o \in Orgs, c \in Codes : Redeem(r, o, c)
           \/ \E o \in Orgs, c \in Codes, name \in Names : Register(r, o, name, c)
           \/ \E o \in Orgs : SetSubscription(r, o)
  <2>1. \E t, place : /\ task' = [task EXCEPT ![r] = t] /\ pc' = [pc EXCEPT ![r] = place]
                      /\ place \in {"revokeReload", "redeemCheck", "name", "reload"}
    BY <1>3 DEF Revoke, Redeem, Register, SetSubscription, GoTo
  <2>2. pc[r] = "new"
    BY <1>3 DEF Revoke, Redeem, Register, SetSubscription, CanStart
  <2>3. QED
    BY <2>1, <2>2 DEF TypeInv, LocalInv, WorkFalls
<1>4. QED
  BY <1>1, <1>2, <1>3 DEF Arrive

LEMMA IssueWork ==
  ASSUME TypeInv, AtWork, NEW r \in Requests, IssueGenerate(r) \/ IssueInsert(r)
  PROVE  WorkFalls(r)
<1>1. /\ pc[r] \in {"generate", "insertCode"} /\ task[r] \in Task
      /\ task[r].left \in Nat /\ task[r].left >= 1 /\ task[r].left <= MaxBatch
  BY DEF IssueGenerate, IssueInsert, TypeInv, LocalInv, RequestOK, AtWork, PCs
<1>2. CASE Reply(r)
  BY <1>1, <1>2, ReplyWork
<1>3. CASE IssueGenerate(r) /\ ~Reply(r)
  <2>1. PICK c \in Codes : task' = [task EXCEPT ![r] = [task[r] EXCEPT !.code = c]]
    BY <1>3 DEF IssueGenerate
  <2>2. [task[r] EXCEPT !.code = c].left = task[r].left
    BY <1>1 DEF Task
  <2>3. /\ pc[r] = "generate" /\ pc'[r] = "insertCode" /\ task'[r].left = task[r].left
        /\ \A q \in Requests \ {r} : pc'[q] = pc[q] /\ task'[q] = task[q]
    BY <1>3, <2>1, <2>2 DEF IssueGenerate, GoTo, TypeInv, LocalInv
  <2>4. QED
    BY <1>1, <2>3 DEF WorkFalls, Work
<1>4. CASE IssueInsert(r) /\ ~Reply(r)
  <2>1. /\ pc[r] = "insertCode" /\ task[r].left # 1
        /\ task' = [task EXCEPT ![r] = [task[r] EXCEPT !.code = None, !.left = task[r].left - 1]]
        /\ pc' = [pc EXCEPT ![r] = "generate"]
    BY <1>1, <1>4 DEF IssueInsert, GoTo, TypeInv, LocalInv
  <2>2. [task[r] EXCEPT !.code = None, !.left = task[r].left - 1].left = task[r].left - 1
    BY <1>1 DEF Task
  <2>3. /\ pc'[r] = "generate" /\ task'[r].left = task[r].left - 1
        /\ \A q \in Requests \ {r} : pc'[q] = pc[q] /\ task'[q] = task[q]
    BY <2>1, <2>2 DEF TypeInv, LocalInv
  <2>4. QED
    BY <1>1, <2>1, <2>3 DEF WorkFalls, Work
<1>5. QED
  BY <1>2, <1>3, <1>4

LEMMA ServeWork ==
  ASSUME TypeInv, AtWork, NEW r \in Requests, Serve(r)
  PROVE  WorkFalls(r)
<1>1. CASE IssueGenerate(r) \/ IssueInsert(r)
  BY <1>1, IssueWork
<1>2. CASE Reply(r)
  BY <1>2, ReplyWork DEF Serve, IssueGenerate, IssueInsert, RevokeReload, RevokeUpdate,
     RedeemCheck, RedeemConsume, RegisterName, RegisterCode, RegisterConsume, RegisterInsert,
     RegisterCommit, LoadOrg, UploadLogo, SaveOrgReload, SaveOrgUpdate
<1>3. CASE ~(IssueGenerate(r) \/ IssueInsert(r)) /\ ~Reply(r)
  <2>1. task' = task
    BY <1>3 DEF Serve, RevokeReload, RevokeUpdate, RedeemCheck, RedeemConsume, RegisterName,
       RegisterCode, RegisterConsume, RegisterInsert, RegisterCommit, LoadOrg, UploadLogo,
       SaveOrgReload, SaveOrgUpdate
  <2>2. /\ Steps("revokeUpdate") = 1 /\ Steps("update") = 1 /\ Steps("commit") = 1
        /\ Steps("revokeReload") = 2 /\ Steps("reload") = 2 /\ Steps("insertOrg") = 2
        /\ Steps("consume") = 3 /\ Steps("upload") = 3 /\ Steps("tx") = 3
        /\ Steps("redeemCheck") = 4 /\ Steps("loadOrg") = 4 /\ Steps("code") = 4
        /\ Steps("name") = 5
    BY DEF Steps
  <2>3. ASSUME NEW from, NEW place, pc[r] = from, pc' = [pc EXCEPT ![r] = place],
               place \notin {"generate", "insertCode", "loadOrg"},
               from \notin {"new", "generate", "insertCode"}, Steps(place) < Steps(from)
        PROVE  WorkFalls(r)
    BY <2>1, <2>3, ForwardWork
  <2>4. CASE RevokeReload(r) \/ RevokeUpdate(r)
    BY <1>3, <2>2, <2>3, <2>4 DEF RevokeReload, RevokeUpdate, GoTo
  <2>5. CASE RedeemCheck(r) \/ RedeemConsume(r)
    BY <1>3, <2>2, <2>3, <2>5 DEF RedeemCheck, RedeemConsume, GoTo
  <2>6. CASE RegisterName(r) \/ RegisterCode(r) \/ RegisterConsume(r)
    BY <1>3, <2>2, <2>3, <2>6 DEF RegisterName, RegisterCode, RegisterConsume, GoTo
  <2>7. CASE RegisterInsert(r) \/ RegisterCommit(r)
    BY <1>3, <2>2, <2>3, <2>7 DEF RegisterInsert, RegisterCommit, GoTo
  <2>8. CASE LoadOrg(r) \/ UploadLogo(r)
    BY <1>3, <2>2, <2>3, <2>8 DEF LoadOrg, UploadLogo, GoTo
  <2>9. CASE SaveOrgReload(r) \/ SaveOrgUpdate(r)
    BY <1>3, <2>2, <2>3, <2>9 DEF SaveOrgReload, SaveOrgUpdate, GoTo
  <2>10. QED
    BY <1>3, <2>4, <2>5, <2>6, <2>7, <2>8, <2>9 DEF Serve
<1>4. QED
  BY <1>1, <1>2, <1>3

LEMMA FallsAtWork ==
  ASSUME AtWork, NEW r \in Requests, WorkFalls(r)
  PROVE  AtWork'
BY DEF AtWork, WorkFalls

LEMMA AtWorkInvariance == Spec => [](TypeInv /\ AtWork)
<1>1. TypeInv /\ AtWork /\ [Next]_vars => AtWork'
  <2> SUFFICES ASSUME TypeInv, AtWork, [Next]_vars
               PROVE  AtWork'
    OBVIOUS
  <2>1. ASSUME NEW r \in Requests, Arrive(r) \/ Serve(r)
        PROVE  AtWork'
    BY <2>1, ArriveWork, ServeWork, FallsAtWork
  <2>2. CASE Crash
    BY <2>2 DEF Crash, AtWork, InFlight
  <2>3. CASE Tick \/ UNCHANGED vars
    BY <2>3 DEF Tick, vars, requestVars, AtWork
  <2>4. QED
    BY <2>1, <2>2, <2>3 DEF Next, Quiet
<1>2. QED
  BY InitAtWork, <1>1, Invariance, PTL DEF Spec

\* A step takes work off the request that takes it, and leaves the others
\* theirs; a restart takes all.
WorkOnlyFalls ==
  \A r \in InFlight : Work(r)' < Work(r) \/ (pc'[r] = pc[r] /\ Work(r)' = Work(r))

\* A request is answered after so many of its own steps at most, whatever the
\* others do: none is ever given more to do, and none looks for a free code
\* for ever (generateUniqueCode).  With NoCircle, why each request ends.
THEOREM WorkRunsOut ==
  Spec => /\ [](\A r \in InFlight : Work(r) \in 1 .. Larger(5, 2 * MaxBatch))
          /\ [][WorkOnlyFalls]_vars
<1>1. TypeInv /\ AtWork => \A r \in InFlight : Work(r) \in 1 .. Larger(5, 2 * MaxBatch)
  <2> SUFFICES ASSUME TypeInv, AtWork, NEW r \in InFlight
               PROVE  Work(r) \in 1 .. Larger(5, 2 * MaxBatch)
    OBVIOUS
  <2>1. r \in Requests /\ pc[r] \in PCs \ {"new", "done"}
    BY DEF InFlight, TypeInv, LocalInv
  <2>2. CASE pc[r] \in {"generate", "insertCode"}
    <3>1. task[r].left \in Nat /\ task[r].left >= 1 /\ task[r].left <= MaxBatch
      BY <2>1, <2>2 DEF AtWork
    <3>2. Work(r) \in Nat /\ Work(r) >= 1 /\ Work(r) <= 2 * MaxBatch
      BY <2>2, <3>1 DEF Work
    <3>3. QED
      BY <3>2 DEF Larger
  <2>3. CASE pc[r] \notin {"generate", "insertCode"}
    <3>1. Work(r) \in 1 .. 5
      BY <2>1, <2>3 DEF Work, Steps, PCs
    <3>2. QED
      BY <3>1 DEF Larger
  <2>4. QED
    BY <2>2, <2>3
<1>2. TypeInv /\ AtWork /\ [Next]_vars => [WorkOnlyFalls]_vars
  <2> SUFFICES ASSUME TypeInv, AtWork, [Next]_vars, NEW q \in InFlight
               PROVE  Work(q)' < Work(q) \/ (pc'[q] = pc[q] /\ Work(q)' = Work(q))
    BY DEF WorkOnlyFalls
  <2>1. ASSUME NEW r \in Requests, Arrive(r) \/ Serve(r)
        PROVE  Work(q)' < Work(q) \/ (pc'[q] = pc[q] /\ Work(q)' = Work(q))
    <3>1. WorkFalls(r)
      BY <2>1, ArriveWork, ServeWork
    <3>2. QED
      BY <3>1 DEF WorkFalls, Work, InFlight
  <2>2. CASE Crash
    <3>1. pc'[q] = "done" /\ Work(q)' = 0
      BY <2>2 DEF Crash, InFlight, Work, Steps
    <3>2. Work(q) \in Nat /\ Work(q) >= 1
      BY <1>1
    <3>3. QED
      BY <3>1, <3>2
  <2>3. CASE Tick \/ UNCHANGED vars
    BY <2>3 DEF Tick, vars, requestVars, Work
  <2>4. QED
    BY <2>1, <2>2, <2>3 DEF Next, Quiet
<1>3. QED
  BY <1>1, <1>2, AtWorkInvariance, PTL DEF Spec

\* A code's row is always locked before a slug and a name, which are held
\* until COMMIT only, so no circle of requests can wait for each other
\* (register, redeemForOrganization, revokeCode, update of the name).
THEOREM NoCircle ==
  ASSUME Codes # {}
  PROVE  Spec => []NobodyStuck
<1> DEFINE Served(r) == \/ Ready(r)
                        \/ \E q \in InFlight :
                             /\ InTheWay(q, r)
                             /\ Ready(q) \/ \E s \in InFlight : InTheWay(s, q) /\ Ready(s)
<1>1. TypeInv /\ AtWork => \A r \in InFlight : Served(r)
  <2> SUFFICES ASSUME TypeInv, AtWork, NEW r \in InFlight
               PROVE  Served(r)
    OBVIOUS
  <2>1. r \in Requests /\ pc[r] \in PCs \ {"new", "done"}
    BY DEF InFlight, TypeInv, LocalInv
  <2>2. ASSUME NEW q \in InFlight, pc[q] = "commit"
        PROVE  Ready(q)
    BY <2>2 DEF Ready
  <2>3. ASSUME NEW q \in InFlight, pc[q] \in {"insertOrg", "update"}
        PROVE  Ready(q) \/ \E s \in InFlight : InTheWay(s, q) /\ Ready(s)
    <3>1. SUFFICES ASSUME ~Ready(q)
                   PROVE  \E s \in InFlight : InTheWay(s, q) /\ pc[s] = "commit"
      BY <2>2
    <3>2. CASE pc[q] = "insertOrg"
      <4>1. \E s \in Requests \ {q} :
              LocksSlug(s, task[q].org) \/ LocksName(s, task[q].name)
        BY <3>1, <3>2 DEF Ready, SlugFree, NameFree
      <4>2. QED
        BY <3>2, <4>1 DEF InTheWay, LocksSlug, LocksName, InFlight
    <3>3. CASE pc[q] = "update"
      <4>1. "name" \in dirty[q] /\ \E s \in Requests \ {q} : LocksName(s, orgMem[q].name)
        BY <3>1, <3>3 DEF Ready, NameFree
      <4>2. QED
        BY <3>3, <4>1 DEF InTheWay, LocksName, InFlight
    <3>4. QED
      BY <2>3, <3>2, <3>3
  <2>4. CASE pc[r] \in {"insertOrg", "update"}
    BY <2>3, <2>4
  <2>5. CASE pc[r] \in {"consume", "tx", "revokeUpdate"}
    <3>1. SUFFICES ASSUME ~Ready(r) PROVE Served(r)
      OBVIOUS
    <3>2. PICK q \in Requests \ {r} : LocksCode(q, task[r].code)
      BY <2>5, <3>1 DEF Ready, CodeFree
    <3>3. q \in InFlight /\ InTheWay(q, r) /\ pc[q] \in {"insertOrg", "commit"}
      BY <2>5, <3>2 DEF LocksCode, InTheWay, InFlight
    <3>4. Ready(q) \/ \E s \in InFlight : InTheWay(s, q) /\ Ready(s)
      BY <2>2, <2>3, <3>3
    <3>5. QED
      BY <3>3, <3>4
  <2>6. CASE pc[r] \notin {"insertOrg", "update", "consume", "tx", "revokeUpdate"}
    <3>1. Ready(r)
      BY <2>1, <2>6 DEF Ready, PCs, AtWork
    <3>2. QED
      BY <3>1
  <2>7. QED
    BY <2>4, <2>5, <2>6
<1>2. TypeInv /\ AtWork => NobodyStuck
  BY <1>1 DEF NobodyStuck
<1>3. QED
  BY <1>2, AtWorkInvariance, PTL
=============================================================================
