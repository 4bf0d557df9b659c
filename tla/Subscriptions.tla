---------------------------- MODULE Subscriptions ----------------------------
(***************************************************************************)
(* Registration codes and the subscription of an organisation: the         *)
(* requests of PlatformService, OrganizationsService and                   *)
(* AuthService.register against the tables registration_codes and          *)
(* organizations.                                                          *)
(*                                                                         *)
(* Every request is a process.  Node runs the code between two awaits      *)
(* without interruption, so an action is one database round trip together  *)
(* with the synchronous code after it.  repository.save(entity) is two     *)
(* round trips: it reads the row again, keeps the columns in which the     *)
(* entity in memory differs from the row (dirty), and UPDATEs those only.  *)
(* A save of an entity read some time ago thus puts back every column      *)
(* another request has changed since.                                      *)
(*                                                                         *)
(* PostgreSQL runs at READ COMMITTED.  The transaction of register holds   *)
(* the lock on its code row from the conditional UPDATE to COMMIT, and     *)
(* nobody sees its writes before COMMIT.                                   *)
(***************************************************************************)
EXTENDS Naturals, FiniteSets, SubscriptionTerms

CONSTANTS
  Orgs,           \* organisations, identified by their slug (unique index)
  Founders,       \* the organisations that exist at the start
  PlatformOrgs,   \* those whose administrator also runs the platform
  Names,          \* values of organizations.name
  Plans,          \* values of organizations.subscription_plan
  Codes,          \* registration codes that may ever be issued
  IssuedCodes,    \* the codes issued before the start
  Durations,      \* values of registration_codes.valid_months
  InitialTerms,   \* subscriptions the founders may start with
  SetDates,       \* dates a super admin may enter
  Requests,       \* requests; each is served once, which bounds a behaviour
  Ops,            \* the operations a run explores
  MaxNow,         \* bound on the clock
  MaxBatch,       \* bound on the codes of one issueCodes call (20 in the code)
  MaxInFlight,    \* bound on requests served at the same time
  MaxCrashes,     \* bound on restarts of the server
  None

AllOps == {"issue", "revoke", "redeem", "register", "set", "rename", "logo"}

ASSUME SubscriptionsAssumption ==
  /\ Founders \subseteq Orgs /\ PlatformOrgs \subseteq Orgs /\ IssuedCodes \subseteq Codes
  /\ Durations \subseteq (Nat \ {0}) \union {Unlimited}
  /\ InitialTerms \subseteq Term
  /\ SetDates \subseteq Nat
  /\ Ops \subseteq AllOps
  /\ MaxNow \in Nat /\ MaxBatch \in Nat /\ MaxInFlight \in Nat /\ MaxCrashes \in Nat
  /\ None \notin Orgs \union Names \union Plans \union Codes \union Term

VARIABLES
  now,      \* the clock, in months
  org,      \* table organizations
  codes,    \* table registration_codes
  pc,       \* where each request is: the await it is blocked in
  task,     \* its arguments
  orgMem,   \* the Organization entity it holds
  codeMem,  \* the RegistrationCode entity it holds
  dirty,    \* the columns its save is about to UPDATE
  crashes,  \* restarts so far
  grants,   \* history: <<code, request, org>> of every successful consumption
  ceiling   \* history: the latest end the codes and admins can account for

requestVars == <<pc, task, orgMem, codeMem, dirty>>
vars == <<now, org, codes, requestVars, crashes, grants, ceiling>>

OrgRow == [exists: BOOLEAN, name: Names \union {None}, plan: Plans \union {None},
           logo: BOOLEAN, expires: Term]
OrgColumns == {"exists", "name", "plan", "logo", "expires"}

\* note, issued_by_user_id and redeemed_by_user_id carry no control and are
\* left out; the time stamps used_at and revoked_at are "is not NULL".
CodeRow == [issued: BOOLEAN, months: Durations \union {None}, used: BOOLEAN,
            usedBy: Orgs \union {None}, revoked: BOOLEAN]
CodeColumns == {"issued", "months", "used", "usedBy", "revoked"}

Task == [op: Ops, org: Orgs \union {None}, code: Codes \union {None},
         name: Names \union {None}, months: Durations \union {None}, left: Nat]
NoTask == [op |-> None, org |-> None, code |-> None, name |-> None,
           months |-> None, left |-> 0]

PCs == {"new", "generate", "insertCode", "revokeReload", "revokeUpdate",
        "redeemCheck", "consume", "name", "code", "tx", "insertOrg", "commit",
        "loadOrg", "upload", "reload", "update", "done"}

\* Every variable keeps its type; the requests hold rows of the right table.
TypeOK ==
  /\ now \in Nat
  /\ org \in [Orgs -> OrgRow]
  /\ codes \in [Codes -> CodeRow]
  /\ pc \in [Requests -> PCs]
  /\ task \in [Requests -> Task \union {NoTask}]
  /\ orgMem \in [Requests -> OrgRow \union {None}]
  /\ codeMem \in [Requests -> CodeRow \union {None}]
  /\ dirty \in [Requests -> SUBSET (OrgColumns \union CodeColumns)]
  /\ crashes \in Nat
  /\ grants \subseteq Codes \X Requests \X Orgs
  /\ ceiling \in [Orgs -> Nat]

AbsentOrg == [exists |-> FALSE, name |-> None, plan |-> None, logo |-> FALSE,
              expires |-> Unlimited]
NewOrg(name, expires) == [AbsentOrg EXCEPT !.exists = TRUE, !.name = name,
                                           !.expires = expires]
AbsentCode == [issued |-> FALSE, months |-> None, used |-> FALSE,
               usedBy |-> None, revoked |-> FALSE]
NewCode(months) == [AbsentCode EXCEPT !.issued = TRUE, !.months = months]

Init ==
  /\ now = 0
  /\ \E name \in [Founders -> Names], term \in [Founders -> InitialTerms] :
       /\ \A o, p \in Founders : name[o] = name[p] => o = p
       /\ org = [o \in Orgs |-> IF o \in Founders THEN NewOrg(name[o], term[o])
                                ELSE AbsentOrg]
  /\ \E months \in [IssuedCodes -> Durations] :
       codes = [c \in Codes |-> IF c \in IssuedCodes THEN NewCode(months[c])
                                ELSE AbsentCode]
  /\ pc = [r \in Requests |-> "new"]
  /\ task = [r \in Requests |-> NoTask]
  /\ orgMem = [r \in Requests |-> None]
  /\ codeMem = [r \in Requests |-> None]
  /\ dirty = [r \in Requests |-> {}]
  /\ crashes = 0
  /\ grants = {}
  /\ ceiling = [o \in Orgs |-> IF org[o].expires = Unlimited THEN 0 ELSE org[o].expires]

-----------------------------------------------------------------------------
(* Requests, saves and locks *)

InFlight == {r \in Requests : pc[r] \notin {"new", "done"}}

CanStart(r, op) ==
  pc[r] = "new" /\ op \in Ops /\ Cardinality(InFlight) < MaxInFlight

GoTo(r, place) == pc' = [pc EXCEPT ![r] = place]

\* The request ends, with a result or an exception; its entities are garbage.
Reply(r) ==
  /\ GoTo(r, "done")
  /\ task' = [task EXCEPT ![r] = NoTask]
  /\ orgMem' = [orgMem EXCEPT ![r] = None]
  /\ codeMem' = [codeMem EXCEPT ![r] = None]
  /\ dirty' = [dirty EXCEPT ![r] = {}]

\* First round trip of save: the columns in which entity and row differ.
Differing(entity, row) == {col \in DOMAIN row : entity[col] # row[col]}

\* Mutant: the owner of an unused code is written back as undefined.
CodeUpdatedLosesOwner(row, entity, cols) ==
  [row EXCEPT !.usedBy = IF "usedBy" \in cols THEN entity.usedBy ELSE Unlimited,
              !.revoked = entity.revoked]

\* Second round trip of save: UPDATE those columns and no other.
OrgUpdated(row, entity, cols) ==
  [exists  |-> row.exists,
   name    |-> IF "name" \in cols THEN entity.name ELSE row.name,
   plan    |-> IF "plan" \in cols THEN entity.plan ELSE row.plan,
   logo    |-> IF "logo" \in cols THEN entity.logo ELSE row.logo,
   expires |-> IF "expires" \in cols THEN entity.expires ELSE row.expires]

CodeUpdated(row, entity, cols) ==
  [issued  |-> row.issued,
   months  |-> row.months,
   used    |-> IF "used" \in cols THEN entity.used ELSE row.used,
   usedBy  |-> IF "usedBy" \in cols THEN entity.usedBy ELSE row.usedBy,
   revoked |-> IF "revoked" \in cols THEN entity.revoked ELSE row.revoked]

\* Mutant: the name is looked up again with a shared lock before the INSERT.
LocksNameShared(q, name) == pc[q] \in {"insertOrg", "commit"} /\ task[q].name = name

\* register holds the row lock of its code, and has inserted its slug and its
\* name, both unique.
LocksCode(q, c) == pc[q] \in {"insertOrg", "commit"} /\ task[q].code = c
LocksSlug(q, o) == pc[q] = "commit" /\ task[q].org = o
LocksName(q, name) == pc[q] = "commit" /\ task[q].name = name
\* Mutant: the UPDATE of register does not lock its row.
CodeNeverLocked(r, c) == TRUE
CodeFree(r, c) == \A q \in Requests \ {r} : ~LocksCode(q, c)
SlugFree(r, o) == \A q \in Requests \ {r} : ~LocksSlug(q, o)
NameFree(r, name) == \A q \in Requests \ {r} : ~LocksName(q, name)

NameTaken(o, name) == \E p \in Orgs \ {o} : org[p].exists /\ org[p].name = name

\* Mutant: one of the two time stamps is not looked at.
UsableIfNotRevoked(c) == codes[c].issued /\ ~codes[c].revoked

\* usedAt IS NULL AND revokedAt IS NULL: what every path checks of a code.
Usable(c) == codes[c].issued /\ ~codes[c].used /\ ~codes[c].revoked

\* History: months of a code count once, those of an admin every time.
Credited(c, d, o) ==
  IF d = Unlimited \/ (\E g \in grants : g[1] = c) THEN ceiling
  ELSE [ceiling EXCEPT ![o] = Larger(@, now) + d]

-----------------------------------------------------------------------------
(* save(org), used by redeem, setSubscription, update and uploadLogo *)

SaveOrgReload(r) ==
  /\ pc[r] = "reload"
  /\ LET cols == Differing(orgMem[r], org[task[r].org])
     IN IF cols = {} THEN Reply(r)
        ELSE /\ dirty' = [dirty EXCEPT ![r] = cols]
             /\ GoTo(r, "update")
             /\ UNCHANGED <<task, orgMem, codeMem>>
  /\ UNCHANGED <<now, org, codes, crashes, grants, ceiling>>

\* A new name waits for uncommitted ones and is refused if another has it.
SaveOrgUpdate(r) ==
  LET o == task[r].org
      renames == "name" \in dirty[r]
  IN
  /\ pc[r] = "update"
  /\ renames => NameFree(r, orgMem[r].name)
  /\ IF renames /\ NameTaken(o, orgMem[r].name) THEN UNCHANGED org
     ELSE org' = [org EXCEPT ![o] = OrgUpdated(@, orgMem[r], dirty[r])]
  /\ Reply(r)
  /\ UNCHANGED <<now, codes, crashes, grants, ceiling>>

-----------------------------------------------------------------------------
(* PlatformService.issueCodes *)

Issue(r) ==
  /\ CanStart(r, "issue")
  /\ \E d \in Durations, n \in 1 .. MaxBatch :
       task' = [task EXCEPT ![r] = [NoTask EXCEPT !.op = "issue", !.months = d, !.left = n]]
  /\ GoTo(r, "generate")
  /\ UNCHANGED <<now, org, codes, orgMem, codeMem, dirty, crashes, grants, ceiling>>

\* generateUniqueCode: a random code no row has; after five that are taken,
\* the call fails with the codes issued so far kept.
IssueGenerate(r) ==
  /\ pc[r] = "generate"
  /\ \/ \E c \in Codes :
          /\ ~codes[c].issued
          /\ task' = [task EXCEPT ![r].code = c]
          /\ GoTo(r, "insertCode")
          /\ UNCHANGED <<orgMem, codeMem, dirty>>
     \/ /\ \E c \in Codes : codes[c].issued
        /\ Reply(r)
  /\ UNCHANGED <<now, org, codes, crashes, grants, ceiling>>

\* save(create(...)): INSERT, which the unique index refuses if another
\* request has inserted the same code since.
IssueInsert(r) ==
  LET c == task[r].code IN
  /\ pc[r] = "insertCode"
  /\ IF codes[c].issued
       THEN Reply(r) /\ UNCHANGED codes
       ELSE /\ codes' = [codes EXCEPT ![c] = NewCode(task[r].months)]
            /\ IF task[r].left = 1 THEN Reply(r)
               ELSE /\ task' = [task EXCEPT ![r].code = None, ![r].left = @ - 1]
                    /\ GoTo(r, "generate")
                    /\ UNCHANGED <<orgMem, codeMem, dirty>>
  /\ UNCHANGED <<now, org, crashes, grants, ceiling>>

-----------------------------------------------------------------------------
(* PlatformService.revokeCode *)

Revoke(r, c) ==
  /\ CanStart(r, "revoke")
  /\ codes[c].issued /\ ~codes[c].used
  /\ task' = [task EXCEPT ![r] = [NoTask EXCEPT !.op = "revoke", !.code = c]]
  /\ codeMem' = [codeMem EXCEPT ![r] = [codes[c] EXCEPT !.revoked = TRUE]]
  /\ GoTo(r, "revokeReload")
  /\ UNCHANGED <<now, org, codes, orgMem, dirty, crashes, grants, ceiling>>

RevokeReload(r) ==
  /\ pc[r] = "revokeReload"
  /\ LET cols == Differing(codeMem[r], codes[task[r].code])
     IN IF cols = {} THEN Reply(r)
        ELSE /\ dirty' = [dirty EXCEPT ![r] = cols]
             /\ GoTo(r, "revokeUpdate")
             /\ UNCHANGED <<task, orgMem, codeMem>>
  /\ UNCHANGED <<now, org, codes, crashes, grants, ceiling>>

RevokeUpdate(r) ==
  LET c == task[r].code IN
  /\ pc[r] = "revokeUpdate"
  /\ CodeFree(r, c)
  /\ codes' = [codes EXCEPT ![c] = CodeUpdated(@, codeMem[r], dirty[r])]
  /\ Reply(r)
  /\ UNCHANGED <<now, org, crashes, grants, ceiling>>

-----------------------------------------------------------------------------
(* PlatformService.redeemForOrganization *)

Redeem(r, o, c) ==
  /\ CanStart(r, "redeem")
  /\ org[o].exists
  /\ task' = [task EXCEPT ![r] = [NoTask EXCEPT !.op = "redeem", !.org = o, !.code = c]]
  /\ orgMem' = [orgMem EXCEPT ![r] = org[o]]
  /\ GoTo(r, "redeemCheck")
  /\ UNCHANGED <<now, org, codes, codeMem, dirty, crashes, grants, ceiling>>

\* An unlimited subscription needs no code of some months: it is refused.
RedeemCheck(r) ==
  LET c == task[r].code IN
  /\ pc[r] = "redeemCheck"
  /\ IF Usable(c) /\ (orgMem[r].expires = Unlimited => codes[c].months = Unlimited)
       THEN GoTo(r, "consume") /\ UNCHANGED <<task, orgMem, codeMem, dirty>>
       ELSE Reply(r)
  /\ UNCHANGED <<now, org, codes, crashes, grants, ceiling>>

\* The conditional UPDATE, and the new end computed from the entity.
RedeemConsume(r) ==
  LET c == task[r].code
      o == task[r].org
  IN
  /\ pc[r] = "consume"
  /\ CodeFree(r, c)
  /\ IF Usable(c)
       THEN /\ codes' = [codes EXCEPT ![c].used = TRUE, ![c].usedBy = o]
            /\ orgMem' = [orgMem EXCEPT ![r].expires = Renewed(@, codes[c].months, now)]
            /\ grants' = grants \union {<<c, r, o>>}
            /\ ceiling' = Credited(c, codes[c].months, o)
            /\ GoTo(r, "reload")
            /\ UNCHANGED <<task, codeMem, dirty>>
       ELSE Reply(r) /\ UNCHANGED <<codes, grants, ceiling>>
  /\ UNCHANGED <<now, org, crashes>>

-----------------------------------------------------------------------------
(* AuthService.register *)

\* The slug is looked up first; the request goes on if it is free.
Register(r, o, name, c) ==
  /\ CanStart(r, "register")
  /\ ~org[o].exists
  /\ task' = [task EXCEPT ![r] = [NoTask EXCEPT !.op = "register", !.org = o,
                                                !.name = name, !.code = c]]
  /\ GoTo(r, "name")
  /\ UNCHANGED <<now, org, codes, orgMem, codeMem, dirty, crashes, grants, ceiling>>

RegisterName(r) ==
  /\ pc[r] = "name"
  /\ IF \E o \in Orgs : org[o].exists /\ org[o].name = task[r].name
       THEN Reply(r)
       ELSE GoTo(r, "code") /\ UNCHANGED <<task, orgMem, codeMem, dirty>>
  /\ UNCHANGED <<now, org, codes, crashes, grants, ceiling>>

RegisterCode(r) ==
  /\ pc[r] = "code"
  /\ IF Usable(task[r].code)
       THEN GoTo(r, "tx") /\ UNCHANGED <<task, orgMem, codeMem, dirty>>
       ELSE Reply(r)
  /\ UNCHANGED <<now, org, codes, crashes, grants, ceiling>>

\* The transaction: its conditional UPDATE takes the row lock or finds the
\* code spent, and then everything is rolled back.
RegisterConsume(r) ==
  LET c == task[r].code IN
  /\ pc[r] = "tx"
  /\ CodeFree(r, c)
  /\ IF Usable(c)
       THEN /\ orgMem' = [orgMem EXCEPT ![r] =
                 NewOrg(task[r].name, IF codes[c].months = Unlimited THEN Unlimited
                                      ELSE now + codes[c].months)]
            /\ GoTo(r, "insertOrg")
            /\ UNCHANGED <<task, codeMem, dirty>>
       ELSE Reply(r)
  /\ UNCHANGED <<now, org, codes, crashes, grants, ceiling>>

\* INSERT of the organisation waits for another transaction's uncommitted
\* slug or name, and fails on a committed one.
RegisterInsert(r) ==
  LET o == task[r].org IN
  /\ pc[r] = "insertOrg"
  /\ SlugFree(r, o) /\ NameFree(r, task[r].name)
  /\ IF org[o].exists \/ NameTaken(o, task[r].name)
       THEN Reply(r)
       ELSE GoTo(r, "commit") /\ UNCHANGED <<task, orgMem, codeMem, dirty>>
  /\ UNCHANGED <<now, org, codes, crashes, grants, ceiling>>

\* The user, the code's usedByOrganizationId and the role are written, and
\* the transaction commits.
RegisterCommit(r) ==
  LET c == task[r].code
      o == task[r].org
  IN
  /\ pc[r] = "commit"
  /\ org' = [org EXCEPT ![o] = orgMem[r]]
  /\ codes' = [codes EXCEPT ![c].used = TRUE, ![c].usedBy = o]
  /\ grants' = grants \union {<<c, r, o>>}
  /\ ceiling' = Credited(c, codes[c].months, o)
  /\ Reply(r)
  /\ UNCHANGED <<now, crashes>>

-----------------------------------------------------------------------------
(* PlatformService.setSubscription *)

\* unlimited goes before addMonths, addMonths before expiresAt; a plan may
\* come with any of them or alone.
SetSubscription(r, o) ==
  /\ CanStart(r, "set")
  /\ org[o].exists
  /\ \E plan \in {org[o].plan} \union Plans :
       LET loaded == [org[o] EXCEPT !.plan = plan] IN
       \/ /\ plan # org[o].plan
          /\ orgMem' = [orgMem EXCEPT ![r] = loaded]
          /\ UNCHANGED ceiling
       \/ /\ orgMem' = [orgMem EXCEPT ![r] = [loaded EXCEPT !.expires = Unlimited]]
          /\ UNCHANGED ceiling
       \/ \E d \in Durations \ {Unlimited} :
            /\ orgMem' = [orgMem EXCEPT ![r] =
                            [loaded EXCEPT !.expires = Extend(@, d, now)]]
            /\ ceiling' = [ceiling EXCEPT ![o] = Larger(@, now) + d]
       \/ \E date \in SetDates :
            /\ orgMem' = [orgMem EXCEPT ![r] = [loaded EXCEPT !.expires = date]]
            /\ ceiling' = [ceiling EXCEPT ![o] = Larger(@, date)]
  /\ task' = [task EXCEPT ![r] = [NoTask EXCEPT !.op = "set", !.org = o]]
  /\ GoTo(r, "reload")
  /\ UNCHANGED <<now, org, codes, codeMem, dirty, crashes, grants>>

-----------------------------------------------------------------------------
(* OrganizationsService.update and uploadLogo, behind SubscriptionGuard *)

\* The guard reads the end of the subscription; an expired one answers 402,
\* but for a super admin.
EditProfile(r, o) ==
  /\ org[o].exists
  /\ o \in PlatformOrgs \/ ~IsExpired(org[o].expires, now)
  /\ \/ /\ CanStart(r, "rename")
        /\ \E name \in Names :
             task' = [task EXCEPT ![r] = [NoTask EXCEPT !.op = "rename", !.org = o,
                                                        !.name = name]]
     \/ /\ CanStart(r, "logo")
        /\ task' = [task EXCEPT ![r] = [NoTask EXCEPT !.op = "logo", !.org = o]]
  /\ GoTo(r, "loadOrg")
  /\ UNCHANGED <<now, org, codes, orgMem, codeMem, dirty, crashes, grants, ceiling>>

\* findById; update assigns the DTO at once, uploadLogo writes its file first.
LoadOrg(r) ==
  LET row == org[task[r].org] IN
  /\ pc[r] = "loadOrg"
  /\ \/ /\ task[r].op = "rename"
        /\ orgMem' = [orgMem EXCEPT ![r] = [row EXCEPT !.name = task[r].name]]
        /\ GoTo(r, "reload")
     \/ /\ task[r].op = "logo"
        /\ orgMem' = [orgMem EXCEPT ![r] = row]
        /\ GoTo(r, "upload")
  /\ UNCHANGED <<now, org, codes, task, codeMem, dirty, crashes, grants, ceiling>>

UploadLogo(r) ==
  /\ pc[r] = "upload"
  /\ orgMem' = [orgMem EXCEPT ![r].logo = TRUE]
  /\ GoTo(r, "reload")
  /\ UNCHANGED <<now, org, codes, task, codeMem, dirty, crashes, grants, ceiling>>

-----------------------------------------------------------------------------
(* The clock, restarts, and the whole system *)

Tick ==
  /\ now < MaxNow
  /\ now' = now + 1
  /\ UNCHANGED <<org, codes, requestVars, crashes, grants, ceiling>>

\* The process dies: every request is lost, open transactions roll back.
Crash ==
  /\ crashes < MaxCrashes
  /\ InFlight # {}
  /\ crashes' = crashes + 1
  /\ pc' = [r \in Requests |-> IF r \in InFlight THEN "done" ELSE pc[r]]
  /\ task' = [r \in Requests |-> NoTask]
  /\ orgMem' = [r \in Requests |-> None]
  /\ codeMem' = [r \in Requests |-> None]
  /\ dirty' = [r \in Requests |-> {}]
  /\ UNCHANGED <<now, org, codes, grants, ceiling>>

\* Nobody is waiting for anything.
Quiet == InFlight = {} /\ UNCHANGED vars

Arrive(r) ==
  \/ Issue(r)
  \/ \E c \in Codes : Revoke(r, c)
  \/ \E o \in Orgs, c \in Codes : Redeem(r, o, c)
  \/ \E o \in Orgs, c \in Codes, name \in Names : Register(r, o, name, c)
  \/ \E o \in Orgs : SetSubscription(r, o)
  \/ \E o \in Orgs : EditProfile(r, o)

Serve(r) ==
  \/ IssueGenerate(r) \/ IssueInsert(r)
  \/ RevokeReload(r) \/ RevokeUpdate(r)
  \/ RedeemCheck(r) \/ RedeemConsume(r)
  \/ RegisterName(r) \/ RegisterCode(r)
  \/ RegisterConsume(r) \/ RegisterInsert(r) \/ RegisterCommit(r)
  \/ LoadOrg(r) \/ UploadLogo(r)
  \/ SaveOrgReload(r) \/ SaveOrgUpdate(r)

Next ==
  \/ \E r \in Requests : Arrive(r) \/ Serve(r)
  \/ Tick \/ Crash \/ Quiet

Spec == Init /\ [][Next]_vars

-----------------------------------------------------------------------------
(* Properties *)

\* However redemptions, registrations and revocations of a code overlap, at
\* most one of them gets anything for it ("vsaka koda je enkratna",
\* registration-code.entity.ts): also after a stale save of revokeCode has
\* erased used_at again.
CodeConsumedOnce ==
  \A g, h \in grants : g[1] = h[1] => g = h

\* A revocation is final: no stale save clears revoked_at again, and a code
\* whose revocation is in the table is not consumed any more, not even by a
\* registration whose transaction is already open.
RevocationIsFinal ==
  [][\A c \in Codes : codes[c].revoked =>
       /\ codes'[c].revoked
       /\ \A g \in grants' \ grants : g[1] # c]_vars

\* Lost updates may cost an organisation months but never give it any: the
\* end of a subscription is at most what the distinct codes and the super
\* admin's changes account for (extendSubscription, redeemForOrganization,
\* setSubscription, register).
NeverOverCredited ==
  \A o \in Orgs : org[o].exists /\ org[o].expires # Unlimited
                    => org[o].expires <= ceiling[o]

\* When nothing is in flight, a limited subscription ends when its months,
\* added up, say (docs/API.md, "Meseci se prištejejo obstoječemu roku").
MonthsAddUp ==
  InFlight = {} =>
    \A o \in Orgs : org[o].exists /\ org[o].expires # Unlimited
                      => org[o].expires = ceiling[o]

\* Request q has what request r needs: the row of its code, or the slug or the
\* name of an organisation that is not committed yet.
InTheWay(q, r) ==
  /\ q # r
  /\ \/ pc[r] \in {"consume", "tx", "revokeUpdate"} /\ LocksCode(q, task[r].code)
     \/ pc[r] = "insertOrg" /\ (LocksSlug(q, task[r].org) \/ LocksName(q, task[r].name))
     \/ pc[r] = "update" /\ "name" \in dirty[r] /\ LocksName(q, orgMem[r].name)

\* The next step of a request has what it needs: the guards of Serve.
Ready(r) ==
  \/ pc[r] \in {"insertCode", "revokeReload", "redeemCheck", "name", "code", "commit",
                "upload", "reload"}
  \/ pc[r] = "generate" /\ Codes # {}
  \/ pc[r] = "loadOrg" /\ task[r].op \in {"rename", "logo"}
  \/ pc[r] \in {"consume", "tx", "revokeUpdate"} /\ CodeFree(r, task[r].code)
  \/ pc[r] = "insertOrg" /\ SlugFree(r, task[r].org) /\ NameFree(r, task[r].name)
  \/ pc[r] = "update" /\ ("name" \in dirty[r] => NameFree(r, orgMem[r].name))

\* Requests never wait for each other in a circle: one that cannot go on waits
\* for one that can, or for one that waits for such a one.  register takes the
\* row of its code first, then its slug and its name at once; a revocation, a
\* redemption, another registration and a change of the name wait for these.
NobodyStuck ==
  \A r \in InFlight :
    \/ Ready(r)
    \/ \E q \in InFlight :
         InTheWay(q, r) /\ (Ready(q) \/ \E s \in InFlight : InTheWay(s, q) /\ Ready(s))

\* Refinement under every interleaving: who holds a code is who consumed it.
CodeHolder ==
  [c \in Codes |-> IF \E g \in grants : g[1] = c
                   THEN (CHOOSE g \in grants : g[1] = c)[3] ELSE None]

Ledger == INSTANCE CodeLedger WITH
  offered   <- {c \in Codes : codes[c].issued},
  withdrawn <- {c \in Codes : codes[c].revoked},
  holder    <- CodeHolder

\* The requests implement the ledger of codes.
CodeLedgerSpec == Ledger!Spec

\* Refinement when requests do not overlap: from the consumption of a code
\* to the save or the COMMIT the new term is the one in the entity.
Founding(o) == {r \in Requests : pc[r] \in {"insertOrg", "commit"} /\ task[r].org = o}
Saving(o) == {r \in Requests : pc[r] \in {"reload", "update"} /\ task[r].org = o}

Terms ==
  [o \in Orgs |->
     IF Founding(o) \union Saving(o) # {}
       THEN orgMem[CHOOSE r \in Founding(o) \union Saving(o) : TRUE].expires
       ELSE IF org[o].exists THEN org[o].expires ELSE None]

Spent == {g[1] : g \in grants} \union
         {task[r].code : r \in {q \in Requests : pc[q] \in {"insertOrg", "commit"}}}

Promise == INSTANCE SubscriptionLedger WITH
  worth     <- [c \in Codes |-> codes[c].months],
  withdrawn <- {c \in Codes : codes[c].revoked},
  spent     <- Spent,
  term      <- Terms

\* Served one after the other and without a crash, the requests implement
\* the documented subscription ledger.
SubscriptionLedgerSpec == Promise!Spec
=============================================================================
