# GasilApp: a TLA+ model, checked and proved

GasilApp (»Plamen«) is a system for volunteer fire brigades: a NestJS backend
over PostgreSQL (`src/backend`), a React portal (`src/frontend`) and a Flutter
app (`src/mobile`). All lasting state is in the backend's database; a few flags and
the entities a handler holds between two queries live in the memory of the
server, and the browser keeps tokens in its local storage and records in a query
cache. The hard behaviour of the system is in what happens between two
queries: hardly any handler opens a transaction, most of them read an entity,
check it, change it and save it, while other handlers, the cron and restarts
come in between. The portal has the same trouble on a larger scale: forms are
filled from a cache, sent whole, and saved over what others wrote. That is what
these modules model, at the grain of one database round trip, or one task of the
browser, per action.

1. Inventory of the system
2. How the code is modelled
3. The modules
4. The runs: what each shows, within which bounds
5. Fairness
6. What is proved, and how
7. What is only model-checked; what is not modelled
8. Plan

## 1. Inventory

Paths are below `src/backend/src` unless they start with `src/`.

| Component | State | Operations | What is hard, what must hold |
|---|---|---|---|
| Registration codes, subscription terms (`modules/platform/platform.service.ts`, `common/utils/subscription.util.ts`) | `registration_codes` (months, used_at, revoked_at, who), `organizations.subscription_expires_at` | issueCodes, revokeCode, redeemForOrganization, setSubscription | A code is spent once, by a conditional UPDATE; everything around it is read-check-save. Months are added to what is left of a term. |
| Registration (`modules/auth/auth.service.ts`, register) | a new organisation, its first admin, the code | register: two checks, then one transaction | The row lock of the code, the unique slug and name make transactions wait for each other; rollback gives the code back. |
| Profile of an organisation (`modules/organizations`) | `organizations` | update, uploadLogo; `SubscriptionGuard` | Whole-entity saves of the row that also holds the end of the subscription. |
| Invoices (`modules/platform/invoices.service.ts`) | `platform_invoices` (number, paid_at, cancelled_at) | create, markPaid, cancel | Numbers without gaps or repetitions under an advisory lock; a payment is turned into months once. |
| Events (`modules/events`) | `events` with reminder_offsets, reminders_sent, is_cancelled; `event_rsvps`, `event_attendance` | create, update, cancel, remove, rsvp, markAttendance | update, cancel and the cron save the same entity whole. |
| Reminders of events (`modules/scheduler/reminders.service.ts`) | none but the listed entities | every ten minutes sendDueReminders | send, then record: restarts, refused notifications, stale saves. |
| Daily reminders (same file) | trainings.reminder_sent | at 08:00: subscriptions, vehicles, inspections and expiry of equipment, trainings | exact days only; one error ends the organisation's checks, and must not end the others'. |
| SPIN watch (`modules/spin`) | `spin_interventions`; primed, polling in memory | onModuleInit, pollInterventions | One push per intervention with several servers and restarts, none for old ones, none forgotten. |
| Notifications (`modules/notifications`) | `notifications`, `notification_reads`, users.fcm_token | create, createForRoles, sendSpinPush, markRead, clearing of invalid tokens | Called by all of the above in the middle of their work; may throw. Batches may be lost, and devices register while a mailing is under way. |
| Sessions (`modules/auth`) | users.token_version, totp columns; tokens held by clients | login, verify2fa, refresh, 2FA set-up, password reset | A refresh token outlives no change of its user's version; a backup code counts once. |
| Members (`modules/users`) | `users`, `user_roles` | create, update, deactivate, availability, changePassword | Whole-entity saves over the columns the sessions depend on, which cascade to the roles; roles are deleted and inserted outside a transaction; unique names and addresses. |
| Equipment (`modules/equipment`) | `equipment`, `equipment_assignments` | create, update, issue, return, deactivate | One open assignment per piece (partial unique index); what the unique indexes compare must be normalised; two handlers save the same piece whole. |
| Vehicles (`modules/vehicles`) | `vehicles`, drivers, equipment checks | edits, checks, list of drivers | Deadlines the daily checks read; a form that sends them whole. |
| Trainings (`modules/trainings`) | `trainings` | create, update, remove | A save of the whole row beside the marking of reminders. |
| Documents, dashboard, audit log, mail | a table each, or none | edits, reads, appends | Single-row edits; no protocol. |
| Guards, filters, interceptors, start-up, scripts | none | per request | Stateless. |
| Portal (`src/frontend/src`) | tokens and the member in the local storage; per tab the member shown, the refresh in flight, the query cache, forms | sign-in and out, calls and their repetition, routes, edit forms, answers, registration for pushes | One refresh shared by all the calls of a tab that fail, several tabs over one storage; answers that come late; forms sent whole. |
| Mobile app (`src/mobile`) | tokens, the push token | calls of the API | It competes with the browser for the one push token of a member. |
| Database schema (`src/docs/schema.sql`, migrations) | the unique indexes and column lengths | - | What decides the races above. |

Components interact in three ways: by calls (registration spends a code,
a payment extends a subscription, events and SPIN notify), by rows that several
of them save (an organisation's row is saved by the profile, redemptions,
setSubscription and payments; a member's by profile, administration and the
sessions), and by cron jobs that run beside the requests. The portal meets the
backend in its calls only, but several tabs, browsers and phones meet in the same
rows.
`PROJECT.json` lists every component with its status, and under `hazards` each
place where the code is exposed to an order of steps that a test would hardly
produce, with the properties that watch it.

## 2. How the code is modelled

*Processes.* Each request, pass of a cron job or server is a process with a
program counter. Node runs the code between two awaits without interruption, so
an action is one database round trip (or fetch, or push) together with the
synchronous code after it, early returns and errors included. A request is
served once; the number of requests bounds a behaviour.

*`repository.save(entity)`.* TypeORM reads the row again, compares it with the
entity in memory and UPDATEs the columns that differ; if the row is gone it
INSERTs. The models have a step for each (`…Reload`, `…Update`, `Insert`), so a
save of an entity that was read some time ago puts back each column that
another handler has changed before the reload, and leaves alone what changes
after it. A conditional UPDATE is one atomic step. These steps are external to
`src/` and marked so in the map.

*Transactions.* READ COMMITTED. A conditional UPDATE inside the transaction of
`register` holds the lock on its row until COMMIT; unique values that are not
committed yet make others wait. Advisory locks are held to the end of the
transaction.

*Crashes.* A restart drops every process's memory and rolls back open
transactions; what was saved stays. Errors of the database other than a refused
constraint, and of the network other than an unreachable feed, are not modelled:
for the handler they cut off they act like a restart between its steps.

*Time* counts months (subscriptions, invoices) or the unit in which offsets are
given (events), or days (daily checks). *Identities, names, texts* are model values. *History
variables*, named in the VARIABLES comments, are never read by an action.

Some histories mark the states in which a promise is known not to hold:
`contended` (Events, Equipment) holds the events, pieces and open assignments
that two handlers had in memory at the same time, and the events whose handler a
restart cut off between a save and a notification; `unsettled` (Spin) says that the first filling of the table was
taken for complete before it was; `undone` and `bare` (Accounts) that a save has
put back an older `token_version`, and that a second factor was put in force after
its secret had been removed. `moved` (Notices) holds the members who have changed
groups since a notification reached them. `misled` (Deadlines), `putBack` and `whole`
(Membership), `missed` (Forms) do the same for the parts named below. The properties that mention them say what
holds outside of these states; the hazards name the lines that lead there.

## 3. The modules

| Module | Models | Extends / instantiates |
|---|---|---|
| `SubscriptionTerms` | `extendSubscription`, `isExpired`: the arithmetic of terms, shared | - |
| `Subscriptions` | codes, redemption, registration, setSubscription, profile and logo | SubscriptionTerms; CodeLedger, SubscriptionLedger |
| `CodeLedger` | abstract: offered, withdrawn, spent once | - |
| `SubscriptionLedger` | abstract: every operation on terms in one step | - |
| `Invoices` | create, markPaid, cancel, setSubscription beside them | SubscriptionTerms; InvoiceLedger |
| `InvoiceLedger` | abstract: the documented life of an invoice | - |
| `Events` | create, update, cancel, remove, the cron's reminders | - |
| `Spin` | the SPIN watch on several servers | - |
| `Equipment` | pieces, their QR codes and tags, assignments to members | Custody |
| `Custody` | abstract: a piece is given to one member at a time, and taken back | - |
| `Accounts` | one account: sign-in, second factor, passwords, saves of the profile | - |
| `Portal` | the session of the portal in the tabs of one browser; the push token | - |
| `Forms` | the five edit forms of the portal over the query cache, and their PATCH handlers | - |
| `Responses` | rsvp, attendance, reads of notifications | - |
| `Notices` | the mailing of a notification, and the devices | - |
| `Deadlines` | the daily checks, and the handlers that change deadlines | - |
| `Membership` | creation and changes of members: names, addresses, roles | - |
| `MCSubscriptions`, `MCInvoices`, `MCEvents`, `MCSpin`, `MCEquipment`, `MCAccounts` | instances for TLC | the module of the name |
| `MCOffice` | instances of the six parts above for TLC; a behaviour is one of any of them | Portal, Forms, Responses, Notices, Deadlines, Membership |
| `SubscriptionsProofs`, `InvoicesProofs`, `EventsProofs`, `SpinProofs`, `EquipmentProofs`, `AccountsProofs` | theorems | the module of the name, TLAPS |
| `OfficeProofs` | theorems about four of the six parts, and about the office they make up | MCOffice, DailyProofs |
| `DailyProofs` | theorems about the two others | Responses, Deadlines, TLAPS |

**Subscriptions.** `org` and `codes` are the two tables, `orgMem` and `codeMem`
the entities a request holds, `dirty` the columns its save will write.
`Redeem → RedeemCheck → RedeemConsume → SaveOrgReload → SaveOrgUpdate` is
`redeemForOrganization`; `Register → RegisterName → RegisterCode →
RegisterConsume → RegisterInsert → RegisterCommit` is `register`;
`Issue → (IssueGenerate → IssueInsert)*` issues a batch; `Revoke`,
`RevokeReload`, `RevokeUpdate` revoke one. `EditProfile`, `UploadLogo` and
`SetSubscription` end in the same save of the organisation. The organisations in
`PlatformOrgs` are edited by an administrator of the platform, whom the guard lets
pass after the term has ended. The history
`grants` holds who got something for which code; `ceiling` the latest end of a
subscription that distinct codes and admins account for. A redemption that is
cut off after its code is consumed, or whose save is refused, burns the code:
that is what the code does, and `NeverOverCredited` counts it.

**Invoices.** The transaction of `create` is `CreateLock`, `CreateNumber`,
`CreateInsert`: the lock belongs to the year, `LastSeq` finds the greatest
number as the code does, by text order, with `Base` and `Capacity` standing for
the decimal digits and the padding to three. `MarkPaid` loads the invoice and
goes on to the save of the organisation and then of the invoice; `Cancel` saves
the invoice only. `MaxOverlap` bounds how many payments, cancellations and
changes of a subscription overlap.

**Events.** `event` is the table; a deleted row is told from one that never was.
A pass of the cron lists the due events at once (`List`) and then, for one
after another in any order, sends (`Remind`) and saves the entity as it was listed
(`Reload`, `Update` or `Insert`). A notification is one step; its INSERT refuses
a title that does not fit (`LongTitled`, `RemindFails`). An event has no end of
its own (`ends_at` NULL): removal then depends on its start.

**Spin.** `stored` is the table with its unique index; `items`, `saved`,
`toPush` are the lists of a poll, `primed` the flag, and `polling` is
`pc # "idle"`. The feed changes at any time. Which intervention concerns which
organisation is the constant `Concerns`.

**Equipment.** `piece` and `assignment` are the two tables, `mem` and `open` the
two entities a request holds. `Issue → CheckOpen → Give` is `issue`, `Return →
FindOpen → Take` is `returnItem`; both go on to the save of the piece (`Reload`,
`Update`) when a condition is recorded. `EditPiece → CheckNumber → CheckTag` asks
for clashes as `update` does, before the same save; `Create → CheckNumber →
Insert` is `create`. A tag is a physical tag and the spelling its UID was entered
in. Each assignment is identified by the request that made it. The abstract
`Custody` sees, of an assignment, its piece and member (`Of`) and whether it is
open (`Out`).

**Accounts.** `row` is the member's row, `seen` what each request has read of it.
`LoginLoad → SignIn` is `login` without a second factor, `LoginPending`, then
`VerifyLoad → (Spend) → SignIn` with one; a TOTP code goes straight to `SignIn`.
`SetupLoad → Setup`, `EnableLoad → Enable`, `DisableLoad → (Spend) → Disable`,
`ResetLoad → Reset` are the handlers of those names; `ForgotPassword` and
`ChangePassword` write nothing that depends on what they read and are one step.
`SaveLoad → Reload → Update` is each writer of `UsersService`. A refresh token is
the version it carries; the histories add when its sign-in read the row (`epoch`,
the number of revocations) and whether it passed a second factor. `refresh` is
`Usable`: it exchanges a token for one with the same version. A wrong code, an
expired token and a restart all end a request where it is (`Refuse`).

**Portal.** `stored` is the local storage (whose session, and whether its access
token is still accepted), `tabs` what each tab shows, `renewal` its
`refreshPromise`, `calls` the requests under way. `Request`, `Answer`, `Denied`,
`GivenUp`, `Renewed`, `NotRenewed` are the two interceptors of `client.ts` and
`refreshAccessToken`; `SignIn`, `EnterCode`, `SignOut`, `Reload` the auth store;
`LoadOrg`, `Go`, `Redirect` the layout and the routes, which decide by what the
cache of the tab still holds. A refresh that is under way when the session ends is
an `orphan`. `RegisterBrowser` and `Phone` write the member's one push token. The
server is reduced to its answers, since `Accounts` has the rest.

**Forms.** `row` is the record, `cached` the entry of the query cache, `fetch` the
GET in flight, `form` the boxes on the screen, `patch` the PATCH at the server. A
fetch has three steps (`Ask`, `FetchRead`, `FetchArrives` or `FetchFails`), and
`Invalidate` marks the cache stale and asks anew, which drops the answer that was
on its way if the page shows the record. `Submit` sends the whole form, with
`WhenEmpty` telling for each page what an empty box becomes: nothing (the column
stays) or NULL. `PatchLoad → PatchReload → PatchUpdate` is the handler and its save. The five
pages differ in what they fill in by themselves (`Defaults`), what they show
before the record is there, and what lies beside the form (drivers, a logo).

**Responses.** `rows` are the three tables, one row per member and table; `taps`
the requests, each with what it `says` for whom and what is `left` of its list.
`Find → Insert`, or `Find → SaveReload → SaveUpdate`, is the upsert of `rsvp` and
of each entry of `markAttendance`; `markRead` inserts only. The history `told` has
what a row may hold for all its member was told.

**Notices.** `mailings` are the notifications on their way: `Create`,
`CreateForRoles` or `SendSpinPush`, `Resolve` (the members and their tokens),
`SendBatch` (batches of `FcmBatch` tokens, of which FCM may lose one), `CleanUp`
(the tokens it rejected), `Stamp`. `deviceOf` is `users.fcm_token`, which
`UpdateFcmToken` changes meanwhile; `Retire` removes an app. `groups` is what of a
member decides whom a notification is meant for (status, leading roles, being
active), which `Regroup` changes. `Listed` is `findMine`: it takes the newest
`ListLength` notifications of the society and keeps those that are meant for the
member as he is by then.

**Deadlines.** `job` is the run of the day: the society, the kind it is at, what it
found. `FindDue`, `TellOffice`, `TellHolder`, `MarkTrainings` are the calls it makes;
`CheckFails` ends the checks of one society. The window of a kind is `Announced`,
counted in days. `LoadTraining → ReloadTraining → WriteTraining` is
`TrainingsService.update`, with the INSERT of a row that was removed meanwhile;
changes to other deadlines are one step. The history `misled` has the
trainings whose mark was not reached or was put back.

**Membership.** `members` are the rows of `users` and `user_roles`. `update` is
`ReadMember → CheckEmail → Reread → SaveMember → DeleteRoles → InsertRoles`,
`create` is `CreateMember → GenerateUsername → InsertMember`. A save compares the
roles it read with those in the table: it inserts again what has gone (`cascade`)
and tries to detach what has come, which a NOT NULL column refuses (`Detachable`).
`BreakOff` ends a request anywhere.

## 4. The runs

Every bound is a CONSTANT in the `.cfg`.

| Run | Checks | Bounds |
|---|---|---|
| `subscriptions_concurrent` | TypeOK, CodeConsumedOnce, NeverOverCredited, NobodyStuck, CodeLedgerSpec | 3 requests of 7 kinds that overlap freely, 2 codes, 2 organisations and 2 names, expiry within the run, 1 restart. Three requests are enough for a spender, a revoker and a third that meets the leftovers, and for two registrations and a renaming that wait for each other's code, slug and name; a code's conflicts are pairwise. |
| `subscriptions_serial` | SubscriptionLedgerSpec | all seven operations one after the other, unlimited and limited codes, terms that run out; no restart |
| `subscriptions_lost_months` | MonthsAddUp: **violated** | one redemption and one edit of the profile |
| `invoices_settle` | TypeOK, NumbersConsecutive, InvoiceLedgerSpec, RequestsEnd (fair) | 4 requests, 3 invoices, a turn of the year, 1 restart; room for 3 numbers a year; settlements do not overlap each other |
| `invoices_paid_twice` | PaymentCountsOnce: **violated** | two payments of one invoice |
| `events_reminders` | TypeOK, RecordedOnlyWhenSent, NoRepetition, CancelledForGood, RemindersGoOutUnlessRefused (fair) | 2 requests of 4 kinds beside the cron, 2 events, of which one is created in the run and has a long title, 2 offsets, 1 restart. Conflicts are between two holders of one event. |
| `spin_polls` | TypeOK, PushedOnce, NoFlood, NewOnesGoOut (fair) | 2 servers, 2 old interventions and 1 new one, 1 restart. No deadlock check: once the feed has emptied for good, polls end where they began. |
| `equipment_custody` | TypeOK, FoundByItsMarks, CustodySpec, HistoryStays | 4 requests of 5 kinds that overlap freely, 2 pieces of which 1 is there at the start, 2 members, 2 numbers, 1 tag, 3 edits, 1 restart. A tag has 3 spellings: as scans read it, as creations enter it and as edits enter it. Four requests are an issue, two returns that overlap and an issue in between. No deadlock check: once all requests are served, nothing moves. |
| `accounts_sessions` | TypeOK, RevokedStayRevoked, SecondFactorInForce, LinkResetsOnce | 2 requests at a time of 8 kinds, 5 in all, on one account, besides any number of password changes; 3 revocations, 2 secrets, 1 link, lists of 2 backup codes. Every race here is between one that has read the row and others that write it meanwhile; the five are a setup, an enablement, and three that use or change what it made. No deadlock check: when the requests are used up, nothing moves. |
| `accounts_spent_code` | SpentCodesGone: **violated** | 2 requests at a time, 4 in all, 1 enablement with 2 backup codes |
| `office` | OfficeTypeOK; portal: WaitersAreServed, SignedOutStays; forms: OwnSavesShown, OnlyTypedChanges, TypingStays; responses: AnswersStand; notices: SentToAll, LiveTokensKept; deadlines: NoDailyRepeat, AllDueTold; members: RolesAsSent | See below. No deadlock check: each part stops when its bounds are used up. |
| `portal_push` | PushEndsAtSignOut: **violated** | 2 members, 2 tabs, 2 sessions |

Bounds of `office`, part by part. *Portal*: two members, two tabs, two calls under
way, two sign-ins, two expiries: a tab in which two calls share a refresh while
the other tab signs out and another member in. *Forms*: each of the five pages, a
text and a deadline that are empty or filled, one save by this browser and one
change by others: a save that a GET overtakes, and a record that changes under the
form. *Responses*: two members, one of whom has answered before, two requests, one
restart. *Notices*: two members (one operative and leading, one of the youth and
without SPIN) who may be deactivated, two devices in batches of one, two mailings
that overlap, to the leadership, to chosen members or of SPIN, a list of one
notification, three changes of devices or members: as many as it takes to have a
token rejected and another one registered meanwhile.
*Deadlines*: two societies, five things of four kinds, two days, two edits, one
mishap. *Members*: three people of whom one is there, two roles, two addresses, two
requests, one break; the races are pairwise.

What the passing runs show. A code gives something to one request at most, under
any overlap and after any restart, and never once its revocation is in the table;
no interleaving of stale saves gives an organisation months that no code, admin
or payment accounts for; served one at a time, codes and terms do what the
documentation says. Invoices of a year are numbered 1, 2, ... while the padding has
room for them. No reminder is
recorded that was not sent, and outside of contention none is repeated and no
cancelled or removed event comes back. Nobody is alarmed twice for one
intervention. A piece of equipment is with one member at most under any overlap,
as the decision record ADR-009 (`src/docs/DECISIONS.md`) wants it. A change of
password or of the second factor ends every session, also one that is being
opened, as ADR-011 wants it, and a reset link is used up; while a second factor
is in force, sessions have passed it, with the two exceptions named below.

A call of the portal that waits for a refresh is never left without one under
way, and once a session has ended in one tab no other tab brings it back, but for a
refresh that was already under way. A form changes what was typed into it and nothing else, keeps
what is being typed, and shows one's own saves. Whoever was told that an answer
was recorded finds it recorded, whatever overlapped or broke. A
notification that counts as sent was tried on every device, and clearing dead
tokens costs nobody a live one unless the message was too long; whom it reached
finds it in the list as long as it is among the newest there and the member is in
the group it was meant for. Each society hears of everything that falls due on the
day of a run, whatever goes wrong in the others, and hears of it once unless a
mark was not reached or was put back. A member whose roles one request at a time
has set, without an error on its way, has the roles that were sent last, and
besides them those a save put back.

What the violated properties show (`findings` in `PROJECT.json` quotes the
lines): a stale save of an organisation's profile loses the months of a
redemption; two overlapping payments of an invoice extend the subscription twice;
of two sign-ins that spend different backup codes of the list both have read, the
second puts the first's code back, to be used again;
a browser goes on receiving the pushes of a member who has signed out of it.

Observed while modelling, without a run of their own: the text order of invoice
numbers finds the wrong maximum once a number has more digits than the padding, so
that after the thousandth invoice of a year no further one can be issued; a tag entered with separators
when a piece is created is stored as it was entered, unlike every scan reads it
(`AsEntered`, the exception in `FoundByItsMarks`); clearing a text box of a form
changes nothing, since `|| undefined` leaves the column out
(`VehicleFormPage.tsx:110` has it for the plate, the other forms likewise), which
the comment above it describes as the bug that was repaired for deadlines. A save
of a member that overlaps a change of the roles inserts the roles again that were taken away, ORG_ADMIN
among them, although `users.service.ts:117-125` has only an administrator assign it.

Some promises hold only with the conditions they carry. Dropping `~undone` from
`RevokedStayRevoked` is refuted by a member's own change of availability that
overlaps a change of the password: token_version is put back, and old refresh
tokens work; the same save refutes `SecondFactorInForce` without its `~undone`.
Without `~bare` it is refuted by an enablement that read the row before the second
factor was enabled and disabled by others: it puts a second factor without a secret
in force, sign-in does not ask for it and no code can turn it off. That the secret
in force is the one whose code was checked is promised by no property, since a
setup, or another enablement, between the read and the UPDATE of `enable2fa`
replaces it. `SentToAll` speaks of the list only for members who have not changed
groups and while the list reaches back so far: `findMine` asks for the status and
the roles of the moment, and looks at the newest hundred notifications of the society
before it asks for whom they are. One event whose title is longer than 244
characters stops the reminders of the events after it: hence the condition of
`RemindersGoOutUnlessRefused`. When it is longer than 236, `cancel` saves the
cancellation before its notification is refused, and the event can be removed
although no member was told of it: hence `LongTitled` in `CancelledForGood`, which
is refuted without it (`events.service.ts:311-312` promises the notification).

That only unspent codes are withdrawn, which `SubscriptionLedgerSpec` includes,
holds in `subscriptions_serial` only: when a revocation overlaps a redemption, the
stale save of `revokeCode` revokes a code somebody just spent (a hazard in
`PROJECT.json`). In the same way `RolesAsSent` allows what `putBack` holds, and
asks for all of the roles only of a request that was `whole`; `OwnSavesShown`
allows an answer that the browser could not drop, because no page was watching
the record; and `NoDailyRepeat` leaves out `misled` trainings.

Each property of a passing run has a mutant in the module, an operator named
after a plausible mistake (`ExtendFromToday`, `RecordedOne`, `SavedAnyway`,
`InvalidateKeeps`, ...), under which it fails.

## 5. Fairness

`FairSpec` of Invoices, Events and Spin assumes weak fairness of every step the server takes
for a request it has begun, and of the cron: Node's event loop and the
connection pool serve every callback, PostgreSQL grants a lock that becomes
free, and every fetch has a timeout. Weak fairness is enough, since a lock or
unique value a request waits for is not taken again by infinitely many others:
each request is served once. Users, publications in the feed, restarts and the
clock are not fair: nobody must come, and time need not reach the next minute.
`RemindersGoOutUnlessRefused` and `NewOnesGoOut` are thus about every moment at
which something is due, and end with the due date, or when the item leaves the
feed. The six parts of `office` state safety only: their actors are people,
browsers and an external service, none of which must go on. `WaitersAreServed`
says as an invariant what keeps a call of the portal from waiting for nothing, and
`NobodyStuck` what keeps the requests on codes and organisations from waiting for
each other: as an invariant it also tells a circle of two of them while a third goes
on, and its proof needs no fairness.

## 6. What is proved

The proofs hold for any sets of organisations, codes, events, requests, servers,
members, tabs and devices, and for any bounds. They rest on the named ASSUMEs of the
modules (constants have their types, `None` is not a row), which TLC evaluates in
each run. Every invariant and action property of the passing runs, and each of
the four refinements, is a theorem.

Some theorems have a hypothesis, because the code keeps the promise only there:
`Room` (no more invoices than the padding aligns) and `Serial` (at most one
request in flight and no restart for subscriptions; at most one payment,
cancellation, change of a subscription or restart at a time for invoices, whose
creations overlap freely). `NoCircle` asks that there are codes at all
(`Codes # {}`), or a batch could never be issued. Each is met by a small instance:
`Serial` by `subscriptions_serial`, `Room` and `Serial` by `invoices_settle`. What
overlaps do to subscriptions and invoices is what the violation runs show.

| Theorem | States | Argument |
|---|---|---|
| `SubscriptionsProofs!TypeCorrect` | TypeOK | `TypeInv` adds what a request holds at each place (`RequestOK`). |
| `SubscriptionsProofs!ConsumedOnce` | CodeConsumedOnce | A stale save of `revokeCode` can erase `used_at`, so "used" is not inductive. `CodeInv`: a code with a grant is used or revoked (`SpentIsDead`), a request on its way to a revocation carries an entity that revokes (`RevokeWillRevoke`), an open transaction holds the lock of a code that is usable but for itself (`TxHoldsUsable`). |
| `SubscriptionsProofs!RevocationFinal` | A revocation in the table stays, and nobody gets anything for the code afterwards | Each step changes the table of codes in one of a few ways (`CodeStep`). |
| `SubscriptionsProofs!ImplementsCodeLedger` | CodeLedgerSpec | The same case split maps each step to Offer, Withdraw, Spend or a stutter of the abstract ledger. |
| `SubscriptionsProofs!NotOverCredited` | NeverOverCredited | `CreditInv`: not only the rows but every entity in the memory of a request ends within the ceiling; hence whatever stale copy is written, the row stays within it. |
| `SubscriptionsProofs!ImplementsSubscriptionLedger` | SubscriptionLedgerSpec, under `Serial` | `SerialInv`: one request is in flight (`Alone`), and what it holds is still so: its entity is the row but for the columns it is about to save (`Fresh`). From the consumption of a code to the save, or the COMMIT of a registration, the abstract term is the one in the entity (`Terms`, `Spent`). |
| `SubscriptionsProofs!WorkRunsOut`, `NoCircle` | A request has a bounded number of steps left; NobodyStuck | `Work` counts the steps a request has left; no step of another raises it. A request that is not `Ready` waits for the row of a code, a slug or a name (`InTheWay`); slugs and names are taken after the code, and held to COMMIT only, so whoever is in the way is ready, or waits for one who is. |
| `InvoicesProofs!TypeCorrect`, `Consecutive`, `FreeUntilOverflow` | TypeOK, NumbersConsecutive, NumberIsFree | Under `Room` (no more invoices than the padding aligns). `NumInv`: holders of a year's lock are apart, identities about to be inserted are fresh, the years are numbered. `LastSeqIs` shows that the text order finds the maximum while there is room. |
| `InvoicesProofs!ImplementsInvoiceLedger` | InvoiceLedgerSpec, under `Room` and `Serial` | The abstract variables are `Owners`, `Billed`, `Ends`. The one settlement under way holds the row of its invoice but for the column it sets (`EntityIs`); from the computation of the new end on, its payment counts as made. Creations change the ledger only with their COMMIT. |
| `EventsProofs!TypeCorrect` | TypeOK | `ControlInv`: a process on its way to the table has a task and an entity. |
| `EventsProofs!SentBeforeRecorded` | RecordedOnlyWhenSent | Rows may be overwritten by stale entities: `MemorySent` says that entities in memory and in a pass's list also record only what was sent. |
| `EventsProofs!NeverRepeated`, `CancelledStands` | NoRepetition, CancelledForGood | `KeepInv`: an event that was never contended has one holder at most (`KeptOne`), whose entity is the row but for the change under way, and what differs is about to be written (`HolderOK`); what was reminded of is in the row or in the hands of that holder (`ReminderKept`), a cancellation was announced or is about to be (`CancelKept`). Steps of others leave such an event alone (`AwayFrom`). |
| `SpinProofs!TypeCorrect`, `NeverTwice` | TypeOK, PushedOnce | `PushInv`: a stored item is in the list of one server at most, and has not been pushed while it is there. |
| `SpinProofs!NoOldPushed` | NoFlood | `FillInv`: while a server fills, each old item of the feed is in the table or in its list; when one is primed, the table has them all. |
| `SpinProofs!NothingForgotten` | The half of NewOnesGoOut that is safety: each push a stored item calls for is sent, ahead of a running server, of a first filling, or cut off by a restart | `ListsInUse`: a list is only filled where the next step empties it, so Match overwrites no push and no poll begins on the rest of another; `AllAccounted` itself is then inductive. |
| `AccountsProofs!TypeCorrect` | TypeOK | A save puts back a version that was read, hence none that is ahead (`ReadInv`). |
| `AccountsProofs!RevokedForGood` | RevokedStayRevoked | `VersionInv`: until a save puts back an older version, token_version is the number of revocations, and every token carries the number at its sign-in. |
| `AccountsProofs!FactorPassed` | SecondFactorInForce | `FactorInv`, which adds that no sign-in without a second factor is under way in the epoch in which one is in force. A save leaves totp_enabled_at alone unless it also puts back the version (last part of `VersionOK`). |
| `AccountsProofs!LinkUsedUp` | LinkResetsOnce | Needs only that a new link is none of the old ones; saves cannot touch it. |
| `EquipmentProofs!TypeCorrect` | TypeOK | With `RequestOK`: what a request holds at each place, and that it has not made its assignment before. |
| `EquipmentProofs!ImplementsCustody` | CustodySpec | `Give` asks the index in the step that inserts, `Take` sets returned_at only: each step is a Give, a TakeBack or a stutter of Custody. |
| `EquipmentProofs!HistoryPermanent` | HistoryStays | `HistoryInv`: a return about to close an assignment finds it open, and two returns hold the same one only if it is marked as contended. |
| `EquipmentProofs!QrKept`, `FoundByMarks` | QrFollowsNumber, FoundByItsMarks | `MarksInv`: a piece that was never contended has one holder at most, and its save writes the entity whole (`UpdatedIsEntity`). `TagsInv`: a tag is normal, or as a creation entered it, in every row and entity, and rows stay apart because the indexes are asked in the step that writes (`RowsApart`). |
| `OfficeProofs!PortalTypeCorrect`, `NoneLeftWaiting` | PortalTypeOK, WaitersAreServed | `PortalInv`: a call belongs to a tab, and one that waits has the refresh of its tab under way. |
| `OfficeProofs!SignOutForAllTabs` | SignedOutStays | The same invariant: a refresh under way is an orphan, or is that of the member who is in the local storage (`RenewalOwned`). |
| `OfficeProofs!SentToEverybody`, `TokensKept` | SentToAll, LiveTokensKept | `MailingOK`: a mailing that is past its batches has none left, whom it reached is in its audience or has moved since, and what it noted as rejected is retired unless the message is too long. |
| `OfficeProofs!NoOldRecordShown` | OwnSavesShown | `FormsInv`: an answer that was read is not older than the cache, and one older than the last save is marked as missed (`FetchInStep`); no version is ahead of the record (`Earlier`). |
| `OfficeProofs!OnlyTypedSaved`, `TypingKept` | OnlyTypedChanges, TypingStays | The same invariant: each copy of the record, in the cache, an answer, the form or the request, agrees with it in every column that has not changed since, but for what was typed or filled in (`AsAt`), so a save finds such a column different only if somebody changed it; the form is as old as the cache (`FormInStep`). |
| `OfficeProofs!RolesStand` | RolesAsSent | `MembersInv`: requests that set the roles of the same member know of each other (`KnowsOthers`); no row has a role that nobody sent or put back (`NoneUnsent`); between DELETE and INSERT a request that is alone finds only what was put back (`NoneBefore`), and afterwards all it sent is there (`AllThere`). |
| `DailyProofs!AnswersKept` | AnswersStand | `ResponsesInv`: every row holds what its member was told, or what a request under way has saved (`RowsRight`); requests about the same member know of each other (`NoneMet`), so what one that is alone has saved is still there when it answers (`AloneRight`), and a row that it found is gone only with the event (`RowThere`). |
| `DailyProofs!RemindersSpaced` | NoDailyRepeat | `DeadlinesInv`: what a check is about to announce is owed on that day; a training that was announced is marked, gone or about to be marked (`MarkFollows`), hence not found again (`FoundOnce`). |
| `DailyProofs!DueIsTold` | AllDueTold | `RunInv`: of the kinds and societies the run has passed, all that is due is told (`PassedTold`); in the kind it is at, what is due was found, and is told or still owed (`CheckHolds`); no training loses its reminder to a mark of this day (`NewMarks`). |
| `OfficeProofs!NoticesTypeCorrect`, `FormsTypeCorrect`, `DailyProofs!ResponsesTypeCorrect`, `DeadlinesTypeCorrect` | the conjuncts of OfficeTypeOK | From the invariants above, which include the types. |
| `OfficeProofs!MembersTypeCorrect` | MembersTypeOK: types, and nobody shares a user name, an address or a role row | `KeysInv`: the keys hold in the table because its indexes are asked in the step that writes (`Apart`); a role is once in the rows (`OneOfEach`) and once in every entity and list of rows to insert (`ReadOnce`). |
| `OfficeProofs!OfficeTypeCorrect`, `OfficeKeepsPromises` | OfficeTypeOK; all other properties of the run `office` | `EachPart`: a behaviour of the office is one of each part, which moves or stutters, so the theorems about the parts carry over. |

## 7. What is only model-checked, what is left out

Only model-checked: the liveness properties, since the prover has no fairness
(`RequestsEnd` of Invoices, `RemindersGoOutUnlessRefused`, `NewOnesGoOut`). Of the
last, what is safety in it is proved (`NothingForgotten`); that the steps which
remain are taken is left to TLC. For Subscriptions the two halves of an answer that
are safety are proved (`WorkRunsOut`, `NoCircle`), and no run states the
whole. Refuted, and hence not proved: `MonthsAddUp`, `PaymentCountsOnce`,
`SpentCodesGone` and `PushEndsAtSignOut`.

Not modelled, by choice: texts, amounts, formatting and validation of input,
permissions, reads that decide nothing, files and mail. Of the parsing in SPIN
only its result. Documents, the dashboard, the audit log, mail, start-up and
deployment keep no state that another step depends on. The lists of the portal,
and the pages of the platform, show what they read and send one request per
dialogue, whose handlers are modelled. Of the mobile app only the push token is
modelled: its screens send the same requests as the portal's. Not modelled
either: the rows of drivers and of equipment checks, the choice between several
societies with the same name of a member at sign-in, and who may give which role.
An intervention whose fields do not fit their columns is left out of `Spin`:
`saveNew` skips it in each poll, as it does after any error of an INSERT.

Coarser than the code, and stated here so that nobody reads more into the models:
`LongTitled` is one set, although the three notifications put prefixes of different
lengths before a title; `SetSubscription` of `Invoices` reads and saves the
organisation in one step (in `Subscriptions` it has its steps); a tab that loses its
session (`NotRenewed`, `GivenUp`) is replaced at once, while a browser lets scripts
run on until it has navigated; the answer to a request of `Responses` comes with
its last statement, or is lost there; who has switched SPIN off stays so.

## 8. Plan

1. The mobile app's refresh (`api_client.dart`) as a second instance of the
   protocol of `Portal`, without tabs.
2. Drivers as rows under a vehicle: the unique index, and what a save of the vehicle
   that has read them does when one was added since.
3. Proofs: the safety halves of the `RequestsEnd` of Invoices and of
   `RemindersGoOutUnlessRefused`, as for Subscriptions and Spin.
