-------------------------------- MODULE Events --------------------------------
(***************************************************************************)
(* Events and their reminders (EventsService, called by the controller and *)
(* every ten minutes by RemindersService.runEventReminders).               *)
(*                                                                         *)
(* One action per database round trip, save = reload + INSERT or UPDATE of *)
(* the columns that differ.  A pass of the cron holds the entities it has  *)
(* listed while it sends one notification after another.  A notification   *)
(* is one step: what happens inside NotificationsService is left out, but  *)
(* for the title it refuses.  An event ends when it starts (endsAt is      *)
(* NULL).  Titles, places and target groups carry no control.              *)
(***************************************************************************)
EXTENDS Naturals, FiniteSets

CONSTANTS
  Events,         \* identities of the events that may ever be created
  Planned,        \* events that exist at the start
  LongTitled,     \* events whose title fits in the table, but not the title
                  \* of a notification, which is longer by a prefix
  Offsets,        \* REMINDER_OFFSET_MINUTES
  Starts,         \* values of starts_at that are entered
  OffsetChoices,  \* values of reminder_offsets that are entered
  Requests,       \* requests; each is served once
  Passes,         \* passes of the cron that may overlap
  Ops,            \* the operations a run explores
  MaxNow,         \* bound on the clock
  MaxCrashes,     \* bound on restarts of the server
  Unused,         \* an identity without a row, yet
  Deleted         \* an identity that had a row

AllOps == {"create", "update", "cancel", "remove"}

ASSUME EventsAssumption ==
  /\ LongTitled \subseteq Events /\ Planned \subseteq Events
  /\ Offsets \subseteq Nat \ {0} /\ Starts \subseteq Nat
  /\ OffsetChoices \subseteq SUBSET Offsets
  /\ Ops \subseteq AllOps
  /\ Requests \intersect Passes = {}
  /\ MaxNow \in Nat /\ MaxCrashes \in Nat

VARIABLES
  now,        \* the clock
  event,      \* table events
  pc,         \* where each request and each pass is
  task,       \* the event it is about to save, remove or announce, and why
  mem,        \* the Event entity it is about to save
  dirty,      \* the columns its save is about to UPDATE
  listed,     \* the entities a pass has found due and not reminded of yet
  since,      \* the instant a pass compares with
  crashes,    \* restarts so far
  calledOff,  \* history: the events whose cancellation was announced
  reminded,   \* history: the offsets of each event a reminder was sent for
  contended   \* history: events of which two entities were held at once, or
              \* whose handler was cut off between a save and a notification

processVars == <<pc, task, mem, dirty>>
vars == <<now, event, processVars, listed, since, crashes, calledOff, reminded, contended>>

Processes == Requests \union Passes

Row == [start: Nat, cancelled: BOOLEAN, offsets: SUBSET Offsets, sent: SUBSET Offsets]
NewRow == [start: Starts, cancelled: {FALSE}, offsets: OffsetChoices, sent: {{}}]
Columns == {"start", "cancelled", "offsets", "sent"}

ASSUME NoRowAssumption == Unused \notin Row /\ Deleted \notin Row /\ Unused # Deleted

Task == [op: {"new", "update", "cancelled", "remove", "remind"}, e: Events]
NoTask == [op |-> "none", e |-> Unused]
PCs == {"new", "reload", "insert", "update", "delete", "announce", "done", "idle", "next"}

\* Every variable keeps its type.
TypeOK ==
  /\ now \in Nat
  /\ event \in [Events -> Row \union {Unused, Deleted}]
  /\ pc \in [Processes -> PCs]
  /\ task \in [Processes -> Task \union {NoTask}]
  /\ mem \in [Processes -> Row \union {Unused}]
  /\ dirty \in [Processes -> SUBSET Columns]
  /\ listed \in [Passes -> [Events -> Row \union {Unused}]]
  /\ since \in [Passes -> Nat]
  /\ crashes \in Nat
  /\ calledOff \subseteq Events
  /\ reminded \in [Events -> SUBSET Offsets]
  /\ contended \subseteq Events

NothingListed == [e \in Events |-> Unused]

Init ==
  /\ now = 0
  /\ event \in [Events -> NewRow \union {Unused}]
  /\ \A e \in Events : event[e] # Unused <=> e \in Planned
  /\ pc = [x \in Processes |-> IF x \in Passes THEN "idle" ELSE "new"]
  /\ task = [x \in Processes |-> NoTask]
  /\ mem = [x \in Processes |-> Unused]
  /\ dirty = [x \in Processes |-> {}]
  /\ listed = [p \in Passes |-> NothingListed]
  /\ since = [p \in Passes |-> 0]
  /\ crashes = 0
  /\ calledOff = {}
  /\ reminded = [e \in Events |-> {}]
  /\ contended = {}

-----------------------------------------------------------------------------
(* Processes and the entities they hold *)

HasRow(e) == event[e] \notin {Unused, Deleted}

Listed(p) == {e \in Events : listed[p][e] # Unused}

Held(x) == (IF task[x] = NoTask THEN {} ELSE {task[x].e})
             \union (IF x \in Passes THEN Listed(x) ELSE {})

\* Process x takes the entities of the events es into memory.
Takes(x, es) ==
  contended' = contended \union {e \in es : \E y \in Processes \ {x} : e \in Held(y)}

GoTo(x, place) == pc' = [pc EXCEPT ![x] = place]

\* x is through with the event it worked on and goes to place.
Finish(x, place) ==
  /\ GoTo(x, place)
  /\ task' = [task EXCEPT ![x] = NoTask]
  /\ mem' = [mem EXCEPT ![x] = Unused]
  /\ dirty' = [dirty EXCEPT ![x] = {}]

\* The handler throws: a request fails, a pass ends with all it has listed.
Fail(x) ==
  /\ Finish(x, IF x \in Passes THEN "idle" ELSE "done")
  /\ listed' = [p \in Passes |-> IF p = x THEN NothingListed ELSE listed[p]]
  /\ since' = [p \in Passes |-> IF p = x THEN 0 ELSE since[p]]
-----------------------------------------------------------------------------
(* eventsRepo.save of the entity mem[x], as update, cancel and the cron use *)
(* it: a row that is gone is inserted again.                                *)

\* What follows the save: cancel announces, a pass takes its next event.
AfterSave(x) ==
  IF task[x].op = "cancelled"
  THEN GoTo(x, "announce") /\ UNCHANGED <<task, mem, dirty>>
  ELSE Finish(x, IF x \in Passes THEN "next" ELSE "done")

\* SELECT: which columns differ.
Reload(x) ==
  /\ pc[x] = "reload"
  /\ LET e == task[x].e
         differing == {k \in Columns : event[e][k] # mem[x][k]}
     IN  \/ /\ ~HasRow(e)
            /\ GoTo(x, "insert")
            /\ UNCHANGED <<task, mem, dirty>>
         \/ /\ HasRow(e) /\ differing # {}
            /\ dirty' = [dirty EXCEPT ![x] = differing]
            /\ GoTo(x, "update")
            /\ UNCHANGED <<task, mem>>
         \/ /\ HasRow(e) /\ differing = {}
            /\ AfterSave(x)
  /\ UNCHANGED <<now, event, listed, since, crashes, calledOff, reminded, contended>>

\* INSERT with the identity the entity has; the primary key may refuse it.
Insert(x) ==
  /\ pc[x] = "insert"
  /\ LET e == task[x].e
     IN  \/ /\ ~HasRow(e)
            /\ event' = [event EXCEPT ![e] = mem[x]]
            /\ AfterSave(x)
            /\ UNCHANGED <<listed, since>>
         \/ /\ HasRow(e)
            /\ Fail(x)
            /\ UNCHANGED event
  /\ UNCHANGED <<now, crashes, calledOff, reminded, contended>>

\* A row with the given columns of an entity.
Updated(row, entity, columns) ==
  [row EXCEPT !.start = IF "start" \in columns THEN entity.start ELSE @,
              !.cancelled = IF "cancelled" \in columns THEN entity.cancelled ELSE @,
              !.offsets = IF "offsets" \in columns THEN entity.offsets ELSE @,
              !.sent = IF "sent" \in columns THEN entity.sent ELSE @]

\* UPDATE of the columns that differed; no row, nothing to do.
Update(x) ==
  /\ pc[x] = "update"
  /\ LET e == task[x].e
     IN  event' = IF HasRow(e)
                  THEN [event EXCEPT ![e] = Updated(@, mem[x], dirty[x])]
                  ELSE event
  /\ AfterSave(x)
  /\ UNCHANGED <<now, listed, since, crashes, calledOff, reminded, contended>>

-----------------------------------------------------------------------------
(* Requests *)

CanStart(r, op) == pc[r] = "new" /\ op \in Ops

\* create: the row is there before the members are told of it.
Create(r) ==
  /\ CanStart(r, "create")
  /\ \E e \in Events, row \in NewRow, sendNotification \in BOOLEAN :
       /\ event[e] = Unused
       /\ event' = [event EXCEPT ![e] = row]
       /\ IF sendNotification
          THEN /\ GoTo(r, "announce")
               /\ task' = [task EXCEPT ![r] = [op |-> "new", e |-> e]]
               /\ UNCHANGED <<mem, dirty>>
          ELSE Finish(r, "done")
  /\ UNCHANGED <<now, listed, since, crashes, calledOff, reminded, contended>>

\* NotificationsService.create: the INSERT refuses a title that is too long.
Announce(r) ==
  /\ pc[r] = "announce"
  /\ calledOff' = IF task[r].op = "cancelled" /\ task[r].e \notin LongTitled
                  THEN calledOff \union {task[r].e} ELSE calledOff
  /\ Finish(r, "done")
  /\ UNCHANGED <<now, event, listed, since, crashes, reminded, contended>>

\* findOne: the request goes on with the row of e, or replies 404.
Load(r, op, e) ==
  /\ event[e] # Unused
  /\ IF HasRow(e) THEN task' = [task EXCEPT ![r] = [op |-> op, e |-> e]] /\ Takes(r, {e})
     ELSE UNCHANGED <<task, contended>>

\* Mutant: an edit revives a cancelled event.
EditedRevives(row, start, offsets) ==
  [row EXCEPT !.start = start, !.offsets = offsets, !.cancelled = FALSE]

\* What an edit may change; what has been sent stays sent.
Edited(row, start, offsets) == [row EXCEPT !.start = start, !.offsets = offsets]

\* update: another start and other offsets, in the entity.
EditEvent(r) ==
  /\ CanStart(r, "update")
  /\ \E e \in Events, start \in Starts, offsets \in OffsetChoices :
       /\ Load(r, "update", e)
       /\ mem' = IF HasRow(e) THEN [mem EXCEPT ![r] = Edited(event[e], start, offsets)]
                 ELSE mem
       /\ GoTo(r, IF HasRow(e) THEN "reload" ELSE "done")
  /\ UNCHANGED <<now, event, dirty, listed, since, crashes, calledOff, reminded>>

\* cancel: is_cancelled is set in the entity, and saved before it is announced.
Cancel(r) ==
  /\ CanStart(r, "cancel")
  /\ \E e \in Events :
       /\ Load(r, "cancelled", e)
       /\ mem' = IF HasRow(e) THEN [mem EXCEPT ![r] = [event[e] EXCEPT !.cancelled = TRUE]]
                 ELSE mem
       /\ GoTo(r, IF HasRow(e) THEN "reload" ELSE "done")
  /\ UNCHANGED <<now, event, dirty, listed, since, crashes, calledOff, reminded>>

\* Only a cancelled event or one that is over may be removed.
Removable(row) == row.cancelled \/ row.start <= now

\* remove: the check ...
Remove(r) ==
  /\ CanStart(r, "remove")
  /\ \E e \in Events :
       /\ event[e] # Unused
       /\ IF HasRow(e) /\ Removable(event[e])
          THEN Load(r, "remove", e) /\ GoTo(r, "delete")
          ELSE GoTo(r, "done") /\ UNCHANGED <<task, contended>>
  /\ UNCHANGED <<now, event, mem, dirty, listed, since, crashes, calledOff, reminded>>

\* ... and the DELETE.
Delete(r) ==
  /\ pc[r] = "delete"
  /\ event' = [event EXCEPT ![task[r].e] = Deleted]
  /\ Finish(r, "done")
  /\ UNCHANGED <<now, listed, since, crashes, calledOff, reminded, contended>>

-----------------------------------------------------------------------------
(* sendDueReminders *)

\* Mutant: an offset is due at its very minute only.
DueAtTheMinute(row, t) == {o \in row.offsets \ row.sent : row.start = t + o}

\* The offsets that have begun by t and have not been reminded of.
Due(row, t) == {o \in row.offsets \ row.sent : row.start <= t + o}

\* The events that have not started by t, are not cancelled and have a due offset.
Upcoming(t) == {e \in Events : HasRow(e) /\ ~event[e].cancelled /\ event[e].start >= t}

\* find: a pass reads all of them at once.
List(p) ==
  /\ pc[p] = "idle"
  /\ LET due == {e \in Upcoming(now) : Due(event[e], now) # {}}
     IN  /\ listed' = [listed EXCEPT ![p] = [e \in Events |-> IF e \in due THEN event[e] ELSE Unused]]
         /\ Takes(p, due)
  /\ since' = [since EXCEPT ![p] = now]
  /\ GoTo(p, "next")
  /\ UNCHANGED <<now, event, task, mem, dirty, crashes, calledOff, reminded>>

\* Mutant: all the offsets of the event are recorded with the first reminder.
RecordedAll(row, t) == row.offsets

\* Mutant: the latest of them only.
RecordedOne(row, t) ==
  {o \in Due(row, t) : \A k \in Due(row, t) : o <= k}

\* Mutant: the minutes at which they began.
RecordedMinutes(row, t) == {row.start - o : o \in Due(row, t)}

\* What remindersSent gets: all the due offsets, for one reminder.
Recorded(row, t) == Due(row, t)

\* The reminder goes out; then the entity is saved, as it was listed.
Remind(p) ==
  /\ pc[p] = "next"
  /\ \E e \in Listed(p) \ LongTitled :
       LET row == listed[p][e]
       IN  /\ reminded' = [reminded EXCEPT ![e] = @ \union Due(row, since[p])]
           /\ task' = [task EXCEPT ![p] = [op |-> "remind", e |-> e]]
           /\ mem' = [mem EXCEPT ![p] = [row EXCEPT !.sent = @ \union Recorded(row, since[p])]]
           /\ listed' = [listed EXCEPT ![p] = [@ EXCEPT ![e] = Unused]]
  /\ GoTo(p, "reload")
  /\ UNCHANGED <<now, event, dirty, since, crashes, calledOff, contended>>

\* The notification is refused: the pass ends, whatever it still has listed.
RemindFails(p) ==
  /\ pc[p] = "next"
  /\ Listed(p) \intersect LongTitled # {}
  /\ Fail(p)
  /\ UNCHANGED <<now, event, crashes, calledOff, reminded, contended>>

\* Everything listed has been reminded of.
EndPass(p) ==
  /\ pc[p] = "next"
  /\ Listed(p) = {}
  /\ GoTo(p, "idle")
  /\ since' = [since EXCEPT ![p] = 0]
  /\ UNCHANGED <<now, event, task, mem, dirty, listed, crashes, calledOff, reminded, contended>>

-----------------------------------------------------------------------------
(* The system *)

\* What a restart cuts off: requests get no reply, passes no end.
Crash ==
  /\ crashes < MaxCrashes
  /\ \E x \in Processes : pc[x] \notin {"new", "done", "idle"}
  /\ crashes' = crashes + 1
  /\ contended' = contended \union {task[x].e : x \in {y \in Processes :
                                      pc[y] \in {"reload", "insert", "update", "announce"}}}
  /\ pc' = [x \in Processes |-> IF x \in Passes THEN "idle"
                                ELSE IF pc[x] = "new" THEN "new" ELSE "done"]
  /\ task' = [x \in Processes |-> NoTask]
  /\ mem' = [x \in Processes |-> Unused]
  /\ dirty' = [x \in Processes |-> {}]
  /\ listed' = [p \in Passes |-> NothingListed]
  /\ since' = [p \in Passes |-> 0]
  /\ UNCHANGED <<now, event, calledOff, reminded>>

Tick ==
  /\ now < MaxNow
  /\ now' = now + 1
  /\ UNCHANGED <<event, processVars, listed, since, crashes, calledOff, reminded, contended>>

Arrive(r) == Create(r) \/ EditEvent(r) \/ Cancel(r) \/ Remove(r)

\* The steps of the server: a request that has arrived goes on, cron fires.
Serve(r) == Reload(r) \/ Insert(r) \/ Update(r) \/ Announce(r) \/ Delete(r)
Pass(p) ==
  List(p) \/ Remind(p) \/ RemindFails(p) \/ EndPass(p) \/ Reload(p) \/ Insert(p) \/ Update(p)

Next ==
  \/ \E r \in Requests : Arrive(r) \/ Serve(r)
  \/ \E p \in Passes : Pass(p)
  \/ Crash
  \/ Tick

Spec == Init /\ [][Next]_vars

\* The server finishes what it has begun and the cron keeps firing; users and
\* crashes need not come, and the clock need not reach the next minute.
FairSpec == Spec /\ (\A r \in Requests : WF_vars(Serve(r))) /\ (\A p \in Passes : WF_vars(Pass(p)))

-----------------------------------------------------------------------------
(* Properties *)

\* No reminder is skipped in silence: an offset in reminders_sent has been
\* sent, however saves overlap and wherever a pass is cut off (events.service
\* .ts:270-275: it is sent, then recorded).
RecordedOnlyWhenSent ==
  \A e \in Events : HasRow(e) => event[e].sent \subseteq reminded[e]

\* "so that cron does not send twice" (event.entity.ts:108): no pass is about
\* to repeat a reminder, unless two handlers held the event at once or one
\* was cut off between the reminder and its record.
NoRepetition ==
  \A p \in Passes : pc[p] = "next" =>
    \A e \in Listed(p) \ contended : Due(listed[p][e], since[p]) \intersect reminded[e] = {}

\* Unless two handlers held the event at once, a cancelled event stays
\* cancelled and a removed one gone; and no event disappears before its time
\* without a notification that was not cut off: "a future event must be
\* cancelled first, so that the members are told" (remove).  Only a title
\* that no notification takes leaves them untold.
CancelledForGood ==
  [][\A e \in Events \ contended' :
       /\ event[e] = Deleted => event'[e] = Deleted
       /\ HasRow(e) /\ event[e].cancelled => event'[e] = Deleted \/ event'[e].cancelled
       /\ HasRow(e) /\ event'[e] = Deleted
            => event[e].start <= now \/ e \in calledOff \union LongTitled]_vars

\* A reminder that is due while the event is ahead.
Wanted(e, o) == e \in Upcoming(now) /\ o \in event[e].offsets /\ event[e].start <= now + o

\* "For every coming event ... sends the members a notification" (events
\* .service.ts:270-275): a reminder that is due goes out, whatever was cut
\* off before; an edit, a removal or the start of the event may end its need.
\* Another event whose reminder is refused keeps it waiting, though: the
\* passes end there.
RemindersGoOutUnlessRefused ==
  \A e \in Events \ LongTitled, o \in Offsets :
    Wanted(e, o) ~> \/ o \in reminded[e] \/ ~Wanted(e, o)
                    \/ \E l \in LongTitled, k \in Offsets : Wanted(l, k)
=============================================================================
