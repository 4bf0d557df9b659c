----------------------------- MODULE EventsProofs -----------------------------
(***************************************************************************)
(* For any number of requests, of passes of the cron that overlap, and of  *)
(* restarts: an offset is recorded as sent only when it was.  A row may be *)
(* overwritten by any entity in memory, so the invariant covers these too. *)
(* And while one handler at a time holds an event, no reminder of it is    *)
(* repeated, and it neither revives nor disappears untold.                 *)
(***************************************************************************)
EXTENDS Events, TLAPS

\* The task of a process that is on its way to the table, and its entity.
ControlInv ==
  \A x \in Processes :
    /\ pc[x] \in {"reload", "insert", "update", "delete", "announce"} => task[x] \in Task
    /\ pc[x] \in {"reload", "insert", "update"} => mem[x] \in Row
    /\ mem[x] # Unused => pc[x] \in {"reload", "insert", "update", "announce"}
    /\ pc[x] = "done" => x \in Requests
    /\ pc[x] = "idle" => x \in Passes

\* An entity in memory records only what was sent.
MemorySent ==
  /\ \A x \in Processes : mem[x] # Unused => mem[x].sent \subseteq reminded[task[x].e]
  /\ \A p \in Passes : \A e \in Listed(p) : listed[p][e].sent \subseteq reminded[e]

SentInv == RecordedOnlyWhenSent /\ MemorySent

IInv == TypeOK /\ ControlInv

\* The rows that requests make of a row are rows.
LEMMA RowTypes ==
  ASSUME NEW row \in Row
  PROVE  /\ \A start \in Starts, offsets \in OffsetChoices :
              Edited(row, start, offsets) \in Row /\ Edited(row, start, offsets).sent = row.sent
         /\ [row EXCEPT !.cancelled = TRUE] \in Row
         /\ [row EXCEPT !.cancelled = TRUE].sent = row.sent
  BY EventsAssumption DEF Row, Edited

\* An UPDATE leaves a row; what it records comes from the row or the entity.
LEMMA UpdatedRow ==
  ASSUME NEW row \in Row, NEW entity \in Row, NEW columns \in SUBSET Columns
  PROVE  /\ Updated(row, entity, columns) \in Row
         /\ Updated(row, entity, columns).sent \in {row.sent, entity.sent}
  BY DEF Row, Updated

\* What a reminder covers and records.
LEMMA DueOffsets ==
  ASSUME NEW row \in Row, NEW t \in Nat
  PROVE  /\ Due(row, t) \subseteq Offsets
         /\ [row EXCEPT !.sent = @ \union Recorded(row, t)] \in Row
         /\ [row EXCEPT !.sent = @ \union Recorded(row, t)].sent = row.sent \union Due(row, t)
  BY EventsAssumption DEF Row, Due, Recorded

\* A new row is a row that records nothing.
LEMMA NewRows == \A row \in NewRow : row \in Row /\ row.sent = {}
  BY EventsAssumption DEF NewRow, Row

LEMMA RowOrNot == \A e \in Events : TypeOK /\ HasRow(e) => event[e] \in Row
  BY DEF TypeOK, HasRow

-----------------------------------------------------------------------------
(* Types *)

LEMMA InitTypes == Init => IInv /\ SentInv
<1> SUFFICES ASSUME Init PROVE IInv /\ SentInv
  OBVIOUS
<1> USE EventsAssumption, NoRowAssumption DEF Init
<1>1. TypeOK
  <2>1. event \in [Events -> Row \union {Unused, Deleted}]
    BY NewRows
  <2>2. pc \in [Processes -> PCs] /\ task \in [Processes -> Task \union {NoTask}]
    BY DEF PCs
  <2> QED BY <2>1, <2>2 DEF TypeOK, NothingListed
<1>2. ControlInv
  BY DEF ControlInv, Processes
<1>3. RecordedOnlyWhenSent
  BY NewRows DEF RecordedOnlyWhenSent, HasRow
<1>4. MemorySent
  BY DEF MemorySent, Listed, NothingListed, Processes
<1> QED BY <1>1, <1>2, <1>3, <1>4 DEF IInv, SentInv

\* A process that ends its work on an event.
LEMMA FinishTypes ==
  ASSUME IInv, NEW x \in Processes, NEW place \in PCs, Finish(x, place),
         place \in {"done", "idle", "next"},
         place = "done" => x \in Requests, place = "idle" => x \in Passes
  PROVE  /\ pc' \in [Processes -> PCs]
         /\ task' \in [Processes -> Task \union {NoTask}]
         /\ mem' \in [Processes -> Row \union {Unused}]
         /\ dirty' \in [Processes -> SUBSET Columns]
         /\ ControlInv'
  BY DEF IInv, TypeOK, Finish, GoTo, ControlInv

LEMMA AfterSaveTypes ==
  ASSUME IInv, NEW x \in Processes, AfterSave(x), pc[x] \in {"reload", "insert", "update"}
  PROVE  /\ pc' \in [Processes -> PCs]
         /\ task' \in [Processes -> Task \union {NoTask}]
         /\ mem' \in [Processes -> Row \union {Unused}]
         /\ dirty' \in [Processes -> SUBSET Columns]
         /\ ControlInv'
<1>1. CASE task[x].op = "cancelled"
  BY <1>1 DEF AfterSave, IInv, TypeOK, GoTo, ControlInv, PCs
<1>2. CASE task[x].op # "cancelled"
  <2> DEFINE place == IF x \in Passes THEN "next" ELSE "done"
  <2>1. Finish(x, place) /\ place \in PCs
    BY <1>2 DEF AfterSave, PCs
  <2> QED BY <2>1, FinishTypes DEF Processes
<1> QED BY <1>1, <1>2

LEMMA FailTypes ==
  ASSUME IInv, NEW x \in Processes, Fail(x)
  PROVE  /\ pc' \in [Processes -> PCs]
         /\ task' \in [Processes -> Task \union {NoTask}]
         /\ mem' \in [Processes -> Row \union {Unused}]
         /\ dirty' \in [Processes -> SUBSET Columns]
         /\ ControlInv'
         /\ listed' \in [Passes -> [Events -> Row \union {Unused}]]
         /\ since' \in [Passes -> Nat]
<1> DEFINE place == IF x \in Passes THEN "idle" ELSE "done"
<1>1. Finish(x, place) /\ place \in PCs
  BY DEF Fail, PCs
<1>2. listed' \in [Passes -> [Events -> Row \union {Unused}]] /\ since' \in [Passes -> Nat]
  BY DEF Fail, IInv, TypeOK, NothingListed
<1> QED BY <1>1, <1>2, FinishTypes DEF Processes

\* The three steps of a save keep the types.
LEMMA SaveTypes ==
  ASSUME IInv, NEW x \in Processes, Reload(x) \/ Insert(x) \/ Update(x)
  PROVE  IInv'
<1>1. CASE Reload(x)
  <2>0. /\ pc[x] = "reload"
        /\ UNCHANGED <<now, event, listed, since, crashes, calledOff, reminded, contended>>
    BY <1>1 DEF Reload
  <2>1. CASE AfterSave(x)
    BY <2>0, <2>1, AfterSaveTypes DEF IInv, TypeOK
  <2>2. CASE GoTo(x, "insert") /\ UNCHANGED <<task, mem, dirty>>
    BY <2>0, <2>2 DEF IInv, TypeOK, ControlInv, GoTo, PCs
  <2>3. CASE /\ dirty' = [dirty EXCEPT ![x] = {k \in Columns : event[task[x].e][k] # mem[x][k]}]
             /\ GoTo(x, "update") /\ UNCHANGED <<task, mem>>
    BY <2>0, <2>3 DEF IInv, TypeOK, ControlInv, GoTo, PCs
  <2> QED BY <1>1, <2>1, <2>2, <2>3 DEF Reload
<1>2. CASE Insert(x)
  <2>0. /\ pc[x] = "insert" /\ mem[x] \in Row
        /\ UNCHANGED <<now, crashes, calledOff, reminded, contended>>
    BY <1>2 DEF Insert, IInv, ControlInv
  <2>1. CASE /\ event' = [event EXCEPT ![task[x].e] = mem[x]]
             /\ AfterSave(x) /\ UNCHANGED <<listed, since>>
    BY <2>0, <2>1, AfterSaveTypes DEF IInv, TypeOK
  <2>2. CASE Fail(x) /\ UNCHANGED event
    BY <2>0, <2>2, FailTypes DEF IInv, TypeOK
  <2> QED BY <1>2, <2>1, <2>2 DEF Insert
<1>3. CASE Update(x)
  <2>0. /\ pc[x] = "update" /\ mem[x] \in Row /\ task[x].e \in Events /\ dirty[x] \in SUBSET Columns
        /\ AfterSave(x)
        /\ UNCHANGED <<now, listed, since, crashes, calledOff, reminded, contended>>
    BY <1>3 DEF Update, IInv, TypeOK, ControlInv, Task
  <2>1. event' \in [Events -> Row \union {Unused, Deleted}]
    <3>1. CASE HasRow(task[x].e)
      <4>1. Updated(event[task[x].e], mem[x], dirty[x]) \in Row
        BY <2>0, <3>1, UpdatedRow, RowOrNot DEF IInv
      <4>2. event' = [event EXCEPT ![task[x].e] = Updated(event[task[x].e], mem[x], dirty[x])]
        BY <1>3, <2>0, <3>1 DEF Update, IInv, TypeOK
      <4> QED BY <4>1, <4>2 DEF IInv, TypeOK
    <3>2. CASE ~HasRow(task[x].e)
      BY <1>3, <3>2 DEF Update, IInv, TypeOK
    <3> QED BY <3>1, <3>2
  <2> QED BY <2>0, <2>1, AfterSaveTypes DEF IInv, TypeOK
<1> QED BY <1>1, <1>2, <1>3

\* The requests keep the types.
LEMMA RequestTypes ==
  ASSUME IInv, NEW r \in Requests, Arrive(r) \/ Announce(r) \/ Delete(r)
  PROVE  IInv'
<1>0. r \in Processes /\ "done" \in PCs
  BY DEF Processes, PCs
<1>1. CASE Create(r)
  <2>1. PICK e \in Events, row \in NewRow, sendNotification \in BOOLEAN :
          /\ event' = [event EXCEPT ![e] = row]
          /\ IF sendNotification
             THEN /\ GoTo(r, "announce")
                  /\ task' = [task EXCEPT ![r] = [op |-> "new", e |-> e]]
                  /\ UNCHANGED <<mem, dirty>>
             ELSE Finish(r, "done")
    BY <1>1 DEF Create
  <2>2. UNCHANGED <<now, listed, since, crashes, calledOff, reminded, contended>>
    BY <1>1 DEF Create
  <2>3. event' \in [Events -> Row \union {Unused, Deleted}]
    BY <2>1, NewRows DEF IInv, TypeOK
  <2>4. CASE Finish(r, "done")
    BY <1>0, <2>2, <2>3, <2>4, FinishTypes DEF IInv, TypeOK
  <2>5. CASE /\ GoTo(r, "announce")
             /\ task' = [task EXCEPT ![r] = [op |-> "new", e |-> e]]
             /\ UNCHANGED <<mem, dirty>>
    <3>1. [op |-> "new", e |-> e] \in Task
      BY DEF Task
    <3> QED BY <1>0, <2>2, <2>3, <2>5, <3>1 DEF IInv, TypeOK, ControlInv, GoTo, PCs
  <2> QED BY <2>1, <2>4, <2>5
<1>2. ASSUME NEW op \in {"update", "cancelled", "remove"}, NEW e \in Events, Load(r, op, e)
      PROVE  /\ contended' \subseteq Events
             /\ HasRow(e) => task' = [task EXCEPT ![r] = [op |-> op, e |-> e]]
             /\ [op |-> op, e |-> e] \in Task
             /\ ~HasRow(e) => UNCHANGED task
  BY <1>2 DEF Load, Takes, Task, IInv, TypeOK
<1>3. CASE EditEvent(r)
  <2>1. PICK e \in Events, start \in Starts, offsets \in OffsetChoices :
          /\ Load(r, "update", e)
          /\ mem' = IF HasRow(e) THEN [mem EXCEPT ![r] = Edited(event[e], start, offsets)] ELSE mem
          /\ GoTo(r, IF HasRow(e) THEN "reload" ELSE "done")
    BY <1>3 DEF EditEvent
  <2>2. mem[r] = Unused /\ UNCHANGED <<now, event, dirty, listed, since, crashes, calledOff, reminded>>
    BY <1>3 DEF EditEvent, CanStart, IInv, ControlInv, Processes
  <2>3. HasRow(e) => Edited(event[e], start, offsets) \in Row
    BY RowTypes, RowOrNot DEF IInv
  <2>4. TypeOK'
    BY <1>0, <1>2, <2>1, <2>2, <2>3 DEF IInv, TypeOK, GoTo, PCs
  <2>5. ControlInv'
    BY <1>0, <1>2, <2>1, <2>2, <2>3 DEF IInv, TypeOK, ControlInv, GoTo
  <2> QED BY <2>4, <2>5 DEF IInv
<1>4. CASE Cancel(r)
  <2>1. PICK e \in Events :
          /\ Load(r, "cancelled", e)
          /\ mem' = IF HasRow(e) THEN [mem EXCEPT ![r] = [event[e] EXCEPT !.cancelled = TRUE]] ELSE mem
          /\ GoTo(r, IF HasRow(e) THEN "reload" ELSE "done")
    BY <1>4 DEF Cancel
  <2>2. mem[r] = Unused /\ UNCHANGED <<now, event, dirty, listed, since, crashes, calledOff, reminded>>
    BY <1>4 DEF Cancel, CanStart, IInv, ControlInv, Processes
  <2>3. HasRow(e) => [event[e] EXCEPT !.cancelled = TRUE] \in Row
    BY RowTypes, RowOrNot DEF IInv
  <2>4. TypeOK'
    BY <1>0, <1>2, <2>1, <2>2, <2>3 DEF IInv, TypeOK, GoTo, PCs
  <2>5. ControlInv'
    BY <1>0, <1>2, <2>1, <2>2, <2>3 DEF IInv, TypeOK, ControlInv, GoTo
  <2> QED BY <2>4, <2>5 DEF IInv
<1>5. CASE Remove(r)
  <2>1. PICK e \in Events :
          IF HasRow(e) /\ Removable(event[e])
          THEN Load(r, "remove", e) /\ GoTo(r, "delete")
          ELSE GoTo(r, "done") /\ UNCHANGED <<task, contended>>
    BY <1>5 DEF Remove
  <2>2. mem[r] = Unused /\ UNCHANGED <<now, event, mem, dirty, listed, since, crashes, calledOff, reminded>>
    BY <1>5 DEF Remove, CanStart, IInv, ControlInv, Processes
  <2>3. CASE Load(r, "remove", e) /\ GoTo(r, "delete") /\ HasRow(e)
    BY <1>0, <1>2, <2>2, <2>3 DEF IInv, TypeOK, ControlInv, GoTo, PCs
  <2>4. CASE GoTo(r, "done") /\ UNCHANGED <<task, contended>>
    BY <1>0, <2>2, <2>4 DEF IInv, TypeOK, ControlInv, GoTo
  <2> QED BY <2>1, <2>3, <2>4
<1>6. CASE Announce(r)
  <2>1. calledOff' \subseteq Events
    BY <1>6 DEF Announce, IInv, TypeOK, ControlInv, Task, Processes
  <2> QED BY <1>0, <1>6, <2>1, FinishTypes DEF Announce, IInv, TypeOK
<1>7. CASE Delete(r)
  <2>1. event' \in [Events -> Row \union {Unused, Deleted}]
    BY <1>7 DEF Delete, IInv, TypeOK
  <2> QED BY <1>0, <1>7, <2>1, FinishTypes DEF Delete, IInv, TypeOK
<1> QED BY <1>1, <1>3, <1>4, <1>5, <1>6, <1>7 DEF Arrive

\* The passes keep the types.
LEMMA PassTypes ==
  ASSUME IInv, NEW p \in Passes, List(p) \/ Remind(p) \/ RemindFails(p) \/ EndPass(p)
  PROVE  IInv'
<1>0. p \in Processes /\ p \notin Requests
  BY EventsAssumption DEF Processes
<1>1. CASE List(p)
  <2> DEFINE due == {e \in Upcoming(now) : Due(event[e], now) # {}}
             rows == [e \in Events |-> IF e \in due THEN event[e] ELSE Unused]
  <2>1. listed' = [listed EXCEPT ![p] = rows] /\ Takes(p, due) /\ GoTo(p, "next")
        /\ since' = [since EXCEPT ![p] = now]
        /\ UNCHANGED <<now, event, task, mem, dirty, crashes, calledOff, reminded>>
        /\ pc[p] = "idle"
    BY <1>1 DEF List
  <2>2. rows \in [Events -> Row \union {Unused}]
    BY RowOrNot DEF IInv, Upcoming
  <2>3. due \subseteq Events
    BY DEF Upcoming
  <2> HIDE DEF due, rows
  <2>4. contended' \subseteq Events
    BY <2>1, <2>3 DEF Takes, IInv, TypeOK
  <2> QED BY <1>0, <2>1, <2>2, <2>4 DEF IInv, TypeOK, ControlInv, GoTo, PCs
<1>2. CASE Remind(p)
  <2>1. PICK e \in Listed(p) \ LongTitled :
          /\ reminded' = [reminded EXCEPT ![e] = @ \union Due(listed[p][e], since[p])]
          /\ task' = [task EXCEPT ![p] = [op |-> "remind", e |-> e]]
          /\ mem' = [mem EXCEPT ![p] = [listed[p][e] EXCEPT
                                          !.sent = @ \union Recorded(listed[p][e], since[p])]]
          /\ listed' = [listed EXCEPT ![p] = [@ EXCEPT ![e] = Unused]]
    BY <1>2 DEF Remind
  <2>2. GoTo(p, "reload") /\ UNCHANGED <<now, event, dirty, since, crashes, calledOff, contended>>
    BY <1>2 DEF Remind
  <2>3. e \in Events /\ listed[p][e] \in Row /\ since[p] \in Nat
    BY DEF Listed, IInv, TypeOK
  <2>4. /\ Due(listed[p][e], since[p]) \subseteq Offsets
        /\ [listed[p][e] EXCEPT !.sent = @ \union Recorded(listed[p][e], since[p])] \in Row
    BY <2>3, DueOffsets
  <2>5. [listed[p] EXCEPT ![e] = Unused] \in [Events -> Row \union {Unused}]
    BY DEF IInv, TypeOK
  <2>6. [op |-> "remind", e |-> e] \in Task
    BY <2>3 DEF Task
  <2>7. reminded' \in [Events -> SUBSET Offsets]
    BY <2>1, <2>3, <2>4 DEF IInv, TypeOK
  <2>8. /\ listed' \in [Passes -> [Events -> Row \union {Unused}]]
        /\ mem' \in [Processes -> Row \union {Unused}]
    BY <2>1, <2>4, <2>5 DEF IInv, TypeOK
  <2>9. TypeOK'
    BY <1>0, <2>1, <2>2, <2>6, <2>7, <2>8 DEF IInv, TypeOK, GoTo, PCs
  <2>10. ControlInv'
    BY <1>0, <2>1, <2>2, <2>4, <2>6 DEF IInv, TypeOK, ControlInv, GoTo
  <2> QED BY <2>9, <2>10 DEF IInv
<1>3. CASE RemindFails(p)
  BY <1>0, <1>3, FailTypes DEF RemindFails, IInv, TypeOK
<1>4. CASE EndPass(p)
  BY <1>0, <1>4 DEF EndPass, IInv, TypeOK, ControlInv, GoTo, PCs
<1> QED BY <1>1, <1>2, <1>3, <1>4

LEMMA CrashTypes == IInv /\ Crash => IInv'
<1> SUFFICES ASSUME IInv, Crash PROVE IInv'
  OBVIOUS
<1>1. contended' \subseteq Events
  BY DEF Crash, IInv, TypeOK, ControlInv, Task
<1>2. pc' \in [Processes -> PCs]
  BY DEF Crash, PCs
<1>3. task' \in [Processes -> Task \union {NoTask}] /\ mem' \in [Processes -> Row \union {Unused}]
      /\ dirty' \in [Processes -> SUBSET Columns]
  BY DEF Crash
<1>4. listed' \in [Passes -> [Events -> Row \union {Unused}]] /\ since' \in [Passes -> Nat]
  BY DEF Crash, NothingListed
<1>5. ControlInv'
  BY DEF Crash, ControlInv, Processes
<1> QED BY <1>1, <1>2, <1>3, <1>4, <1>5 DEF Crash, IInv, TypeOK

\* Every step keeps the types.
LEMMA TypeStep == IInv /\ [Next]_vars => IInv'
<1> SUFFICES ASSUME IInv, [Next]_vars PROVE IInv'
  OBVIOUS
<1>1. ASSUME NEW r \in Requests, Arrive(r) \/ Serve(r) PROVE IInv'
  BY <1>1, SaveTypes, RequestTypes DEF Serve, Processes
<1>2. ASSUME NEW p \in Passes, Pass(p) PROVE IInv'
  BY <1>2, SaveTypes, PassTypes DEF Pass, Processes
<1>3. CASE Tick
  BY <1>3 DEF Tick, processVars, IInv, TypeOK, ControlInv
<1>4. CASE UNCHANGED vars
  BY <1>4 DEF vars, processVars, IInv, TypeOK, ControlInv
<1> QED BY <1>1, <1>2, <1>3, <1>4, CrashTypes DEF Next

-----------------------------------------------------------------------------
(* Records *)

\* What a step may do to rows, entities and history so that no row or entity
\* records more than was sent.
LEMMA SentKept ==
  ASSUME IInv, SentInv,
         \A e \in Events : reminded[e] \subseteq reminded'[e],
         \A e \in Events : HasRow(e)' => event'[e].sent \subseteq reminded'[e],
         \A x \in Processes : mem'[x] # Unused => mem'[x].sent \subseteq reminded'[task'[x].e],
         \A p \in Passes : \A e \in Events : listed'[p][e] # Unused =>
           listed'[p][e].sent \subseteq reminded'[e]
  PROVE  SentInv'
  BY DEF SentInv, RecordedOnlyWhenSent, MemorySent, Listed

\* Every entity in memory after the step was there before it.
EntitiesKept ==
  /\ \A x \in Processes : mem'[x] # Unused => mem'[x] = mem[x] /\ task'[x] = task[x]
  /\ \A p \in Passes : \A e \in Events :
       listed'[p][e] # Unused => listed'[p][e] = listed[p][e]

LEMMA NothingNew ==
  ASSUME IInv, SentInv, EntitiesKept, UNCHANGED reminded,
         \A e \in Events : HasRow(e)' => event'[e].sent \subseteq reminded[e]
  PROVE  SentInv'
  BY DEF EntitiesKept, SentInv, RecordedOnlyWhenSent, MemorySent, Listed

LEMMA FinishKeeps ==
  ASSUME IInv, NEW x \in Processes, NEW place, Finish(x, place)
  PROVE  \A y \in Processes : mem'[y] # Unused => mem'[y] = mem[y] /\ task'[y] = task[y]
  BY DEF Finish, IInv, TypeOK

LEMMA AfterSaveKeeps ==
  ASSUME IInv, NEW x \in Processes, AfterSave(x)
  PROVE  \A y \in Processes : mem'[y] # Unused => mem'[y] = mem[y] /\ task'[y] = task[y]
  BY FinishKeeps DEF AfterSave

LEMMA FailKeeps ==
  ASSUME IInv, NEW x \in Processes, Fail(x)
  PROVE  EntitiesKept
  BY FinishKeeps DEF Fail, EntitiesKept, NothingListed, IInv, TypeOK

\* A save writes what the table or the entity records.
LEMMA SaveSent ==
  ASSUME IInv, SentInv, NEW x \in Processes, Reload(x) \/ Insert(x) \/ Update(x)
  PROVE  SentInv'
<1>1. CASE Reload(x)
  <2>1. UNCHANGED <<event, listed, reminded>>
    BY <1>1 DEF Reload
  <2>2. EntitiesKept
    BY <1>1, AfterSaveKeeps DEF Reload, EntitiesKept
  <2> QED BY <2>1, <2>2, NothingNew DEF SentInv, RecordedOnlyWhenSent, HasRow
<1>2. CASE Insert(x)
  <2>1. mem[x] \in Row /\ task[x].e \in Events /\ mem[x].sent \subseteq reminded[task[x].e]
    BY <1>2, NoRowAssumption DEF Insert, IInv, ControlInv, Task, SentInv, MemorySent
  <2>2. EntitiesKept /\ UNCHANGED reminded
    BY <1>2, AfterSaveKeeps, FailKeeps DEF Insert, EntitiesKept
  <2>3. event' = [event EXCEPT ![task[x].e] = mem[x]] \/ UNCHANGED event
    BY <1>2 DEF Insert
  <2> QED BY <2>1, <2>2, <2>3, NothingNew DEF SentInv, RecordedOnlyWhenSent, HasRow, IInv, TypeOK
<1>3. CASE Update(x)
  <2>1. mem[x] \in Row /\ task[x].e \in Events /\ mem[x].sent \subseteq reminded[task[x].e]
    BY <1>3, NoRowAssumption DEF Update, IInv, ControlInv, Task, SentInv, MemorySent
  <2>2. EntitiesKept /\ UNCHANGED reminded
    BY <1>3, AfterSaveKeeps DEF Update, EntitiesKept
  <2>3. HasRow(task[x].e) =>
          Updated(event[task[x].e], mem[x], dirty[x]).sent \in {event[task[x].e].sent, mem[x].sent}
    BY <2>1, UpdatedRow, RowOrNot DEF IInv, TypeOK
  <2>4. IF HasRow(task[x].e)
        THEN event' = [event EXCEPT ![task[x].e] = Updated(event[task[x].e], mem[x], dirty[x])]
        ELSE UNCHANGED event
    BY <1>3, <2>1 DEF Update, IInv, TypeOK
  <2> QED BY <2>1, <2>2, <2>3, <2>4, NothingNew DEF SentInv, RecordedOnlyWhenSent, HasRow, IInv, TypeOK
<1> QED BY <1>1, <1>2, <1>3

\* A request reads, creates or deletes rows; it records nothing.
LEMMA RequestSent ==
  ASSUME IInv, SentInv, NEW r \in Requests, Arrive(r) \/ Announce(r) \/ Delete(r)
  PROVE  SentInv'
<1>0. r \in Processes
  BY DEF Processes
<1>1. CASE Create(r)
  <2>1. PICK e \in Events, row \in NewRow : event' = [event EXCEPT ![e] = row]
    BY <1>1 DEF Create
  <2>2. \/ mem[r] = Unused /\ mem' = mem /\ (\A y \in Processes \ {r} : task'[y] = task[y])
        \/ \E place \in PCs : Finish(r, place)
    BY <1>1 DEF Create, CanStart, IInv, ControlInv, TypeOK, Processes, PCs
  <2>3. EntitiesKept /\ UNCHANGED reminded
    BY <1>0, <1>1, <2>2, FinishKeeps DEF Create, EntitiesKept
  <2> QED BY <2>1, <2>3, NewRows, NothingNew DEF SentInv, RecordedOnlyWhenSent, HasRow, IInv, TypeOK
<1>2. ASSUME NEW op, NEW e \in Events, NEW row \in Row, row.sent = event[e].sent,
             Load(r, op, e), HasRow(e), pc[r] = "new",
             mem' = [mem EXCEPT ![r] = row], UNCHANGED <<event, listed, reminded>>
      PROVE  SentInv'
  <2>1. task' = [task EXCEPT ![r] = [op |-> op, e |-> e]]
    BY <1>2 DEF Load
  <2>2. row.sent \subseteq reminded[e]
    BY <1>2 DEF SentInv, RecordedOnlyWhenSent
  <2>3. \A x \in Processes : mem'[x] # Unused => mem'[x].sent \subseteq reminded'[task'[x].e]
    BY <1>0, <1>2, <2>1, <2>2 DEF SentInv, MemorySent, IInv, TypeOK
  <2> QED BY <1>2, <2>3, SentKept DEF SentInv, RecordedOnlyWhenSent, MemorySent, Listed, HasRow
<1>3. ASSUME UNCHANGED <<event, listed, reminded, mem, task>>
      PROVE  SentInv'
  BY <1>3 DEF SentInv, RecordedOnlyWhenSent, MemorySent, Listed, HasRow
<1>4. CASE EditEvent(r)
  <2>1. PICK e \in Events, start \in Starts, offsets \in OffsetChoices :
          /\ Load(r, "update", e)
          /\ mem' = IF HasRow(e) THEN [mem EXCEPT ![r] = Edited(event[e], start, offsets)] ELSE mem
    BY <1>4 DEF EditEvent
  <2>2. pc[r] = "new" /\ UNCHANGED <<event, listed, reminded>>
    BY <1>4 DEF EditEvent, CanStart
  <2>3. CASE HasRow(e)
    BY <1>2, <2>1, <2>2, <2>3, RowTypes, RowOrNot DEF IInv
  <2>4. CASE ~HasRow(e)
    BY <1>3, <2>1, <2>2, <2>4 DEF Load
  <2> QED BY <2>3, <2>4
<1>5. CASE Cancel(r)
  <2>1. PICK e \in Events :
          /\ Load(r, "cancelled", e)
          /\ mem' = IF HasRow(e) THEN [mem EXCEPT ![r] = [event[e] EXCEPT !.cancelled = TRUE]] ELSE mem
    BY <1>5 DEF Cancel
  <2>2. pc[r] = "new" /\ UNCHANGED <<event, listed, reminded>>
    BY <1>5 DEF Cancel, CanStart
  <2>3. CASE HasRow(e)
    BY <1>2, <2>1, <2>2, <2>3, RowTypes, RowOrNot DEF IInv
  <2>4. CASE ~HasRow(e)
    BY <1>3, <2>1, <2>2, <2>4 DEF Load
  <2> QED BY <2>3, <2>4
<1>6. CASE Remove(r)
  <2>1. mem[r] = Unused /\ (\A y \in Processes \ {r} : task'[y] = task[y])
    BY <1>0, <1>6 DEF Remove, CanStart, Load, IInv, TypeOK, ControlInv
  <2>2. EntitiesKept /\ UNCHANGED <<event, reminded>>
    BY <1>6, <2>1 DEF Remove, EntitiesKept
  <2> QED BY <2>2, NothingNew DEF SentInv, RecordedOnlyWhenSent, HasRow
<1>7. CASE Announce(r)
  <2>1. EntitiesKept /\ UNCHANGED <<event, reminded>>
    BY <1>0, <1>7, FinishKeeps DEF Announce, EntitiesKept
  <2> QED BY <2>1, NothingNew DEF SentInv, RecordedOnlyWhenSent, HasRow
<1>8. CASE Delete(r)
  <2>1. EntitiesKept /\ UNCHANGED reminded /\ event' = [event EXCEPT ![task[r].e] = Deleted]
    BY <1>0, <1>8, FinishKeeps DEF Delete, EntitiesKept
  <2> QED BY <2>1, NothingNew DEF SentInv, RecordedOnlyWhenSent, HasRow, IInv, TypeOK
<1> QED BY <1>1, <1>4, <1>5, <1>6, <1>7, <1>8 DEF Arrive

\* A pass records what it has just sent.
LEMMA PassSent ==
  ASSUME IInv, SentInv, NEW p \in Passes, List(p) \/ Remind(p) \/ RemindFails(p) \/ EndPass(p)
  PROVE  SentInv'
<1>0. p \in Processes
  BY DEF Processes
<1>1. CASE List(p)
  <2>1. \A e \in Events : listed'[p][e] # Unused => HasRow(e) /\ listed'[p][e] = event[e]
    BY <1>1 DEF List, Upcoming, IInv, TypeOK
  <2>2. \A q \in Passes \ {p} : listed'[q] = listed[q]
    BY <1>1 DEF List, IInv, TypeOK
  <2>3. UNCHANGED <<event, task, mem, reminded>>
    BY <1>1 DEF List
  <2> QED BY <2>1, <2>2, <2>3, SentKept DEF SentInv, RecordedOnlyWhenSent, MemorySent, Listed, HasRow
<1>2. CASE Remind(p)
  <2>1. PICK e \in Listed(p) \ LongTitled :
          /\ reminded' = [reminded EXCEPT ![e] = @ \union Due(listed[p][e], since[p])]
          /\ task' = [task EXCEPT ![p] = [op |-> "remind", e |-> e]]
          /\ mem' = [mem EXCEPT ![p] = [listed[p][e] EXCEPT
                                          !.sent = @ \union Recorded(listed[p][e], since[p])]]
          /\ listed' = [listed EXCEPT ![p] = [@ EXCEPT ![e] = Unused]]
    BY <1>2 DEF Remind
  <2>2. UNCHANGED event
    BY <1>2 DEF Remind
  <2>3. e \in Events /\ listed[p][e] \in Row /\ since[p] \in Nat
        /\ listed[p][e].sent \subseteq reminded[e]
    BY DEF Listed, IInv, TypeOK, SentInv, MemorySent
  <2> DEFINE due == Due(listed[p][e], since[p])
             entity == [listed[p][e] EXCEPT !.sent = @ \union Recorded(listed[p][e], since[p])]
  <2>4. entity.sent = listed[p][e].sent \union due
    BY <2>3, DueOffsets
  <2>5. \A k \in Events : reminded'[k] = IF k = e THEN reminded[k] \union due ELSE reminded[k]
    BY <2>1, <2>3 DEF IInv, TypeOK
  <2>6. mem'[p] = entity /\ task'[p].e = e
        /\ \A y \in Processes \ {p} : mem'[y] = mem[y] /\ task'[y] = task[y]
    BY <1>0, <2>1 DEF IInv, TypeOK
  <2>7. \A q \in Passes, k \in Events : listed'[q][k] # Unused => listed'[q][k] = listed[q][k]
    BY <2>1, <2>3 DEF IInv, TypeOK
  <2> HIDE DEF due, entity
  <2>8. entity.sent \subseteq reminded'[e]
    BY <2>3, <2>4, <2>5
  <2>9. \A y \in Processes \ {p} : mem[y] # Unused => task[y].e \in Events
    BY DEF IInv, ControlInv, Task
  <2>10. \A k \in Events : reminded[k] \subseteq reminded'[k]
    BY <2>5
  <2>11. \A x \in Processes : mem'[x] # Unused => mem'[x].sent \subseteq reminded'[task'[x].e]
    <3>1. ASSUME NEW x \in Processes \ {p}, mem'[x] # Unused
          PROVE  mem'[x].sent \subseteq reminded'[task'[x].e]
      BY <2>6, <2>9, <2>10, <3>1 DEF SentInv, MemorySent
    <3> QED BY <2>6, <2>8, <3>1
  <2>12. \A k \in Events : HasRow(k)' => event'[k].sent \subseteq reminded'[k]
    BY <2>2, <2>10 DEF SentInv, RecordedOnlyWhenSent, HasRow
  <2>13. \A q \in Passes : \A k \in Events : listed'[q][k] # Unused =>
           listed'[q][k].sent \subseteq reminded'[k]
    BY <2>7, <2>10 DEF SentInv, MemorySent, Listed
  <2> QED BY <2>10, <2>11, <2>12, <2>13, SentKept
<1>3. CASE RemindFails(p)
  BY <1>0, <1>3, FailKeeps, NothingNew DEF RemindFails, SentInv, RecordedOnlyWhenSent, HasRow
<1>4. CASE EndPass(p)
  BY <1>4, NothingNew DEF EndPass, EntitiesKept, SentInv, RecordedOnlyWhenSent, HasRow
<1> QED BY <1>1, <1>2, <1>3, <1>4

\* Every step keeps the records honest.
LEMMA SentStep == IInv /\ SentInv /\ [Next]_vars => SentInv'
<1> SUFFICES ASSUME IInv, SentInv, [Next]_vars PROVE SentInv'
  OBVIOUS
<1>1. ASSUME NEW r \in Requests, Arrive(r) \/ Serve(r) PROVE SentInv'
  BY <1>1, SaveSent, RequestSent DEF Serve, Processes
<1>2. ASSUME NEW p \in Passes, Pass(p) PROVE SentInv'
  BY <1>2, SaveSent, PassSent DEF Pass, Processes
<1>3. CASE Crash
  BY <1>3, NothingNew
     DEF Crash, EntitiesKept, NothingListed, SentInv, RecordedOnlyWhenSent, HasRow
<1>4. CASE Tick
  BY <1>4, NothingNew DEF Tick, processVars, EntitiesKept, SentInv, RecordedOnlyWhenSent, HasRow
<1>5. CASE UNCHANGED vars
  BY <1>5, NothingNew DEF vars, processVars, EntitiesKept, SentInv, RecordedOnlyWhenSent, HasRow
<1> QED BY <1>1, <1>2, <1>3, <1>4, <1>5 DEF Next

\* The model keeps its types for any number of events, requests and passes.
THEOREM TypeCorrect == Spec => []TypeOK
<1>1. IInv => TypeOK
  BY DEF IInv
<1> QED BY InitTypes, TypeStep, <1>1, PTL DEF Spec

\* No reminder is skipped in silence: whatever overlaps and whatever is cut
\* off, an offset in reminders_sent was sent to the members before.
THEOREM SentBeforeRecorded == Spec => []RecordedOnlyWhenSent
<1>1. IInv /\ SentInv /\ [Next]_vars => (IInv /\ SentInv)'
  BY TypeStep, SentStep
<1>2. SentInv => RecordedOnlyWhenSent
  BY DEF SentInv
<1> QED BY InitTypes, <1>1, <1>2, PTL DEF Spec

-----------------------------------------------------------------------------
(* Who holds an event *)

\* Process x has the event e in hand, beyond what its pass has listed.
Works(x, e) == task[x] # NoTask /\ task[x].e = e

\* A process between two events has no task; what a pass works on it has no
\* longer listed.
Places ==
  /\ \A x \in Processes : pc[x] \in {"new", "done", "idle", "next"} => task[x] = NoTask
  /\ \A p \in Passes : pc[p] = "idle" => \A e \in Events : listed[p][e] = Unused
  /\ \A p \in Passes, e \in Events : Works(p, e) => listed[p][e] = Unused

\* Nobody holds an event that was not created yet.
UnusedFree ==
  \A e \in Events : event[e] = Unused =>
    reminded[e] = {} /\ \A x \in Processes : e \notin Held(x)

\* The entity in the hands of the only holder x of the event e is the row, but
\* for the change under way; what differs is about to be written.
HolderOK(x, e) ==
  /\ pc[x] # "insert"
  /\ pc[x] \in {"reload", "update"} =>
       /\ HasRow(e)
       /\ event[e].sent \subseteq mem[x].sent
       /\ mem[x].cancelled = (event[e].cancelled \/ task[x].op = "cancelled")
       /\ task[x].op = "remind" => reminded[e] \subseteq mem[x].sent
  /\ pc[x] = "update" =>
       \A k \in {"sent", "cancelled"} : event[e][k] # mem[x][k] => k \in dirty[x]
  /\ pc[x] = "delete" => HasRow(e) /\ Removable(event[e])

\* Reminders that went out are recorded, or about to be.
ReminderKept(e) ==
  HasRow(e) =>
    \/ reminded[e] \subseteq event[e].sent
    \/ \E x \in Processes : Works(x, e) /\ pc[x] \in {"reload", "update"} /\ task[x].op = "remind"

\* A cancellation was announced, or is about to be.
CancelKept(e) ==
  HasRow(e) /\ event[e].cancelled =>
    \/ e \in calledOff \union LongTitled
    \/ \E x \in Processes : Works(x, e) /\ pc[x] = "announce" /\ task[x].op = "cancelled"

\* What holds of an event that was never contended.
KeptOne(e) ==
  /\ \A x, y \in Processes : e \in Held(x) /\ e \in Held(y) => x = y
  /\ \A x \in Processes : Works(x, e) => HolderOK(x, e)
  /\ \A p \in Passes : listed[p][e] # Unused => listed[p][e] = event[e]
  /\ ReminderKept(e)
  /\ CancelKept(e)

KeepInv == Places /\ UnusedFree /\ \A e \in Events \ contended : KeptOne(e)

\* x is the only process that moves.
SameAt(y) == pc'[y] = pc[y] /\ task'[y] = task[y] /\ mem'[y] = mem[y] /\ dirty'[y] = dirty[y]
OthersSame(x) ==
  /\ \A y \in Processes \ {x} : SameAt(y)
  /\ \A p \in Passes \ {x} : listed'[p] = listed[p]

\* An event that x has not in hand is left as it was.
LEMMA AwayFrom ==
  ASSUME IInv, NEW x \in Processes, OthersSame(x), NEW e \in Events, KeptOne(e),
         ~Works(x, e), ~Works(x, e)',
         x \in Passes => listed'[x][e] \in {Unused, listed[x][e]},
         event'[e] = event[e], reminded'[e] = reminded[e], calledOff \subseteq calledOff', now' = now
  PROVE  KeptOne(e)'
<1>1. \A y \in Processes : /\ Works(y, e)' <=> Works(y, e)
                           /\ Works(y, e) => SameAt(y)
  BY DEF OthersSame, SameAt, Works
<1>2. \A p \in Passes : listed'[p][e] \in {Unused, listed[p][e]}
  BY DEF OthersSame
<1>3. \A y \in Processes : (e \in Held(y))' => e \in Held(y)
  BY <1>1, <1>2 DEF Held, Listed, Works
<1>4. \A y, z \in Processes : (e \in Held(y))' /\ (e \in Held(z))' => y = z
  BY <1>3 DEF KeptOne
<1>5. HasRow(e)' <=> HasRow(e)
  BY DEF HasRow
<1>6. \A y \in Processes : Works(y, e)' => HolderOK(y, e)'
  BY <1>1, <1>5 DEF KeptOne, HolderOK, SameAt, Removable
<1>7. \A p \in Passes : listed'[p][e] # Unused => listed'[p][e] = event'[e]
  BY <1>2 DEF KeptOne
<1>8. ReminderKept(e)'
  BY <1>1, <1>5 DEF KeptOne, ReminderKept, SameAt
<1>9. CancelKept(e)'
  BY <1>1, <1>5 DEF KeptOne, CancelKept, SameAt
<1> QED BY <1>4, <1>6, <1>7, <1>8, <1>9 DEF KeptOne

\* An event that nobody but x holds.
LEMMA AtHand ==
  ASSUME IInv, NEW x \in Processes, OthersSame(x), NEW e \in Events,
         \A y \in Processes \ {x} : e \notin Held(y),
         Works(x, e)' => HolderOK(x, e)',
         x \in Passes /\ listed'[x][e] # Unused => listed'[x][e] = event'[e],
         ReminderKept(e)', CancelKept(e)'
  PROVE  KeptOne(e)'
<1>1. \A y \in Processes \ {x} : (e \notin Held(y))' /\ ~Works(y, e)'
  BY DEF OthersSame, SameAt, Held, Listed, Works
<1>2. \A p \in Passes \ {x} : listed'[p][e] = Unused
  BY <1>1 DEF Held, Listed, Processes
<1> QED BY <1>1, <1>2 DEF KeptOne

\* Who has an event in hand is its only holder.
LEMMA Alone ==
  ASSUME NEW x \in Processes, NEW e \in Events, KeptOne(e), e \in Held(x)
  PROVE  \A y \in Processes \ {x} : e \notin Held(y) /\ ~Works(y, e)
  BY DEF KeptOne, Held, Works

LEMMA InitKeep == Init => KeepInv
<1> SUFFICES ASSUME Init PROVE KeepInv
  OBVIOUS
<1>1. \A x \in Processes : task[x] = NoTask /\ Held(x) = {}
  BY DEF Init, Held, Listed, NothingListed, Processes
<1>2. \A p \in Passes, e \in Events : listed[p][e] = Unused
  BY DEF Init, NothingListed
<1>3. \A e \in Events : reminded[e] = {} /\ (HasRow(e) => event[e] \in NewRow)
  BY DEF Init, HasRow
<1>4. \A e \in Events : ReminderKept(e) /\ CancelKept(e)
  BY <1>3 DEF ReminderKept, CancelKept, NewRow
<1> QED BY <1>1, <1>2, <1>3, <1>4 DEF KeepInv, Places, UnusedFree, KeptOne, Works


-----------------------------------------------------------------------------
(* The steps of one process *)

LEMMA FinishEffect ==
  ASSUME IInv, NEW x \in Processes, NEW place, Finish(x, place)
  PROVE  /\ \A y \in Processes \ {x} : SameAt(y)
         /\ pc'[x] = place /\ task'[x] = NoTask
         /\ \A e \in Events : ~Works(x, e)'
  BY DEF Finish, GoTo, SameAt, Works, IInv, TypeOK

LEMMA AfterSaveEffect ==
  ASSUME IInv, NEW x \in Processes, AfterSave(x)
  PROVE  /\ \A y \in Processes \ {x} : SameAt(y)
         /\ \/ task[x].op = "cancelled" /\ pc'[x] = "announce" /\ task'[x] = task[x]
            \/ /\ task[x].op # "cancelled" /\ pc'[x] \in {"next", "done"}
               /\ task'[x] = NoTask /\ \A e \in Events : ~Works(x, e)'
<1>1. CASE task[x].op = "cancelled"
  BY <1>1 DEF AfterSave, GoTo, SameAt, IInv, TypeOK
<1>2. CASE task[x].op # "cancelled"
  BY <1>2, FinishEffect DEF AfterSave
<1> QED BY <1>1, <1>2

LEMMA FailEffect ==
  ASSUME IInv, NEW x \in Processes, Fail(x)
  PROVE  /\ OthersSame(x)
         /\ pc'[x] \in {"idle", "done"} /\ task'[x] = NoTask
         /\ \A e \in Events : ~Works(x, e)'
         /\ x \in Passes => \A e \in Events : listed'[x][e] = Unused
<1>1. \A p \in Passes : listed'[p] = IF p = x THEN NothingListed ELSE listed[p]
  BY DEF Fail
<1> QED BY <1>1, FinishEffect DEF Fail, OthersSame, NothingListed

\* The places after a step of x.
LEMMA PlacesStep ==
  ASSUME Places, NEW x \in Processes, OthersSame(x),
         pc'[x] \in {"new", "done", "idle", "next"} => task'[x] = NoTask,
         x \in Passes => /\ pc'[x] = "idle" => \A e \in Events : listed'[x][e] = Unused
                         /\ \A e \in Events : Works(x, e)' => listed'[x][e] = Unused
  PROVE  Places'
  BY DEF Places, OthersSame, SameAt, Works, Processes

\* No step makes an event one that was never created, and nobody takes one.
LEMMA UnusedStep ==
  ASSUME UnusedFree, NEW x \in Processes, OthersSame(x),
         \A e \in Events : event'[e] = Unused => /\ event[e] = Unused
                                                 /\ reminded'[e] = reminded[e]
                                                 /\ (e \in Held(x))' => e \in Held(x)
  PROVE  UnusedFree'
<1> SUFFICES ASSUME NEW e \in Events, event'[e] = Unused
             PROVE  reminded'[e] = {} /\ \A y \in Processes : (e \notin Held(y))'
  BY DEF UnusedFree
<1>1. reminded'[e] = {} /\ \A y \in Processes : e \notin Held(y)
  BY DEF UnusedFree
<1>2. \A y \in Processes \ {x} : (e \notin Held(y))'
  BY <1>1 DEF OthersSame, SameAt, Held, Listed
<1> QED BY <1>1, <1>2

\* A step of x that changes at most the event it has in hand.
LEMMA KeepStep ==
  ASSUME IInv, KeepInv, NEW x \in Processes, OthersSame(x),
         contended \subseteq contended', calledOff \subseteq calledOff', now' = now,
         \A e \in Events : Works(x, e) \/ Works(x, e)' \/
           /\ event'[e] = event[e] /\ reminded'[e] = reminded[e]
           /\ x \in Passes => listed'[x][e] \in {Unused, listed[x][e]},
         \A e \in Events \ contended' : KeptOne(e) /\ (Works(x, e) \/ Works(x, e)') => KeptOne(e)'
  PROVE  \A e \in Events \ contended' : KeptOne(e)'
<1> SUFFICES ASSUME NEW e \in Events \ contended' PROVE KeptOne(e)'
  OBVIOUS
<1>1. KeptOne(e)
  BY DEF KeepInv
<1>2. CASE Works(x, e) \/ Works(x, e)'
  BY <1>1, <1>2
<1>3. CASE ~Works(x, e) /\ ~Works(x, e)'
  BY <1>1, <1>3, AwayFrom
<1> QED BY <1>2, <1>3

\* The entity of the only holder does not lose what the row has.
LEMMA UpdatedKeeps ==
  ASSUME NEW row \in Row, NEW entity \in Row, NEW columns \in SUBSET Columns
  PROVE  /\ Updated(row, entity, columns).sent = IF "sent" \in columns THEN entity.sent ELSE row.sent
         /\ Updated(row, entity, columns).cancelled =
              IF "cancelled" \in columns THEN entity.cancelled ELSE row.cancelled
         /\ Updated(row, entity, columns).start =
              IF "start" \in columns THEN entity.start ELSE row.start
  BY DEF Row, Updated

LEMMA ReloadKeep ==
  ASSUME IInv, KeepInv, NEW x \in Processes, Reload(x)
  PROVE  KeepInv'
<1>0. PICK e \in Events :
        /\ pc[x] = "reload" /\ task[x] \in Task /\ e = task[x].e
        /\ UNCHANGED <<now, event, listed, since, crashes, calledOff, reminded, contended>>
  BY DEF Reload, IInv, ControlInv, Task
<1> DEFINE differing == {k \in Columns : event[e][k] # mem[x][k]}
<1>1. Works(x, e) /\ \A k \in Events : Works(x, k) => k = e
  BY <1>0 DEF Works, Task, NoTask
<1>2. /\ \A y \in Processes \ {x} : SameAt(y)
      /\ \/ ~HasRow(e) /\ pc'[x] = "insert" /\ task'[x] = task[x] /\ mem'[x] = mem[x]
         \/ /\ HasRow(e) /\ pc'[x] = "update" /\ task'[x] = task[x] /\ mem'[x] = mem[x]
            /\ dirty'[x] = differing
         \/ HasRow(e) /\ differing = {} /\ AfterSave(x)
  <2>1. CASE HasRow(e) /\ differing = {} /\ AfterSave(x)
    BY <2>1, AfterSaveEffect
  <2>2. CASE ~HasRow(e) /\ GoTo(x, "insert") /\ UNCHANGED <<task, mem, dirty>>
    BY <2>2 DEF GoTo, SameAt, IInv, TypeOK
  <2>3. CASE /\ HasRow(e) /\ dirty' = [dirty EXCEPT ![x] = differing]
             /\ GoTo(x, "update") /\ UNCHANGED <<task, mem>>
    BY <2>3 DEF GoTo, SameAt, IInv, TypeOK
  <2> QED BY <1>0, <2>1, <2>2, <2>3 DEF Reload
<1> HIDE DEF differing
<1>3. OthersSame(x)
  BY <1>0, <1>2 DEF OthersSame
<1>4. /\ task'[x] \in {task[x], NoTask}
      /\ pc'[x] \in {"insert", "update", "announce", "next", "done"}
      /\ pc'[x] \in {"next", "done"} => task'[x] = NoTask
  BY <1>2, AfterSaveEffect
<1>5. \A k \in Events : Works(x, k)' => Works(x, k)
  BY <1>4 DEF Works
<1>6. Places'
  BY <1>0, <1>3, <1>4, <1>5, PlacesStep DEF Places, KeepInv
<1>7. UnusedFree'
  BY <1>0, <1>3, <1>5, UnusedStep DEF KeepInv, Held, Listed, Works
<1>8. ASSUME e \notin contended, KeptOne(e) PROVE KeptOne(e)'
  <2>1. /\ HolderOK(x, e) /\ HasRow(e) /\ event[e] \in Row /\ mem[x] \in Row
        /\ \A y \in Processes \ {x} : e \notin Held(y) /\ ~Works(y, e)
    BY <1>0, <1>1, <1>8, Alone, RowOrNot DEF KeptOne, HolderOK, Held, Works, IInv, ControlInv
  <2>2. x \in Passes => listed'[x][e] = Unused
    BY <1>0, <1>1 DEF KeepInv, Places
  <2>3. HasRow(e)' /\ event'[e] = event[e]
    BY <1>0, <2>1 DEF HasRow
  <2>4. CASE pc'[x] = "update" /\ task'[x] = task[x] /\ mem'[x] = mem[x] /\ dirty'[x] = differing
    <3>1. HolderOK(x, e)'
      BY <1>0, <2>1, <2>3, <2>4 DEF HolderOK, differing, Columns
    <3>2. ReminderKept(e)'
      BY <1>0, <1>1, <1>8, <2>1, <2>3, <2>4 DEF KeptOne, ReminderKept, Works
    <3>3. CancelKept(e)'
      BY <1>0, <1>8, <2>1, <2>3 DEF KeptOne, CancelKept
    <3> QED BY <1>0, <1>3, <2>1, <2>2, <3>1, <3>2, <3>3, AtHand
  <2>5. CASE differing = {} /\ AfterSave(x)
    <3>1. event[e].sent = mem[x].sent /\ event[e].cancelled = mem[x].cancelled
      BY <2>5 DEF differing, Columns
    <3>2. Works(x, e)' => HolderOK(x, e)'
      BY <2>5, AfterSaveEffect DEF HolderOK
    <3>3. ReminderKept(e)'
      BY <1>0, <1>8, <2>1, <2>3, <3>1 DEF KeptOne, ReminderKept, HolderOK
    <3>4. CancelKept(e)'
      BY <1>0, <1>8, <2>1, <2>3 DEF KeptOne, CancelKept
    <3> QED BY <1>0, <1>3, <2>1, <2>2, <3>2, <3>3, <3>4, AtHand
  <2> QED BY <1>2, <2>1, <2>4, <2>5
<1>9. \A k \in Events \ contended' : KeptOne(k)'
  BY <1>0, <1>1, <1>3, <1>5, <1>8, KeepStep
<1> QED BY <1>6, <1>7, <1>9 DEF KeepInv

\* An INSERT brings back a row: only of an event that two had in hand.
LEMMA InsertKeep ==
  ASSUME IInv, KeepInv, NEW x \in Processes, Insert(x)
  PROVE  KeepInv'
<1>0. PICK e \in Events :
        /\ pc[x] = "insert" /\ task[x] \in Task /\ e = task[x].e
        /\ UNCHANGED <<now, crashes, calledOff, reminded, contended>>
        /\ mem[x] \in Row
  BY DEF Insert, IInv, ControlInv, Task
<1>1. Works(x, e) /\ \A k \in Events : Works(x, k) => k = e
  BY <1>0 DEF Works, Task, NoTask
<1>2. /\ OthersSame(x)
      /\ \A k \in Events \ {e} : event'[k] = event[k]
      /\ event'[e] \in {event[e], mem[x]}
      /\ task'[x] \in {task[x], NoTask}
      /\ pc'[x] \in {"announce", "next", "done", "idle"}
      /\ pc'[x] \in {"next", "done", "idle"} => task'[x] = NoTask
      /\ x \in Passes => \/ listed'[x] = listed[x] /\ pc'[x] # "idle"
                         \/ \A k \in Events : listed'[x][k] = Unused
  <2>1. CASE event' = [event EXCEPT ![e] = mem[x]] /\ AfterSave(x) /\ UNCHANGED <<listed, since>>
    BY <2>1, AfterSaveEffect DEF OthersSame, IInv, TypeOK
  <2>2. CASE Fail(x) /\ UNCHANGED event
    BY <2>2, FailEffect
  <2> QED BY <1>0, <2>1, <2>2 DEF Insert
<1>3. \A k \in Events : Works(x, k)' => Works(x, k)
  BY <1>2 DEF Works
<1>4. Places'
  BY <1>2, <1>3, PlacesStep DEF Places, KeepInv
<1>5. UnusedFree'
  <2>1. \A k \in Events : event'[k] = Unused => event[k] = Unused
    BY <1>0, <1>2, NoRowAssumption
  <2>2. \A k \in Events : (k \in Held(x))' => k \in Held(x)
    BY <1>2, <1>3 DEF Held, Listed, Works
  <2> QED BY <1>0, <1>2, <2>1, <2>2, UnusedStep DEF KeepInv
<1>6. ASSUME KeptOne(e) PROVE FALSE
  BY <1>0, <1>1, <1>6 DEF KeptOne, HolderOK
<1>7. \A k \in Events \ contended' : KeptOne(k)'
  BY <1>0, <1>1, <1>2, <1>3, <1>6, KeepStep
<1> QED BY <1>4, <1>5, <1>7 DEF KeepInv

\* An UPDATE writes what the row and the entity differ in.
LEMMA UpdateKeep ==
  ASSUME IInv, KeepInv, NEW x \in Processes, Update(x)
  PROVE  KeepInv'
<1>0. PICK e \in Events :
        /\ pc[x] = "update" /\ task[x] \in Task /\ e = task[x].e
        /\ UNCHANGED <<now, listed, since, crashes, calledOff, reminded, contended>>
        /\ mem[x] \in Row /\ dirty[x] \in SUBSET Columns
  BY DEF Update, IInv, TypeOK, ControlInv, Task
<1>1. Works(x, e) /\ \A k \in Events : Works(x, k) => k = e
  BY <1>0 DEF Works, Task, NoTask
<1>2. AfterSave(x)
  BY DEF Update
<1>3. /\ \A k \in Events \ {e} : event'[k] = event[k]
      /\ IF HasRow(e) THEN event'[e] = Updated(event[e], mem[x], dirty[x]) ELSE event'[e] = event[e]
  BY <1>0 DEF Update, IInv, TypeOK
<1>4. OthersSame(x)
  BY <1>0, <1>2, AfterSaveEffect DEF OthersSame
<1>5. /\ task'[x] \in {task[x], NoTask}
      /\ pc'[x] \in {"announce", "next", "done"}
      /\ pc'[x] \in {"next", "done"} => task'[x] = NoTask
  BY <1>2, AfterSaveEffect
<1>6. \A k \in Events : Works(x, k)' => Works(x, k)
  BY <1>5 DEF Works
<1>7. Places'
  BY <1>0, <1>4, <1>5, <1>6, PlacesStep DEF Places, KeepInv
<1>8. UnusedFree'
  <2>1. \A k \in Events : event'[k] = Unused => event[k] = Unused
    BY <1>0, <1>3, UpdatedRow, RowOrNot, NoRowAssumption DEF IInv
  <2>2. \A k \in Events : (k \in Held(x))' => k \in Held(x)
    BY <1>0, <1>6 DEF Held, Listed, Works
  <2> QED BY <1>0, <1>4, <2>1, <2>2, UnusedStep DEF KeepInv
<1>9. ASSUME e \notin contended, KeptOne(e) PROVE KeptOne(e)'
  <2>1. /\ HolderOK(x, e) /\ HasRow(e) /\ event[e] \in Row
        /\ \A y \in Processes \ {x} : e \notin Held(y) /\ ~Works(y, e)
    BY <1>0, <1>1, <1>9, Alone, RowOrNot DEF KeptOne, HolderOK, Held, Works, IInv
  <2>2. x \in Passes => listed'[x][e] = Unused
    BY <1>0, <1>1 DEF KeepInv, Places
  <2>3. event'[e].sent = mem[x].sent /\ event'[e].cancelled = mem[x].cancelled
    BY <1>0, <1>3, <2>1, UpdatedKeeps DEF HolderOK
  <2>4. Works(x, e)' => HolderOK(x, e)'
    BY <1>5 DEF HolderOK, Works
  <2>5. ReminderKept(e)'
    BY <1>0, <1>9, <2>1, <2>3 DEF KeptOne, ReminderKept, HolderOK
  <2>6. CancelKept(e)'
    <3>1. CASE task[x].op = "cancelled"
      BY <1>1, <1>2, <3>1, AfterSaveEffect DEF CancelKept, Works
    <3>2. CASE task[x].op # "cancelled"
      BY <1>0, <1>9, <2>1, <2>3, <3>2 DEF KeptOne, CancelKept, HolderOK
    <3> QED BY <3>1, <3>2
  <2> QED BY <1>0, <1>4, <2>1, <2>2, <2>4, <2>5, <2>6, AtHand
<1>10. \A k \in Events \ contended' : KeptOne(k)'
  BY <1>0, <1>1, <1>3, <1>4, <1>6, <1>9, KeepStep
<1> QED BY <1>7, <1>8, <1>10 DEF KeepInv

\* A request that has read a row holds it, alone if the event is not marked.
LEMMA TakeKeep ==
  ASSUME IInv, KeepInv, NEW r \in Requests, NEW e \in Events,
         NEW op \in {"update", "cancelled", "remove"},
         pc[r] = "new", HasRow(e), Takes(r, {e}),
         task' = [task EXCEPT ![r] = [op |-> op, e |-> e]],
         pc'[r] \in {"reload", "delete"}, OthersSame(r),
         UNCHANGED <<now, event, listed, calledOff, reminded>>,
         HolderOK(r, e)'
  PROVE  KeepInv'
<1>0. r \in Processes /\ r \notin Passes /\ task[r] = NoTask
  BY EventsAssumption DEF Processes, KeepInv, Places
<1>1. task'[r] = [op |-> op, e |-> e] /\ Works(r, e)' /\ \A k \in Events \ {e} : ~Works(r, k)'
  BY <1>0 DEF Works, NoTask, IInv, TypeOK
<1>2. Places'
  BY <1>0, PlacesStep DEF KeepInv
<1>3. UnusedFree'
  BY <1>0, <1>1, UnusedStep DEF KeepInv, Held, Listed, HasRow, Works
<1>4. ASSUME e \notin contended', KeptOne(e) PROVE KeptOne(e)'
  <2>1. \A y \in Processes \ {r} : e \notin Held(y) /\ ~Works(y, e)
    BY <1>4 DEF Takes, Held, Works
  <2>2. \A y \in Processes : ~Works(y, e)
    BY <1>0, <2>1 DEF Works
  <2>3. ReminderKept(e)' /\ CancelKept(e)'
    BY <1>4, <2>2 DEF KeptOne, ReminderKept, CancelKept, HasRow
  <2> QED BY <1>0, <2>1, <2>3, AtHand
<1>5. contended \subseteq contended'
  BY DEF Takes
<1>6. \A k \in Events \ contended' : KeptOne(k)'
  BY <1>0, <1>1, <1>4, <1>5, KeepStep DEF Works
<1> QED BY <1>2, <1>3, <1>6 DEF KeepInv

\* A request that is refused holds nothing.
LEMMA RefusedKeep ==
  ASSUME IInv, KeepInv, NEW r \in Requests, pc[r] = "new", pc'[r] = "done", OthersSame(r),
         UNCHANGED <<now, event, task, listed, calledOff, reminded, contended>>
  PROVE  KeepInv'
<1>0. r \in Processes /\ r \notin Passes /\ task[r] = NoTask
  BY EventsAssumption DEF Processes, KeepInv, Places
<1>1. \A k \in Events : ~Works(r, k) /\ ~Works(r, k)'
  BY <1>0 DEF Works
<1>2. Places'
  BY <1>0, PlacesStep DEF KeepInv
<1>3. UnusedFree'
  BY <1>0, UnusedStep DEF KeepInv, Held, Listed
<1>4. \A k \in Events \ contended' : KeptOne(k)'
  BY <1>0, <1>1, KeepStep
<1> QED BY <1>2, <1>3, <1>4 DEF KeepInv

LEMMA ArriveKeep ==
  ASSUME IInv, KeepInv, NEW r \in Requests, EditEvent(r) \/ Cancel(r) \/ Remove(r)
  PROVE  KeepInv'
<1>0. r \in Processes /\ pc[r] = "new"
  BY DEF Processes, EditEvent, Cancel, Remove, CanStart
<1>1. CASE EditEvent(r)
  <2>1. PICK e \in Events, start \in Starts, offsets \in OffsetChoices :
          /\ Load(r, "update", e)
          /\ mem' = IF HasRow(e) THEN [mem EXCEPT ![r] = Edited(event[e], start, offsets)] ELSE mem
          /\ GoTo(r, IF HasRow(e) THEN "reload" ELSE "done")
    BY <1>1 DEF EditEvent
  <2>2. UNCHANGED <<now, event, dirty, listed, since, crashes, calledOff, reminded>>
    BY <1>1 DEF EditEvent
  <2>3. CASE HasRow(e)
    <3>1. /\ Takes(r, {e}) /\ task' = [task EXCEPT ![r] = [op |-> "update", e |-> e]]
          /\ mem' = [mem EXCEPT ![r] = Edited(event[e], start, offsets)] /\ GoTo(r, "reload")
      BY <2>1, <2>3 DEF Load
    <3>2. OthersSame(r) /\ pc'[r] = "reload" /\ mem'[r] = Edited(event[e], start, offsets)
          /\ task'[r].op = "update"
      BY <1>0, <2>2, <3>1 DEF OthersSame, SameAt, GoTo, IInv, TypeOK
    <3>3. Edited(event[e], start, offsets).sent = event[e].sent
          /\ Edited(event[e], start, offsets).cancelled = event[e].cancelled
          /\ event[e].cancelled \in BOOLEAN
      BY <2>3, RowOrNot DEF IInv, Edited, Row
    <3>4. HolderOK(r, e)'
      BY <2>2, <2>3, <3>2, <3>3 DEF HolderOK, HasRow
    <3> QED BY <1>0, <2>2, <2>3, <3>1, <3>2, <3>4, TakeKeep
  <2>4. CASE ~HasRow(e)
    <3>1. OthersSame(r) /\ pc'[r] = "done" /\ UNCHANGED <<task, contended>>
      BY <1>0, <2>1, <2>2, <2>4 DEF Load, OthersSame, SameAt, GoTo, IInv, TypeOK
    <3> QED BY <1>0, <2>2, <3>1, RefusedKeep
  <2> QED BY <2>3, <2>4
<1>2. CASE Cancel(r)
  <2>1. PICK e \in Events :
          /\ Load(r, "cancelled", e)
          /\ mem' = IF HasRow(e) THEN [mem EXCEPT ![r] = [event[e] EXCEPT !.cancelled = TRUE]] ELSE mem
          /\ GoTo(r, IF HasRow(e) THEN "reload" ELSE "done")
    BY <1>2 DEF Cancel
  <2>2. UNCHANGED <<now, event, dirty, listed, since, crashes, calledOff, reminded>>
    BY <1>2 DEF Cancel
  <2>3. CASE HasRow(e)
    <3>1. /\ Takes(r, {e}) /\ task' = [task EXCEPT ![r] = [op |-> "cancelled", e |-> e]]
          /\ mem' = [mem EXCEPT ![r] = [event[e] EXCEPT !.cancelled = TRUE]] /\ GoTo(r, "reload")
      BY <2>1, <2>3 DEF Load
    <3>2. OthersSame(r) /\ pc'[r] = "reload" /\ mem'[r] = [event[e] EXCEPT !.cancelled = TRUE]
          /\ task'[r].op = "cancelled"
      BY <1>0, <2>2, <3>1 DEF OthersSame, SameAt, GoTo, IInv, TypeOK
    <3>3. mem'[r].sent = event[e].sent /\ mem'[r].cancelled = TRUE
      BY <2>3, <3>2, RowOrNot DEF IInv, Row
    <3>4. HolderOK(r, e)'
      BY <2>2, <2>3, <3>2, <3>3 DEF HolderOK, HasRow
    <3> QED BY <1>0, <2>2, <2>3, <3>1, <3>2, <3>4, TakeKeep
  <2>4. CASE ~HasRow(e)
    <3>1. OthersSame(r) /\ pc'[r] = "done" /\ UNCHANGED <<task, contended>>
      BY <1>0, <2>1, <2>2, <2>4 DEF Load, OthersSame, SameAt, GoTo, IInv, TypeOK
    <3> QED BY <1>0, <2>2, <3>1, RefusedKeep
  <2> QED BY <2>3, <2>4
<1>3. CASE Remove(r)
  <2>1. PICK e \in Events :
          IF HasRow(e) /\ Removable(event[e])
          THEN Load(r, "remove", e) /\ GoTo(r, "delete")
          ELSE GoTo(r, "done") /\ UNCHANGED <<task, contended>>
    BY <1>3 DEF Remove
  <2>2. UNCHANGED <<now, event, mem, dirty, listed, since, crashes, calledOff, reminded>>
    BY <1>3 DEF Remove
  <2>3. CASE HasRow(e) /\ Removable(event[e])
    <3>1. /\ Takes(r, {e}) /\ task' = [task EXCEPT ![r] = [op |-> "remove", e |-> e]]
          /\ GoTo(r, "delete")
      BY <2>1, <2>3 DEF Load
    <3>2. OthersSame(r) /\ pc'[r] = "delete"
      BY <1>0, <2>2, <3>1 DEF OthersSame, SameAt, GoTo, IInv, TypeOK
    <3>3. HolderOK(r, e)'
      BY <2>2, <2>3, <3>2 DEF HolderOK, HasRow, Removable
    <3> QED BY <1>0, <2>2, <2>3, <3>1, <3>2, <3>3, TakeKeep
  <2>4. CASE ~(HasRow(e) /\ Removable(event[e]))
    <3>1. OthersSame(r) /\ pc'[r] = "done" /\ UNCHANGED <<task, contended>>
      BY <1>0, <2>1, <2>2, <2>4 DEF OthersSame, SameAt, GoTo, IInv, TypeOK
    <3> QED BY <1>0, <2>2, <3>1, RefusedKeep
  <2> QED BY <2>3, <2>4
<1> QED BY <1>1, <1>2, <1>3

LEMMA CreateKeep ==
  ASSUME IInv, KeepInv, NEW r \in Requests, Create(r)
  PROVE  KeepInv'
<1>0. r \in Processes /\ r \notin Passes /\ pc[r] = "new" /\ task[r] = NoTask
      /\ UNCHANGED <<now, listed, since, crashes, calledOff, reminded, contended>>
  BY EventsAssumption DEF Processes, Create, CanStart, KeepInv, Places
<1>1. PICK e \in Events, row \in NewRow, sendNotification \in BOOLEAN :
        /\ event[e] = Unused
        /\ event' = [event EXCEPT ![e] = row]
        /\ IF sendNotification
           THEN /\ GoTo(r, "announce")
                /\ task' = [task EXCEPT ![r] = [op |-> "new", e |-> e]]
                /\ UNCHANGED <<mem, dirty>>
           ELSE Finish(r, "done")
  BY DEF Create
<1>2. /\ OthersSame(r)
      /\ \/ pc'[r] = "announce" /\ task'[r] = [op |-> "new", e |-> e]
         \/ pc'[r] = "done" /\ task'[r] = NoTask
  <2>1. CASE Finish(r, "done")
    BY <1>0, <2>1, FinishEffect DEF OthersSame
  <2>2. CASE /\ GoTo(r, "announce")
             /\ task' = [task EXCEPT ![r] = [op |-> "new", e |-> e]]
             /\ UNCHANGED <<mem, dirty>>
    BY <1>0, <2>2 DEF OthersSame, SameAt, GoTo, IInv, TypeOK
  <2> QED BY <1>1, <2>1, <2>2
<1>3. \A k \in Events : ~Works(r, k) /\ (Works(r, k)' => k = e)
  BY <1>0, <1>2 DEF Works
<1>4. /\ \A k \in Events \ {e} : event'[k] = event[k]
      /\ event'[e] = row /\ row.sent = {} /\ row.cancelled = FALSE /\ row # Unused
  <2>1. row \in Row /\ row.sent = {}
    BY NewRows
  <2>2. row.cancelled = FALSE
    BY DEF NewRow
  <2>3. /\ \A k \in Events \ {e} : event'[k] = event[k]
        /\ event'[e] = row
    BY <1>1 DEF IInv, TypeOK
  <2> QED BY <2>1, <2>2, <2>3, NoRowAssumption
<1>5. Places'
  BY <1>0, <1>2, PlacesStep DEF KeepInv
<1>6. UnusedFree'
  BY <1>0, <1>2, <1>3, <1>4, UnusedStep DEF KeepInv, Held, Listed, Works
<1>7. KeptOne(e)'
  <2>1. reminded'[e] = {} /\ \A y \in Processes : e \notin Held(y)
    BY <1>0, <1>1 DEF KeepInv, UnusedFree
  <2>2. Works(r, e)' => HolderOK(r, e)'
    BY <1>2 DEF HolderOK, Works
  <2>3. ReminderKept(e)' /\ CancelKept(e)'
    BY <1>4, <2>1 DEF ReminderKept, CancelKept
  <2> QED BY <1>0, <1>2, <2>1, <2>2, <2>3, AtHand
<1>8. \A k \in Events \ contended' : KeptOne(k)'
  <2> SUFFICES ASSUME NEW k \in Events \ contended', k # e PROVE KeptOne(k)'
    BY <1>7
  <2> QED BY <1>0, <1>2, <1>3, <1>4, AwayFrom DEF KeepInv
<1> QED BY <1>5, <1>6, <1>8 DEF KeepInv

\* The notification and the DELETE end a request.
LEMMA EndKeep ==
  ASSUME IInv, KeepInv, NEW r \in Requests, Announce(r) \/ Delete(r)
  PROVE  KeepInv'
<1>0. /\ r \in Processes /\ r \notin Passes /\ Finish(r, "done") /\ task[r] \in Task
      /\ UNCHANGED <<now, listed, since, crashes, reminded, contended>>
  BY EventsAssumption DEF Processes, Announce, Delete, IInv, ControlInv
<1>1. PICK e \in Events : task[r].e = e
  BY <1>0 DEF Task
<1>2. /\ OthersSame(r) /\ pc'[r] = "done" /\ task'[r] = NoTask
      /\ \A k \in Events : ~Works(r, k)'
  BY <1>0, FinishEffect DEF OthersSame
<1>3. Works(r, e) /\ \A k \in Events : Works(r, k) => k = e
  BY <1>0, <1>1 DEF Works, Task, NoTask
<1>4. /\ \A k \in Events \ {e} : event'[k] = event[k]
      /\ event'[e] \in {event[e], Deleted}
      /\ calledOff \subseteq calledOff'
  BY <1>1 DEF Announce, Delete, IInv, TypeOK
<1>5. Places'
  BY <1>0, <1>2, PlacesStep DEF KeepInv
<1>6. UnusedFree'
  BY <1>0, <1>2, <1>4, NoRowAssumption, UnusedStep DEF KeepInv, Held, Listed
<1>7. ASSUME KeptOne(e) PROVE KeptOne(e)'
  <2>1. \A y \in Processes \ {r} : e \notin Held(y) /\ ~Works(y, e)
    BY <1>0, <1>3, <1>7, Alone DEF Held, Works
  <2>2. CASE Announce(r)
    <3>1. UNCHANGED event /\ (HasRow(e)' <=> HasRow(e)) /\ pc[r] = "announce"
      BY <2>2 DEF Announce, HasRow
    <3>2. ReminderKept(e)'
      BY <1>0, <1>7, <2>1, <3>1 DEF KeptOne, ReminderKept
    <3>3. CancelKept(e)'
      BY <1>1, <1>4, <1>7, <2>1, <2>2, <3>1 DEF KeptOne, CancelKept, Announce
    <3> QED BY <1>0, <1>2, <2>1, <3>2, <3>3, AtHand
  <2>3. CASE Delete(r)
    <3>1. ~HasRow(e)'
      BY <1>1, <2>3 DEF Delete, HasRow, IInv, TypeOK
    <3> QED BY <1>0, <1>2, <2>1, <3>1, AtHand DEF ReminderKept, CancelKept
  <2> QED BY <2>2, <2>3
<1>8. \A k \in Events \ contended' : KeptOne(k)'
  BY <1>0, <1>2, <1>3, <1>4, <1>7, KeepStep
<1> QED BY <1>5, <1>6, <1>8 DEF KeepInv

-----------------------------------------------------------------------------
(* The steps of a pass *)

LEMMA ListKeep ==
  ASSUME IInv, KeepInv, NEW p \in Passes, List(p)
  PROVE  KeepInv'
<1> DEFINE due == {e \in Upcoming(now) : Due(event[e], now) # {}}
<1>0. /\ p \in Processes /\ pc[p] = "idle" /\ task[p] = NoTask
      /\ \A k \in Events : listed[p][k] = Unused
  BY DEF Processes, List, KeepInv, Places
<1>1. /\ \A k \in Events : listed'[p][k] = IF k \in due THEN event[k] ELSE Unused
      /\ \A q \in Passes \ {p} : listed'[q] = listed[q]
      /\ Takes(p, due) /\ GoTo(p, "next")
      /\ UNCHANGED <<now, event, task, mem, dirty, crashes, calledOff, reminded>>
  BY DEF List, IInv, TypeOK
<1>2. OthersSame(p) /\ pc'[p] = "next"
  BY <1>0, <1>1 DEF OthersSame, SameAt, GoTo, IInv, TypeOK
<1>3. due \subseteq Events /\ \A k \in due : HasRow(k)
  BY DEF Upcoming
<1> HIDE DEF due
<1>4. \A k \in Events : ~Works(p, k) /\ ~Works(p, k)'
  BY <1>0, <1>1 DEF Works
<1>5. Places'
  BY <1>0, <1>1, <1>2, <1>4, PlacesStep DEF KeepInv
<1>6. UnusedFree'
  <2>1. \A k \in Events : event'[k] = Unused => k \notin due
    BY <1>1, <1>3 DEF HasRow
  <2> QED BY <1>0, <1>1, <1>2, <2>1, UnusedStep DEF KeepInv, Held, Listed
<1>7. ASSUME NEW k \in Events \ contended' PROVE KeptOne(k)'
  <2>1. KeptOne(k)
    BY <1>1 DEF Takes, KeepInv
  <2>2. CASE k \in due
    <3>1. \A y \in Processes \ {p} : k \notin Held(y) /\ ~Works(y, k)
      BY <1>1, <2>2 DEF Takes, Held, Works
    <3>2. ReminderKept(k)' /\ CancelKept(k)'
      BY <1>1, <1>4, <2>1, <3>1 DEF KeptOne, ReminderKept, CancelKept, HasRow
    <3> QED BY <1>0, <1>1, <1>2, <1>4, <2>2, <3>1, <3>2, AtHand
  <2>3. CASE k \notin due
    BY <1>0, <1>1, <1>2, <1>4, <2>1, <2>3, AwayFrom
  <2> QED BY <2>2, <2>3
<1> QED BY <1>5, <1>6, <1>7 DEF KeepInv

LEMMA RemindKeep ==
  ASSUME IInv, KeepInv, NEW p \in Passes, Remind(p)
  PROVE  KeepInv'
<1>1. PICK e \in Listed(p) \ LongTitled :
        /\ reminded' = [reminded EXCEPT ![e] = @ \union Due(listed[p][e], since[p])]
        /\ task' = [task EXCEPT ![p] = [op |-> "remind", e |-> e]]
        /\ mem' = [mem EXCEPT ![p] = [listed[p][e] EXCEPT
                                        !.sent = @ \union Recorded(listed[p][e], since[p])]]
        /\ listed' = [listed EXCEPT ![p] = [@ EXCEPT ![e] = Unused]]
  BY DEF Remind
<1>2. /\ p \in Processes /\ pc[p] = "next" /\ task[p] = NoTask
      /\ GoTo(p, "reload") /\ UNCHANGED <<now, event, dirty, since, crashes, calledOff, contended>>
  BY DEF Processes, Remind, KeepInv, Places
<1>3. e \in Events /\ listed[p][e] \in Row /\ since[p] \in Nat /\ e \in Held(p)
  BY DEF Listed, Held, IInv, TypeOK
<1> DEFINE due == Due(listed[p][e], since[p])
           entity == [listed[p][e] EXCEPT !.sent = @ \union Recorded(listed[p][e], since[p])]
<1>4. entity.sent = listed[p][e].sent \union due /\ entity.cancelled = listed[p][e].cancelled
  BY <1>3, DueOffsets DEF Row
<1>5. /\ \A k \in Events \ {e} : reminded'[k] = reminded[k] /\ listed'[p][k] = listed[p][k]
      /\ reminded'[e] = reminded[e] \union due /\ listed'[p][e] = Unused
      /\ mem'[p] = entity /\ task'[p] = [op |-> "remind", e |-> e] /\ pc'[p] = "reload"
      /\ OthersSame(p)
  BY <1>1, <1>2, <1>3 DEF OthersSame, SameAt, GoTo, IInv, TypeOK
<1> HIDE DEF due, entity
<1>6. \A k \in Events : ~Works(p, k) /\ (Works(p, k)' <=> k = e)
  BY <1>2, <1>5 DEF Works, NoTask
<1>7. Places'
  BY <1>2, <1>5, <1>6, PlacesStep DEF KeepInv
<1>8. UnusedFree'
  <2>1. event[e] # Unused
    BY <1>2, <1>3 DEF KeepInv, UnusedFree
  <2>2. \A k \in Events \ {e} : (k \in Held(p))' => k \in Held(p)
    BY <1>5, <1>6 DEF Held, Listed, Works
  <2> QED BY <1>2, <1>5, <2>1, <2>2, UnusedStep DEF KeepInv
<1>9. ASSUME KeptOne(e) PROVE KeptOne(e)'
  <2>1. \A y \in Processes \ {p} : e \notin Held(y) /\ ~Works(y, e)
    BY <1>2, <1>3, <1>9, Alone
  <2>2. listed[p][e] = event[e] /\ listed[p][e] # Unused /\ HasRow(e)
    BY <1>3, <1>9, NoRowAssumption DEF KeptOne, Listed, HasRow
  <2>3. reminded[e] \subseteq event[e].sent
    BY <1>2, <1>9, <2>1, <2>2 DEF KeptOne, ReminderKept
  <2>4. HolderOK(p, e)'
    <3>1. event[e].cancelled \in BOOLEAN
      BY <1>3, <2>2 DEF Row
    <3> QED BY <1>2, <1>4, <1>5, <2>2, <2>3, <3>1 DEF HolderOK, HasRow
  <2>5. ReminderKept(e)'
    <3>1. Works(p, e)' /\ pc'[p] \in {"reload", "update"} /\ task'[p].op = "remind"
      BY <1>3, <1>5, <1>6
    <3> QED BY <1>2, <3>1 DEF ReminderKept
  <2>6. CancelKept(e)'
    BY <1>2, <1>9, <2>1 DEF KeptOne, CancelKept, HasRow
  <2> QED BY <1>2, <1>3, <1>5, <2>1, <2>4, <2>5, <2>6, AtHand
<1>10. \A k \in Events \ contended' : KeptOne(k)'
  <2> SUFFICES ASSUME NEW k \in Events \ contended', k # e PROVE KeptOne(k)'
    BY <1>2, <1>9 DEF KeepInv
  <2> QED BY <1>2, <1>5, <1>6, AwayFrom DEF KeepInv
<1> QED BY <1>7, <1>8, <1>10 DEF KeepInv

\* A pass that ends lets go of what it has listed.
LEMMA PassEndKeep ==
  ASSUME IInv, KeepInv, NEW p \in Passes, RemindFails(p) \/ EndPass(p)
  PROVE  KeepInv'
<1>0. /\ p \in Processes /\ task[p] = NoTask
      /\ UNCHANGED <<now, event, crashes, calledOff, reminded, contended>>
  BY DEF Processes, RemindFails, EndPass, KeepInv, Places
<1>1. /\ OthersSame(p) /\ pc'[p] \in {"idle", "done"} /\ task'[p] = NoTask
      /\ \A k \in Events : listed'[p][k] = Unused
  <2>1. CASE RemindFails(p)
    BY <1>0, <2>1, FailEffect DEF RemindFails
  <2>2. CASE EndPass(p)
    BY <1>0, <2>2 DEF EndPass, OthersSame, SameAt, GoTo, Listed, IInv, TypeOK
  <2> QED BY <2>1, <2>2
<1>2. \A k \in Events : ~Works(p, k) /\ ~Works(p, k)'
  BY <1>0, <1>1 DEF Works
<1>3. Places'
  BY <1>0, <1>1, <1>2, PlacesStep DEF KeepInv
<1>4. UnusedFree'
  BY <1>0, <1>1, UnusedStep DEF KeepInv, Held, Listed
<1>5. \A k \in Events \ contended' : KeptOne(k)'
  BY <1>0, <1>1, <1>2, KeepStep
<1> QED BY <1>3, <1>4, <1>5 DEF KeepInv

-----------------------------------------------------------------------------
(* A restart, the clock, and the theorems *)

\* After a restart nobody holds anything; what was cut off is marked.
LEMMA CrashKeep == IInv /\ KeepInv /\ Crash => KeepInv'
<1> SUFFICES ASSUME IInv, KeepInv, Crash PROVE KeepInv'
  OBVIOUS
<1>0. /\ \A x \in Processes : task'[x] = NoTask
      /\ \A p \in Passes : pc'[p] = "idle" /\ listed'[p] = NothingListed
      /\ UNCHANGED <<now, event, calledOff, reminded>>
      /\ contended \subseteq contended'
      /\ \A x \in Processes : pc[x] \in {"reload", "insert", "update", "announce"}
                                => task[x].e \in contended'
  BY DEF Crash, Processes
<1>1. \A x \in Processes : (Held(x) = {})' /\ \A e \in Events : ~Works(x, e)'
  BY <1>0 DEF Held, Listed, NothingListed, Works
<1>2. Places'
  BY <1>0, <1>1 DEF Places, NothingListed
<1>3. UnusedFree'
  BY <1>0, <1>1 DEF KeepInv, UnusedFree
<1>4. ASSUME NEW e \in Events \ contended' PROVE KeptOne(e)'
  <2>1. KeptOne(e) /\ \A p \in Passes : listed'[p][e] = Unused
    BY <1>0 DEF KeepInv, NothingListed
  <2>2. ReminderKept(e)' /\ CancelKept(e)'
    BY <1>0, <2>1 DEF KeptOne, ReminderKept, CancelKept, HasRow, Works
  <2> QED BY <1>1, <2>1, <2>2 DEF KeptOne
<1> QED BY <1>2, <1>3, <1>4 DEF KeepInv

\* As time goes on, what may be removed may still be removed.
LEMMA TimeKeep ==
  ASSUME IInv, KeepInv, now' \in Nat, now <= now',
         UNCHANGED <<event, processVars, listed, since, crashes, calledOff, reminded, contended>>
  PROVE  KeepInv'
<1>1. Places' /\ UnusedFree'
  BY DEF KeepInv, Places, UnusedFree, processVars, Works, Held, Listed
<1>2. ASSUME NEW e \in Events, KeptOne(e) PROVE KeptOne(e)'
  <2>1. \A x \in Processes : (Works(x, e)' <=> Works(x, e)) /\ (Held(x)' = Held(x))
    BY DEF Works, Held, Listed, processVars
  <2>2. ASSUME NEW x \in Processes, HolderOK(x, e) PROVE HolderOK(x, e)'
    <3>1. HasRow(e) /\ Removable(event[e]) => Removable(event[e])'
      BY RowOrNot DEF Removable, Row, IInv, TypeOK
    <3> QED BY <2>2, <3>1 DEF HolderOK, HasRow, processVars
  <2>3. ReminderKept(e)' /\ CancelKept(e)'
    BY <1>2, <2>1 DEF KeptOne, ReminderKept, CancelKept, HasRow, processVars
  <2> QED BY <1>2, <2>1, <2>2, <2>3 DEF KeptOne
<1> QED BY <1>1, <1>2 DEF KeepInv

LEMMA KeepNext == IInv /\ KeepInv /\ [Next]_vars => KeepInv'
<1> SUFFICES ASSUME IInv, KeepInv, [Next]_vars PROVE KeepInv'
  OBVIOUS
<1>1. ASSUME NEW x \in Processes, Reload(x) \/ Insert(x) \/ Update(x) PROVE KeepInv'
  BY <1>1, ReloadKeep, InsertKeep, UpdateKeep
<1>2. ASSUME NEW r \in Requests, Arrive(r) \/ Serve(r) PROVE KeepInv'
  BY <1>1, <1>2, ArriveKeep, CreateKeep, EndKeep DEF Arrive, Serve, Processes
<1>3. ASSUME NEW p \in Passes, Pass(p) PROVE KeepInv'
  BY <1>1, <1>3, ListKeep, RemindKeep, PassEndKeep DEF Pass, Processes
<1>4. CASE Tick
  BY <1>4, TimeKeep DEF Tick, IInv, TypeOK
<1>5. CASE UNCHANGED vars
  BY <1>5, TimeKeep DEF vars, IInv, TypeOK
<1> QED BY <1>2, <1>3, <1>4, <1>5, CrashKeep DEF Next

\* Under KeepInv no pass is about to repeat a reminder.
LEMMA NoneRepeated == IInv /\ KeepInv => NoRepetition
<1> SUFFICES ASSUME IInv, KeepInv, NEW p \in Passes, pc[p] = "next",
                    NEW e \in Listed(p) \ contended
             PROVE  Due(listed[p][e], since[p]) \intersect reminded[e] = {}
  BY DEF NoRepetition
<1>1. p \in Processes /\ e \in Events /\ listed[p][e] # Unused /\ e \in Held(p) /\ task[p] = NoTask
  BY DEF Processes, Listed, Held, KeepInv, Places
<1>2. KeptOne(e) /\ listed[p][e] = event[e] /\ HasRow(e)
  <2>1. KeptOne(e) /\ listed[p][e] = event[e]
    BY <1>1 DEF KeepInv, KeptOne
  <2>2. listed[p][e] \in Row
    BY <1>1 DEF IInv, TypeOK
  <2> QED BY <2>1, <2>2, NoRowAssumption DEF HasRow
<1>3. \A y \in Processes : ~Works(y, e)
  BY <1>1, <1>2, Alone DEF Works
<1>4. reminded[e] \subseteq event[e].sent
  BY <1>2, <1>3 DEF KeptOne, ReminderKept
<1> QED BY <1>2, <1>4 DEF Due

\* What a step may do to an event that is not contended.
CancelledStays ==
  \A e \in Events \ contended' :
    /\ event[e] = Deleted => event'[e] = Deleted
    /\ HasRow(e) /\ event[e].cancelled => event'[e] = Deleted \/ event'[e].cancelled
    /\ HasRow(e) /\ event'[e] = Deleted
         => event[e].start <= now \/ e \in calledOff \union LongTitled

LEMMA CancelStep == IInv /\ KeepInv /\ [Next]_vars => CancelledStays
<1> SUFFICES ASSUME IInv, KeepInv, [Next]_vars PROVE CancelledStays
  OBVIOUS
<1>1. ASSUME UNCHANGED event PROVE CancelledStays
  BY <1>1 DEF CancelledStays, HasRow
<1>2. ASSUME NEW r \in Requests, Create(r) PROVE CancelledStays
  <2>1. PICK e \in Events, row \in NewRow : event[e] = Unused /\ event' = [event EXCEPT ![e] = row]
    BY <1>2 DEF Create
  <2>2. \A k \in Events : event'[k] = event[k] \/ event[k] = Unused
    BY <2>1 DEF IInv, TypeOK
  <2> QED BY <2>2, NoRowAssumption DEF CancelledStays, HasRow
<1>3. ASSUME NEW x \in Processes, NEW e \in Events, task[x] \in Task, task[x].e = e,
             \A k \in Events \ {e} : event'[k] = event[k],
             contended' = contended,
             KeptOne(e) => /\ HasRow(e)
                           /\ event[e].cancelled => event'[e] = Deleted \/ event'[e].cancelled
                           /\ event'[e] = Deleted
                                => event[e].start <= now \/ e \in calledOff \union LongTitled
      PROVE CancelledStays
  BY <1>3 DEF CancelledStays, HasRow, KeepInv
<1>4. ASSUME NEW x \in Processes, Insert(x) PROVE CancelledStays
  <2>1. PICK e \in Events : task[x].e = e /\ task[x] \in Task /\ pc[x] = "insert"
                            /\ contended' = contended
    BY <1>4 DEF Insert, IInv, ControlInv, Task
  <2>2. \A k \in Events \ {e} : event'[k] = event[k]
    BY <1>4, <2>1 DEF Insert, IInv, TypeOK
  <2>3. ~KeptOne(e)
    BY <2>1 DEF KeptOne, HolderOK, Works, Task, NoTask
  <2> QED BY <1>3, <2>1, <2>2, <2>3
<1>5. ASSUME NEW x \in Processes, Update(x) PROVE CancelledStays
  <2>1. PICK e \in Events :
          /\ task[x].e = e /\ task[x] \in Task /\ pc[x] = "update" /\ contended' = contended
          /\ mem[x] \in Row /\ dirty[x] \in SUBSET Columns
    BY <1>5 DEF Update, IInv, TypeOK, ControlInv, Task
  <2>2. /\ \A k \in Events \ {e} : event'[k] = event[k]
        /\ HasRow(e) => event'[e] = Updated(event[e], mem[x], dirty[x])
    BY <1>5, <2>1 DEF Update, IInv, TypeOK
  <2>3. ASSUME KeptOne(e)
        PROVE  HasRow(e) /\ (event[e].cancelled => event'[e].cancelled) /\ event'[e] # Deleted
    <3>1. HolderOK(x, e) /\ HasRow(e) /\ event[e] \in Row
      BY <2>1, <2>3, RowOrNot DEF KeptOne, HolderOK, Works, Task, NoTask, IInv
    <3>2. event'[e] \in Row /\ event'[e].cancelled \in {event[e].cancelled, mem[x].cancelled}
      BY <2>1, <2>2, <3>1, UpdatedRow, UpdatedKeeps
    <3>3. event[e].cancelled => mem[x].cancelled
      BY <2>1, <3>1 DEF HolderOK
    <3> QED BY <3>1, <3>2, <3>3, NoRowAssumption
  <2> QED BY <1>3, <2>1, <2>2, <2>3
<1>6. ASSUME NEW r \in Requests, Delete(r) PROVE CancelledStays
  <2>1. PICK e \in Events :
          /\ task[r].e = e /\ task[r] \in Task /\ pc[r] = "delete" /\ contended' = contended
          /\ event' = [event EXCEPT ![e] = Deleted] /\ r \in Processes
    BY <1>6 DEF Delete, IInv, ControlInv, Task, Processes
  <2>2. event'[e] = Deleted /\ \A k \in Events \ {e} : event'[k] = event[k]
    BY <2>1 DEF IInv, TypeOK
  <2>3. ASSUME KeptOne(e)
        PROVE  HasRow(e) /\ (event[e].start <= now \/ e \in calledOff \union LongTitled)
    <3>1. Works(r, e) /\ e \in Held(r)
      BY <2>1 DEF Works, Held, Task, NoTask
    <3>2. HasRow(e) /\ Removable(event[e])
      BY <2>1, <2>3, <3>1 DEF KeptOne, HolderOK
    <3>3. \A y \in Processes : Works(y, e) => pc[y] = "delete"
      BY <2>1, <2>3, <3>1, Alone
    <3> QED BY <2>3, <3>2, <3>3 DEF KeptOne, CancelKept, Removable
  <2> QED BY <1>3, <2>1, <2>2, <2>3
<1>7. ASSUME NEW r \in Requests, Arrive(r) \/ Serve(r) PROVE CancelledStays
  <2>1. CASE EditEvent(r) \/ Cancel(r) \/ Remove(r) \/ Reload(r) \/ Announce(r)
    BY <1>1, <2>1 DEF EditEvent, Cancel, Remove, Reload, Announce
  <2> QED BY <1>2, <1>4, <1>5, <1>6, <1>7, <2>1 DEF Arrive, Serve, Processes
<1>8. ASSUME NEW p \in Passes, Pass(p) PROVE CancelledStays
  <2>1. CASE List(p) \/ Remind(p) \/ RemindFails(p) \/ EndPass(p) \/ Reload(p)
    BY <1>1, <2>1 DEF List, Remind, RemindFails, EndPass, Reload
  <2> QED BY <1>4, <1>5, <1>8, <2>1 DEF Pass, Processes
<1>9. CASE Crash \/ Tick \/ UNCHANGED vars
  BY <1>1, <1>9 DEF Crash, Tick, vars
<1> QED BY <1>7, <1>8, <1>9 DEF Next

\* No reminder goes out twice, unless two handlers held the event at once or a
\* restart cut one off between the reminder and its record: for any number of
\* requests, of passes that overlap, and of restarts.
THEOREM NeverRepeated == Spec => []NoRepetition
<1>1. Init => IInv /\ KeepInv
  BY InitTypes, InitKeep
<1>2. IInv /\ KeepInv /\ [Next]_vars => (IInv /\ KeepInv)'
  BY TypeStep, KeepNext
<1> QED BY <1>1, <1>2, NoneRepeated, PTL DEF Spec

\* A cancelled event stays cancelled and a removed one gone, and none with a
\* title that fits disappears before its time untold, unless it is contended.
THEOREM CancelledStands == Spec => CancelledForGood
<1>1. Init => IInv /\ KeepInv
  BY InitTypes, InitKeep
<1>2. IInv /\ KeepInv /\ [Next]_vars => (IInv /\ KeepInv)'
  BY TypeStep, KeepNext
<1>3. IInv /\ KeepInv /\ [Next]_vars => [CancelledStays]_vars
  BY CancelStep
<1> QED BY <1>1, <1>2, <1>3, PTL DEF Spec, CancelledForGood, CancelledStays
=============================================================================
