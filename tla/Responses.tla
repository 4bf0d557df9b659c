----------------------------- MODULE Responses -----------------------------
(***************************************************************************)
(* What members answer to an event and to a notification, and who is marked *)
(* present: rsvp and markAttendance of EventsService, markRead of           *)
(* NotificationsService. Each looks a row up by the member, and inserts it  *)
(* or saves it, without a transaction; the tables hold one row per member.  *)
(* One event, and one notification, with what several browsers and phones  *)
(* send about it.                                                          *)
(***************************************************************************)
EXTENDS FiniteSets, Naturals

CONSTANTS
    NoRow,
    Respondents,   \* the members of the society
    Prompt,        \* those who have answered, and been marked, before
    RsvpStatus,    \* the answers
    MaxTaps,       \* bound on the requests that are sent
    MaxOutages     \* bound on restarts

ASSUME ResponsesAssumption ==
    /\ NoRow \notin RsvpStatus \cup BOOLEAN
    /\ RsvpStatus # {}
    /\ Prompt \subseteq Respondents
    /\ MaxTaps \in Nat /\ MaxOutages \in Nat

VARIABLES
    event,    \* "planned", "cancelled" or "deleted"
    rows,     \* event_rsvps, event_attendance and notification_reads
    taps,     \* the requests
    told,     \* history: what the row may hold, for all its member was told
    outages

responsesVars == <<event, rows, taps, told, outages>>

Taps == 1..MaxTaps
Tables == {"rsvp", "presence", "read"}
Values(table) ==
    CASE table = "rsvp" -> RsvpStatus [] table = "presence" -> BOOLEAN [] OTHER -> {TRUE}
AllValues == RsvpStatus \cup BOOLEAN
Keys == Tables \X Respondents

(* A request: the members it is about, what it says of each, those that are *)
(* still to be saved, and the row that was found for the one being saved.   *)
NoTap == [at |-> "none", table |-> "rsvp", says |-> << >>, left |-> {},
          now |-> NoRow, found |-> NoRow, alone |-> TRUE]

Before(k) == IF k[2] \in Prompt THEN CHOOSE v \in Values(k[1]) : TRUE ELSE NoRow

ResponsesInit ==
    /\ event = "planned"
    /\ rows = [k \in Keys |-> Before(k)]
    /\ taps = [r \in Taps |-> NoTap]
    /\ told = [k \in Keys |-> {Before(k)}]
    /\ outages = 0

-----------------------------------------------------------------------------
Pending(r) == taps[r].at \notin {"none", "over"}
About(r) == {<<taps[r].table, m>> : m \in DOMAIN taps[r].says}

Sends(r, table, says) ==
    LET keys == {<<table, m>> : m \in DOMAIN says}
        met == {q \in Taps : Pending(q) /\ About(q) \cap keys # {}}
    IN  /\ taps[r].at = "none"
        /\ \A q \in 1..(r - 1) : taps[q].at # "none"
        /\ taps' = [q \in Taps |->
              IF q = r THEN [NoTap EXCEPT !.at = "sent", !.table = table, !.says = says,
                                          !.left = DOMAIN says, !.alone = met = {}]
              ELSE IF q \in met THEN [taps[q] EXCEPT !.alone = FALSE] ELSE taps[q]]
        /\ UNCHANGED <<event, rows, told, outages>>

(* The buttons on the page of an event, which may show it as it was. *)
TapRsvp(r, m, status) == Sends(r, "rsvp", [x \in {m} |-> status])

(* A notification that the page shows as unread is opened. *)
TapRead(r, m) == Sends(r, "read", [x \in {m} |-> TRUE])

(* The boxes of the members that were touched, all at once. *)
TapAttendance(r, says) == Sends(r, "presence", says)

-----------------------------------------------------------------------------
(* A request has ended. One that failed in the middle of a list leaves its *)
(* sender in doubt about the entries before, one whose answer is lost about *)
(* all of them, and one that overlapped about which of them came last.      *)
Over == [NoTap EXCEPT !.at = "over"]

Doubted(r) == {<<taps[r].table, m>> : m \in DOMAIN taps[r].says \ taps[r].left}

(* All is saved; the answer comes, or is lost on its way. *)
Succeeds(r) ==
    \E answered \in BOOLEAN :
        /\ taps' = [taps EXCEPT ![r] = Over]
        /\ told' = [k \in Keys |->
              IF k \notin About(r) THEN told[k]
              ELSE (IF taps[r].alone /\ answered THEN {} ELSE told[k])
                   \cup {taps[r].says[k[2]]}]

Fail(failed) ==
    /\ taps' = [r \in Taps |-> IF r \in failed THEN Over ELSE taps[r]]
    /\ told' = [k \in Keys |->
          told[k] \cup {taps[r].says[k[2]] : r \in {q \in failed : k \in Doubted(q)}}]

Goes(r, tap) == taps' = [taps EXCEPT ![r] = tap] /\ UNCHANGED told

(* findOne of the event or of the notification. *)
Check(r) ==
    /\ taps[r].at = "sent"
    /\ \/ /\ CASE taps[r].table = "rsvp" -> event = "planned"
               [] taps[r].table = "presence" -> event # "deleted"
               [] OTHER -> TRUE
          /\ Goes(r, [taps[r] EXCEPT !.at = "next"])
       \/ Fail({r})
    /\ UNCHANGED <<event, rows, outages>>

\* Mutant: a row that stands is taken for the answer.
FindAny(r) ==
    /\ taps[r].at = "next"
    /\ \E m \in taps[r].left :
          LET standing == rows[<<taps[r].table, m>>] IN
          IF standing # NoRow
          THEN Succeeds(r)
          ELSE Goes(r, [taps[r] EXCEPT !.at = "insert", !.now = m])
    /\ UNCHANGED <<event, rows, outages>>

(* The row of the next member is looked up. A notification that was read is *)
(* left as it is.                                                           *)
Find(r) ==
    /\ taps[r].at = "next"
    /\ \E m \in taps[r].left :
          LET standing == rows[<<taps[r].table, m>>] IN
          IF taps[r].table = "read" /\ standing # NoRow
          THEN Succeeds(r)
          ELSE Goes(r, [taps[r] EXCEPT !.at = IF standing = NoRow THEN "insert" ELSE "save",
                                          !.now = m, !.found = standing])
    /\ UNCHANGED <<event, rows, outages>>

Key(r) == <<taps[r].table, taps[r].now>>
Says(r) == taps[r].says[taps[r].now]

\* Mutant: the entry before is not put aside.
StandsHeld(r) ==
    LET left == taps[r].left \ {taps[r].now} IN
    IF left = {} THEN Succeeds(r)
    ELSE Goes(r, [taps[r] EXCEPT !.at = "next", !.left = left])

(* The row stands: the next entry, or the answer. *)
Stands(r) ==
    LET left == taps[r].left \ {taps[r].now} IN
    IF left = {} THEN Succeeds(r)
    ELSE Goes(r, [taps[r] EXCEPT !.at = "next", !.left = left, !.now = NoRow,
                                    !.found = NoRow])

(* INSERT: refused by the unique index, or by the foreign key. *)
Insert(r) ==
    /\ taps[r].at = "insert"
    /\ IF rows[Key(r)] = NoRow /\ (taps[r].table = "read" \/ event # "deleted")
       THEN rows' = [rows EXCEPT ![Key(r)] = Says(r)] /\ Stands(r)
       ELSE UNCHANGED rows /\ Fail({r})
    /\ UNCHANGED <<event, outages>>

(* save reads the row again: a row that is gone is inserted in vain, one    *)
(* that is as it should be is left alone.                                   *)
SaveReload(r) ==
    /\ taps[r].at = "save"
    /\ CASE rows[Key(r)] = NoRow -> Fail({r})
         [] rows[Key(r)] = Says(r) -> Stands(r)
         [] OTHER -> Goes(r, [taps[r] EXCEPT !.at = "update"])
    /\ UNCHANGED <<event, rows, outages>>

(* UPDATE: of no row, if it has gone since. *)
SaveUpdate(r) ==
    /\ taps[r].at = "update"
    /\ rows' = [rows EXCEPT ![Key(r)] = IF @ = NoRow THEN @ ELSE Says(r)]
    /\ Stands(r)
    /\ UNCHANGED <<event, outages>>

(* The server fails or starts again: every request under way ends. *)
Outage ==
    /\ outages < MaxOutages
    /\ \E r \in Taps : Pending(r)
    /\ outages' = outages + 1
    /\ Fail({r \in Taps : Pending(r)})
    /\ UNCHANGED <<event, rows>>

-----------------------------------------------------------------------------
(* The leadership cancels the event, or deletes it once it is cancelled or  *)
(* over: the answers and the attendance go with it.                         *)
CancelEvent ==
    /\ event = "planned"
    /\ event' = "cancelled"
    /\ UNCHANGED <<rows, taps, told, outages>>

DeleteEvent ==
    /\ event # "deleted"
    /\ event' = "deleted"
    /\ rows' = [k \in Keys |-> IF k[1] = "read" THEN rows[k] ELSE NoRow]
    /\ UNCHANGED <<taps, told, outages>>

ResponsesNext ==
    \/ \E r \in Taps :
          \/ \E m \in Respondents :
                TapRead(r, m) \/ \E status \in RsvpStatus : TapRsvp(r, m, status)
          \/ \E touched \in (SUBSET Respondents) \ {{}} :
                \E says \in [touched -> BOOLEAN] : TapAttendance(r, says)
          \/ Check(r) \/ Find(r) \/ Insert(r) \/ SaveReload(r) \/ SaveUpdate(r)
    \/ Outage \/ CancelEvent \/ DeleteEvent

ResponsesSpec == ResponsesInit /\ [][ResponsesNext]_responsesVars

-----------------------------------------------------------------------------
ResponsesTypeOK ==
    /\ event \in {"planned", "cancelled", "deleted"}
    /\ rows \in [Keys -> AllValues \cup {NoRow}]
    /\ \A r \in Taps :
          /\ taps[r].at \in {"none", "sent", "next", "insert", "save", "update", "over"}
          /\ taps[r].table \in Tables
          /\ DOMAIN taps[r].says \subseteq Respondents
          /\ taps[r].left \subseteq DOMAIN taps[r].says
          /\ taps[r].now \in taps[r].left \cup {NoRow}
    /\ told \in [Keys -> SUBSET (AllValues \cup {NoRow})]
    /\ outages \in Nat

(* What a member was told was recorded is what the row holds when nothing   *)
(* is under way, whatever the requests before ran into: a late overlap, a   *)
(* refusal, a restart in the middle of a list. And no answer outlives its   *)
(* event: one that was under way when the event was deleted leaves no row.  *)
AnswersStand ==
    \A k \in Keys :
        IF event = "deleted" /\ k[1] # "read" THEN rows[k] = NoRow
        ELSE ~(\E r \in Taps : Pending(r) /\ k \in About(r)) => rows[k] \in told[k]

=============================================================================
