----------------------------- MODULE Deadlines -----------------------------
(***************************************************************************)
(* The daily checks of RemindersService over the deadlines of vehicles,     *)
(* equipment, trainings and subscriptions, and the handlers that change    *)
(* those deadlines, TrainingsService in detail.                            *)
(*                                                                         *)
(* The server checks one society after another, and in each the five kinds *)
(* of things in a fixed order.  An action is one call of a service: it      *)
(* reads the things that fall due, makes one notification, or marks the    *)
(* trainings.  Whatever it throws ends the checks of this society only.    *)
(* Every society has an administrator, who is in every list of roles.      *)
(***************************************************************************)
EXTENDS FiniteSets, Naturals

CONSTANTS
    Societies,   \* the active ones
    Things,      \* vehicles, pieces of equipment, trainings, subscriptions
    SocietyOf,   \* the society of each
    KindOf,      \* what each is checked for
    Held,        \* the pieces that a member has been given
    FirstDue,    \* the deadlines at the start
    Announced,   \* how many days ahead each kind is announced
    NoDeadline,  \* no deadline, or a thing that is not in use
    Removed,     \* a training whose row is gone
    Dates,       \* the days that deadlines are set to
    LastDay,     \* bound on the days
    MaxEdits,    \* bound on the changes of deadlines
    MaxMishaps   \* bound on errors and restarts

Checks == <<"vehicle", "inspection", "expiry", "training", "subscription">>
Kinds == {Checks[i] : i \in 1..5}

ASSUME DeadlinesAssumption ==
    /\ SocietyOf \in [Things -> Societies]
    /\ KindOf \in [Things -> Kinds]
    /\ Held \subseteq {t \in Things : KindOf[t] \in {"inspection", "expiry"}}
    /\ Announced \in [Kinds -> (SUBSET Nat) \ {{}}]
    /\ \A kind \in Kinds : \A days \in (SUBSET Announced[kind]) \ {{}} :
          \E n \in days : \A k \in days : k <= n
    /\ Dates \subseteq Nat /\ LastDay \in Nat /\ MaxEdits \in Nat /\ MaxMishaps \in Nat
    /\ NoDeadline \notin Nat /\ Removed \notin Nat /\ NoDeadline # Removed
    /\ FirstDue \in [Things -> Dates \cup {NoDeadline}]

VARIABLES
    today,     \* the calendar
    dueOn,     \* the deadline of each thing
    reminded,  \* the trainings with reminder_sent
    job,       \* the run of this day
    saving,    \* a save of a training, at the server
    notices,   \* history: what was announced, to whom, on which day
    misled,    \* history: trainings whose mark was not set, or was put back
    deadlineBounds

deadlinesVars == <<today, dueOn, reminded, job, saving, notices, misled, deadlineBounds>>

Trainings == {t \in Things : KindOf[t] = "training"}
Of(s, kind) == {t \in Things : SocietyOf[t] = s /\ KindOf[t] = kind}
Latest(days) == CHOOSE n \in days : \A k \in days : k <= n
Dated(t) == dueOn[t] \in Nat

NoJob == [at |-> "idle", ran |-> FALSE, left |-> {}, society |-> Removed, check |-> 1,
          terms |-> << >>, found |-> {}, owed |-> {}, holders |-> {},
          failed |-> {}, touched |-> {}, before |-> {}]
NoSave == [at |-> "none", thing |-> Removed, due |-> 0, flag |-> FALSE, marks |-> FALSE]

DeadlinesInit ==
    /\ today = 0
    /\ dueOn = FirstDue
    /\ reminded = {}
    /\ job = NoJob
    /\ saving = NoSave
    /\ notices = {}
    /\ misled = {}
    /\ deadlineBounds = [edits |-> 0, mishaps |-> 0]

-----------------------------------------------------------------------------
(* The run of the day, at 08:00 *)

(* The societies are listed, each with the end of its subscription. *)
RunDailyChecks ==
    /\ job.at = "idle" /\ ~job.ran
    /\ job' = [NoJob EXCEPT !.at = "next", !.ran = TRUE, !.left = Societies,
                            !.terms = dueOn, !.before = reminded]
    /\ UNCHANGED <<today, dueOn, reminded, saving, notices, misled, deadlineBounds>>

NextSociety ==
    /\ job.at = "next"
    /\ IF job.left = {}
       THEN job' = [NoJob EXCEPT !.ran = TRUE]
       ELSE \E s \in job.left :
               job' = [job EXCEPT !.at = "check", !.check = 1, !.society = s,
                                  !.left = @ \ {s}]
    /\ UNCHANGED <<today, dueOn, reminded, saving, notices, misled, deadlineBounds>>

Checked == Checks[job.check]
DoneWith == IF job.check = 5 THEN [job EXCEPT !.at = "next"]
            ELSE [job EXCEPT !.at = "check", !.check = @ + 1]

\* Mutant: trainings are found whether they are marked or not.
FoundAgain ==
    LET dates == IF Checked = "subscription" THEN job.terms ELSE dueOn
    IN  {[thing |-> t, due |-> dates[t]] :
            t \in {u \in Of(job.society, Checked) :
                      /\ dates[u] \in Nat
                      /\ dates[u] <= today + Latest(Announced[Checked])}}

(* The deadlines within reach, as they are when they are looked up; of the *)
(* subscription as it was when the societies were listed.                  *)
Found ==
    LET dates == IF Checked = "subscription" THEN job.terms ELSE dueOn
        things == {t \in Of(job.society, Checked) :
                      /\ dates[t] \in Nat
                      /\ dates[t] <= today + Latest(Announced[Checked])}
    IN  {[thing |-> t, due |-> dates[t]] :
            t \in IF Checked = "training" THEN things \ reminded ELSE things}

(* The days ahead for which there is something to announce, the most first. *)
(* Trainings are announced together, on whichever day they are found.       *)
Owed(found) ==
    IF Checked = "training" THEN IF found = {} THEN {} ELSE Announced["training"]
    ELSE {n \in Announced[Checked] : \E f \in found : f.due = today + n}

FindDue ==
    /\ job.at = "check"
    /\ LET owed == Owed(Found) IN
       job' = IF owed = {} THEN DoneWith
              ELSE [job EXCEPT !.at = "send", !.found = Found, !.owed = owed]
    /\ UNCHANGED <<today, dueOn, reminded, saving, notices, misled, deadlineBounds>>

Announce(items, to) ==
    notices' = notices \cup {[thing |-> f.thing, due |-> f.due, on |-> today, to |-> to] :
                                f \in items}

ThisTime == IF Checked = "training" THEN job.found
            ELSE {f \in job.found : f.due = today + Latest(job.owed)}

NextMessage ==
    IF job.owed = {Latest(job.owed)} THEN DoneWith
    ELSE [job EXCEPT !.at = "send", !.owed = @ \ {Latest(@)}, !.holders = {}]

(* createForRoles, or create for the leadership. *)
TellOffice ==
    /\ job.at = "send"
    /\ Announce(ThisTime, "office")
    /\ job' = LET holders == {f.thing : f \in ThisTime} \cap Held IN
              CASE Checked = "training" -> [job EXCEPT !.at = "mark"]
                [] holders # {} -> [job EXCEPT !.at = "holders", !.holders = holders]
                [] OTHER -> NextMessage
    /\ UNCHANGED <<today, dueOn, reminded, saving, misled, deadlineBounds>>

TellHolder(t) ==
    /\ job.at = "holders"
    /\ t \in job.holders
    /\ Announce({f \in ThisTime : f.thing = t}, "holder")
    /\ job' = IF job.holders = {t} THEN NextMessage
              ELSE [job EXCEPT !.holders = @ \ {t}]
    /\ UNCHANGED <<today, dueOn, reminded, saving, misled, deadlineBounds>>

MarkTrainings ==
    /\ job.at = "mark"
    /\ reminded' = reminded \cup {f.thing : f \in {g \in job.found : dueOn[g.thing] # Removed}}
    /\ job' = DoneWith
    /\ UNCHANGED <<today, dueOn, saving, notices, misled, deadlineBounds>>

(* A call throws, also after its notification has been saved: the checks of *)
(* the society end, those of the next one begin.                            *)
Mishap ==
    /\ deadlineBounds.mishaps < MaxMishaps
    /\ deadlineBounds' = [deadlineBounds EXCEPT !.mishaps = @ + 1]

Unmarked == IF job.at \in {"send", "mark"} /\ Checked = "training"
            THEN {f.thing : f \in job.found} ELSE {}

\* Mutant: an error ends the checks of every society.
CheckFailsForAll ==
    /\ job.at \in {"check", "send", "holders", "mark"}
    /\ Mishap
    /\ \/ job.at = "send" /\ Announce(ThisTime, "office")
       \/ UNCHANGED notices
    /\ job' = [job EXCEPT !.at = "next", !.left = {}, !.failed = @ \cup {job.society}]
    /\ misled' = misled \cup Unmarked
    /\ UNCHANGED <<today, dueOn, reminded, saving>>

CheckFails ==
    /\ job.at \in {"check", "send", "holders", "mark"}
    /\ Mishap
    /\ \/ job.at = "send" /\ Announce(ThisTime, "office")
       \/ UNCHANGED notices
    /\ job' = [job EXCEPT !.at = "next", !.failed = @ \cup {job.society}]
    /\ misled' = misled \cup Unmarked
    /\ UNCHANGED <<today, dueOn, reminded, saving>>

(* The server starts again: nobody takes the run of the day up. *)
Restart ==
    /\ job.at # "idle" \/ saving.at # "none"
    /\ Mishap
    /\ job' = [NoJob EXCEPT !.ran = job.ran]
    /\ saving' = NoSave
    /\ misled' = misled \cup Unmarked
    /\ UNCHANGED <<today, dueOn, reminded, notices>>

(* The next day, also if the server was down at 08:00 of this one. *)
NextDay ==
    /\ job.at = "idle"
    /\ today < LastDay
    /\ today' = today + 1
    /\ job' = NoJob
    /\ UNCHANGED <<dueOn, reminded, saving, notices, misled, deadlineBounds>>

-----------------------------------------------------------------------------
(* The deadlines change *)

Edit == /\ deadlineBounds.edits < MaxEdits
        /\ deadlineBounds' = [deadlineBounds EXCEPT !.edits = @ + 1]

Becomes(t, due) ==
    /\ dueOn' = [dueOn EXCEPT ![t] = due]
    /\ job' = [job EXCEPT !.touched = @ \cup {t}]

(* A vehicle or a piece of equipment is edited, taken out of use or put into *)
(* use again, a subscription extended.                                      *)
ChangeDeadline(t, due) ==
    /\ t \notin Trainings
    /\ dueOn[t] # due
    /\ Edit
    /\ Becomes(t, due)
    /\ UNCHANGED <<today, reminded, saving, notices, misled>>

CreateTraining(t, due) ==
    /\ t \in Trainings
    /\ dueOn[t] = NoDeadline
    /\ Edit
    /\ Becomes(t, due)
    /\ UNCHANGED <<today, reminded, saving, notices, misled>>

RemoveTraining(t) ==
    /\ t \in Trainings
    /\ Dated(t)
    /\ Edit
    /\ Becomes(t, Removed)
    /\ reminded' = reminded \ {t}
    /\ UNCHANGED <<today, saving, notices, misled>>

(* update: the row is read, given the new date, and saved; the mark of the  *)
(* reminder is saved with it as it was read.                                *)
LoadTraining(t, due) ==
    /\ saving.at = "none"
    /\ t \in Trainings
    /\ Dated(t)
    /\ Edit
    /\ saving' = [NoSave EXCEPT !.at = "loaded", !.thing = t, !.due = due,
                                !.flag = t \in reminded]
    /\ UNCHANGED <<today, dueOn, reminded, job, notices, misled>>

(* The save reads the row again: it writes the columns that differ, or      *)
(* inserts the row if it has gone.                                          *)
ReloadTraining ==
    LET t == saving.thing IN
    /\ saving.at = "loaded"
    /\ saving' = IF Dated(t)
                 THEN [saving EXCEPT !.at = "update", !.marks = saving.flag # (t \in reminded)]
                 ELSE [saving EXCEPT !.at = "insert", !.marks = TRUE]
    /\ UNCHANGED <<today, dueOn, reminded, job, notices, misled, deadlineBounds>>

WriteTraining ==
    LET t == saving.thing IN
    /\ saving.at \in {"update", "insert"}
    /\ saving' = NoSave
    /\ IF saving.at = "update" /\ ~Dated(t)
       THEN UNCHANGED <<dueOn, reminded, job, misled>>
       ELSE /\ Becomes(t, saving.due)
            /\ reminded' = IF ~saving.marks THEN reminded
                           ELSE IF saving.flag THEN reminded \cup {t} ELSE reminded \ {t}
            /\ misled' = IF saving.marks /\ ~saving.flag THEN misled \cup {t} ELSE misled
    /\ UNCHANGED <<today, notices, deadlineBounds>>

DeadlinesNext ==
    \/ RunDailyChecks \/ NextSociety \/ FindDue \/ TellOffice \/ MarkTrainings
    \/ CheckFails \/ Restart \/ NextDay
    \/ ReloadTraining \/ WriteTraining
    \/ \E t \in Things :
          \/ TellHolder(t) \/ RemoveTraining(t)
          \/ ChangeDeadline(t, NoDeadline)
          \/ \E due \in Dates :
                ChangeDeadline(t, due) \/ CreateTraining(t, due) \/ LoadTraining(t, due)

DeadlinesSpec == DeadlinesInit /\ [][DeadlinesNext]_deadlinesVars

-----------------------------------------------------------------------------
DeadlinesTypeOK ==
    /\ today \in 0..LastDay
    /\ dueOn \in [Things -> Dates \cup {NoDeadline, Removed}]
    /\ reminded \subseteq Trainings
    /\ job.at \in {"idle", "next", "check", "send", "holders", "mark"}
    /\ job.left \subseteq Societies /\ job.failed \subseteq Societies
    /\ job.check \in 1..5 /\ job.ran \in BOOLEAN
    /\ job.holders \subseteq Held
    /\ job.touched \subseteq Things /\ job.before \subseteq Trainings
    /\ job.found \subseteq [thing : Things, due : Dates]
    /\ job.owed \subseteq Nat
    /\ saving.at \in {"none", "loaded", "update", "insert"}
    /\ notices \subseteq [thing : Things, due : Dates, on : 0..LastDay,
                          to : {"office", "holder"}]
    /\ misled \subseteq Trainings
    /\ deadlineBounds \in [edits : 0..MaxEdits, mishaps : 0..MaxMishaps]

(* Nobody is reminded of one deadline day after day: vehicles, equipment and *)
(* subscriptions on the announced days only, a training once, unless its     *)
(* mark was not reached or was put back by a save.                           *)
NoDailyRepeat ==
    \A n \in notices :
        IF n.thing \in Trainings
        THEN \A o \in notices : (o.thing = n.thing /\ o.due = n.due /\ o.on # n.on)
                                   => n.thing \in misled
        ELSE n.due >= n.on /\ n.due - n.on \in Announced[KindOf[n.thing]]

(* A run that ends has told each society of everything that fell due and    *)
(* that nobody changed meanwhile, and the members of what they were given,  *)
(* whatever went wrong in the other societies.                              *)
AllDueTold ==
    (job.at = "next" /\ job.left = {}) =>
        \A t \in Things \ job.touched :
            LET Told(to) == [thing |-> t, due |-> dueOn[t], on |-> today, to |-> to] \in notices
                due == /\ Dated(t)
                       /\ IF t \in Trainings
                          THEN t \notin job.before
                               /\ dueOn[t] <= today + Latest(Announced["training"])
                          ELSE \E n \in Announced[KindOf[t]] : dueOn[t] = today + n
            IN  (due /\ SocietyOf[t] \notin job.failed)
                    => Told("office") /\ (t \in Held => Told("holder"))

=============================================================================
