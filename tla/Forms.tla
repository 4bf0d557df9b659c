------------------------------- MODULE Forms -------------------------------
(***************************************************************************)
(* The edit pages of the portal. Each shows a record of the backend in a   *)
(* form, keeps the record in the query cache of the browser, fills the     *)
(* form again whenever the cache brings another version of the record, and *)
(* sends the whole form to the PATCH handler of its service. One browser   *)
(* is modelled in detail; what other clients do to the record is OthersSave.*)
(*                                                                         *)
(* The boxes of a form come in two kinds, of which one of each is kept:    *)
(* "text" stands for the boxes that are texts, "terms" for the deadlines   *)
(* of a vehicle, the reminders of an event, the inspections of a piece of  *)
(* equipment, the roles of a member, the municipalities of a society. The  *)
(* groups an event is meant for are left out when empty, as the texts are.  *)
(* Boxes that must not be empty are typed into in any form, also in one    *)
(* that could not be filled.                                               *)
(***************************************************************************)
EXTENDS Naturals

CONSTANTS
    Pages,      \* the pages that are visited
    Blank,      \* what an empty box, or a column that is NULL, holds
    Texts,      \* what other boxes and columns hold
    FirstRows,  \* the records that are edited, as they are at first
    Member,     \* the role that the page of a member starts with
    MaxSaves,   \* bound on what this browser sends
    MaxNews     \* bound on the changes that others make to the record

ASSUME FormsAssumption ==
    /\ Pages \subseteq {"vehicle", "event", "equipment", "member", "organization"}
    /\ Member \in Texts
    /\ Blank \notin Texts
    /\ FirstRows \subseteq [{"text", "terms"} -> Texts \cup {Blank}]
    /\ MaxSaves \in Nat
    /\ MaxNews \in Nat

VARIABLES
    page,     \* the page that this browser visits, "none" before it does
    row,      \* the record in the database
    changes,  \* how often the record has been changed
    changed,  \* history: the number of the last change to each column
    cached,   \* the query cache: the record, whether it is stale, and whether
              \* the last GET failed
    fetch,    \* the GET in flight, and what the server has read for it
    form,     \* the form: whether its page is on the screen, and its boxes
    patch,    \* the PATCH in flight, at the server
    seen      \* history: the changes this browser knows it made, and whether an
              \* answer read before one of them was still under way

formsVars == <<page, row, changes, changed, cached, fetch, form, patch, seen>>

Boxes == {"text", "terms"}
Contents == [Boxes -> Texts \cup {Blank}]
Nothing == [b \in Boxes |-> Blank]

-----------------------------------------------------------------------------
(* The pages: what becomes of an empty box in the request. "kept" boxes are *)
(* left out of it (x || undefined), and the handler keeps the old value.    *)

VehicleBoxes == [text |-> "kept", terms |-> "cleared"]
EventBoxes == [text |-> "kept", terms |-> "cleared"]
EquipmentBoxes == [text |-> "kept", terms |-> "kept"]
MemberBoxes == [text |-> "kept", terms |-> "cleared"]
OrganizationBoxes == [text |-> "cleared", terms |-> "cleared"]

WhenEmpty(b) ==
    CASE page = "vehicle" -> VehicleBoxes[b]
      [] page = "event" -> EventBoxes[b]
      [] page = "equipment" -> EquipmentBoxes[b]
      [] page = "member" -> MemberBoxes[b]
      [] OTHER -> OrganizationBoxes[b]

(* Whether a page is left after a save, and whether it minds that the      *)
(* record could not be loaded, or shows an empty form then.                *)
VehiclePage == [leaves |-> TRUE, minds |-> FALSE]
EventPage == [leaves |-> TRUE, minds |-> FALSE]
EquipmentPage == [leaves |-> TRUE, minds |-> FALSE]
MemberPage == [leaves |-> TRUE, minds |-> FALSE]
OrganizationPage == [leaves |-> FALSE, minds |-> TRUE]

ThePage ==
    CASE page = "vehicle" -> VehiclePage
      [] page = "event" -> EventPage
      [] page = "equipment" -> EquipmentPage
      [] page = "member" -> MemberPage
      [] OTHER -> OrganizationPage

(* What the boxes hold before a record fills them. *)
Defaults == [Nothing EXCEPT !["terms"] = IF page = "member" THEN Member ELSE Blank]

(* A member without roles leaves the box of the roles as it was. *)
LeftAlone(contents) ==
    IF page = "member" /\ contents["terms"] = Blank THEN {"terms"} ELSE {}

NoForm == [on |-> "away", boxes |-> Nothing, typed |-> {}, guessed |-> {}, asOf |-> 0]
Unfilled == [NoForm EXCEPT !.on = "open", !.boxes = Defaults, !.guessed = Boxes]

\* Mutant: the lists of the form keep what they held.
FilledPartly(before, contents, asOf) ==
    [on |-> before.on,
     boxes |-> [before.boxes EXCEPT !["text"] = contents["text"]],
     typed |-> {},
     guessed |-> LeftAlone(contents),
     asOf |-> asOf]

(* The form, filled with a record over what the boxes held before. *)
Filled(before, contents, asOf) ==
    [on |-> before.on,
     boxes |-> [b \in Boxes |-> IF b \in LeftAlone(contents)
                                THEN before.boxes[b] ELSE contents[b]],
     typed |-> {},
     guessed |-> LeftAlone(contents),
     asOf |-> asOf]

NoFetch == [at |-> "none", boxes |-> Nothing, asOf |-> 0]
Asked == [NoFetch EXCEPT !.at = "asked"]
NoPatch == [at |-> "none", boxes |-> Nothing, typed |-> {}, guessed |-> {},
            asOf |-> 0, entity |-> Nothing, dirty |-> {}, number |-> 0]

FormsInit ==
    /\ page = "none"
    /\ row = Nothing
    /\ changes = 0
    /\ changed = [b \in Boxes |-> 0]
    /\ cached = [has |-> FALSE, boxes |-> Nothing, asOf |-> 0,
                 stale |-> TRUE, failed |-> FALSE]
    /\ fetch = NoFetch
    /\ form = NoForm
    /\ patch = NoPatch
    /\ seen = [saved |-> 0, sent |-> 0, news |-> 0, missed |-> FALSE]

(* A browser comes to one of the pages, whose record somebody has made. *)
Visit(p, contents) ==
    /\ page = "none"
    /\ page' = p
    /\ row' = contents
    /\ UNCHANGED <<changes, changed, cached, fetch, form, patch, seen>>

OnScreen == form.on # "away"

(* Instead of the form there is a spinner until the first GET ends, and an *)
(* error as long as the last GET failed, on a page that minds.             *)
FormShown ==
    /\ OnScreen
    /\ cached.has \/ fetch.at = "none"
    /\ ThePage.minds => (cached.has /\ ~cached.failed)

-----------------------------------------------------------------------------
(* The query cache *)

(* The GET begins, unless one is under way. *)
Ask == fetch' = IF fetch.at = "none" THEN Asked ELSE fetch

\* Mutant: the answer under way is kept.
InvalidateKeeps ==
    /\ cached' = [cached EXCEPT !.stale = TRUE]
    /\ fetch' = IF OnScreen /\ fetch.at = "none" THEN Asked ELSE fetch

(* invalidateQueries: the cached record is stale; a page on the screen asks *)
(* for it again, and drops the answer under way if it has an older record.  *)
Invalidate ==
    /\ cached' = [cached EXCEPT !.stale = TRUE]
    /\ fetch' = IF OnScreen /\ (cached.has \/ fetch.at = "none") THEN Asked ELSE fetch

(* The page is opened: from the cache at once, if it has the record. *)
Open ==
    /\ form.on = "away"
    /\ form' = IF cached.has THEN Filled(Unfilled, cached.boxes, cached.asOf)
                             ELSE Unfilled
    /\ IF cached.has /\ ~cached.stale THEN UNCHANGED fetch ELSE Ask
    /\ UNCHANGED <<page, row, changes, changed, cached, patch, seen>>

(* After staleTime the record is stale, and asked for again when the window *)
(* gets the focus or the user asks for it; a record that no page shows is   *)
(* forgotten in the end.                                                    *)
Age ==
    /\ \/ /\ ~cached.stale
          /\ cached' = [cached EXCEPT !.stale = TRUE]
       \/ /\ cached.has /\ cached.stale
          /\ ~OnScreen /\ fetch.at = "none"
          /\ cached' = [cached EXCEPT !.has = FALSE, !.boxes = Nothing, !.asOf = 0,
                                        !.failed = FALSE]
    /\ UNCHANGED <<page, row, changes, changed, fetch, form, patch, seen>>

Focus ==
    /\ OnScreen
    /\ cached.stale \/ cached.failed
    /\ fetch.at = "none"
    /\ Ask
    /\ UNCHANGED <<page, row, changes, changed, cached, form, patch, seen>>

(* The server reads the record for the GET. *)
FetchRead ==
    /\ fetch.at = "asked"
    /\ fetch' = [at |-> "read", boxes |-> row, asOf |-> changes]
    /\ UNCHANGED <<page, row, changes, changed, cached, form, patch, seen>>

\* Mutant: the form is filled again by every answer.
FetchArrivesAnew ==
    /\ fetch.at = "read"
    /\ cached' = [has |-> TRUE, boxes |-> fetch.boxes, asOf |-> fetch.asOf,
                  stale |-> FALSE, failed |-> FALSE]
    /\ fetch' = NoFetch
    /\ form' = IF OnScreen THEN Filled(form, fetch.boxes, fetch.asOf) ELSE form
    /\ UNCHANGED <<page, row, changes, changed, patch, seen>>

(* The answer fills the cache. A form on the screen is filled again if the *)
(* record is another one than before.                                      *)
FetchArrives ==
    /\ fetch.at = "read"
    /\ cached' = [has |-> TRUE, boxes |-> fetch.boxes, asOf |-> fetch.asOf,
                  stale |-> FALSE, failed |-> FALSE]
    /\ fetch' = NoFetch
    /\ form' = IF OnScreen /\ ~(cached.has /\ cached.asOf = fetch.asOf)
               THEN Filled(form, fetch.boxes, fetch.asOf) ELSE form
    /\ UNCHANGED <<page, row, changes, changed, patch, seen>>

(* The GET fails, also the second time: a page that minds shows it. *)
FetchFails ==
    /\ fetch.at # "none"
    /\ fetch' = NoFetch
    /\ cached' = [cached EXCEPT !.failed = ThePage.minds]
    /\ UNCHANGED <<page, row, changes, changed, form, patch, seen>>

-----------------------------------------------------------------------------
(* The form *)

Type(b, content) ==
    /\ FormShown
    /\ form.boxes[b] # content
    /\ form' = [form EXCEPT !.boxes = [@ EXCEPT ![b] = content],
                            !.typed = @ \cup {b}]
    /\ UNCHANGED <<page, row, changes, changed, cached, fetch, patch, seen>>

Leave ==
    /\ OnScreen
    /\ form' = NoForm
    /\ UNCHANGED <<page, row, changes, changed, cached, fetch, patch, seen>>

(* Save: the button waits for the request before. *)
Submit ==
    /\ FormShown
    /\ form.on = "open"
    /\ patch.at = "none"
    /\ seen.sent < MaxSaves
    /\ seen' = [seen EXCEPT !.sent = @ + 1]
    /\ form' = [form EXCEPT !.on = "saving"]
    /\ patch' = [NoPatch EXCEPT !.at = "sent", !.boxes = form.boxes,
                                !.typed = form.typed, !.guessed = form.guessed,
                                !.asOf = form.asOf]
    /\ UNCHANGED <<page, row, changes, changed, cached, fetch>>

Answered == [form EXCEPT !.on = IF OnScreen THEN "open" ELSE "away"]

(* The request went through: the cached record is invalidated, and the page *)
(* goes to the list, also when the user has left or opened it again.        *)
Saved ==
    /\ patch.at = "done"
    /\ patch' = NoPatch
    /\ Invalidate
    /\ form' = IF ThePage.leaves THEN NoForm ELSE Answered
    /\ seen' = [seen EXCEPT !.saved = patch.number,
                            !.missed = @ \/ (fetch.at = "read" /\ ~(OnScreen /\ cached.has))]
    /\ UNCHANGED <<page, row, changes, changed>>

(* It was refused, or the answer did not arrive: the form stays. *)
Refused ==
    /\ patch.at \in {"refused", "done"}
    /\ patch' = NoPatch
    /\ form' = Answered
    /\ UNCHANGED <<page, row, changes, changed, cached, fetch, seen>>

(* Beside the form, by a request of its own, after which the record is     *)
(* asked for again.                                                        *)
BesideForm ==
    /\ FormShown
    /\ cached.has
    /\ seen.news < MaxNews
    /\ changes' = changes + 1
    /\ Invalidate
    /\ seen' = [seen EXCEPT !.news = @ + 1, !.saved = changes + 1]
    /\ UNCHANGED <<page, row, changed, form, patch>>

(* A driver is added to a vehicle, or removed. *)
ChangeDrivers == page = "vehicle" /\ BesideForm

UploadLogo == page = "organization" /\ BesideForm

-----------------------------------------------------------------------------
(* The handler: find the record, assign what was sent, save. *)

PatchLoad ==
    /\ patch.at = "sent"
    /\ patch' = [patch EXCEPT !.at = "loaded",
         !.entity = [b \in Boxes |->
            IF patch.boxes[b] = Blank /\ WhenEmpty(b) = "kept"
            THEN row[b] ELSE patch.boxes[b]]]
    /\ UNCHANGED <<page, row, changes, changed, cached, fetch, form, seen>>

(* The save reads the row again and compares it with the entity. *)
PatchReload ==
    /\ patch.at = "loaded"
    /\ LET dirty == {b \in Boxes : patch.entity[b] # row[b]} IN
       patch' = IF dirty = {}
                THEN [patch EXCEPT !.at = "done", !.number = changes]
                ELSE [patch EXCEPT !.at = "reloaded", !.dirty = dirty]
    /\ UNCHANGED <<page, row, changes, changed, cached, fetch, form, seen>>

PatchUpdate ==
    /\ patch.at = "reloaded"
    /\ row' = [b \in Boxes |-> IF b \in patch.dirty THEN patch.entity[b] ELSE row[b]]
    /\ changes' = changes + 1
    /\ changed' = [b \in Boxes |-> IF b \in patch.dirty THEN changes + 1 ELSE changed[b]]
    /\ patch' = [patch EXCEPT !.at = "done", !.number = changes + 1]
    /\ UNCHANGED <<page, cached, fetch, form, seen>>

(* A guard, the validation, a conflict or a failure ends the request. *)
PatchRefuse ==
    /\ patch.at \in {"sent", "loaded", "reloaded"}
    /\ patch' = [NoPatch EXCEPT !.at = "refused"]
    /\ UNCHANGED <<page, row, changes, changed, cached, fetch, form, seen>>

(* Another client changes a column of the record. *)
OthersSave(b, content) ==
    /\ page # "none"
    /\ row[b] # content
    /\ seen.news < MaxNews
    /\ row' = [row EXCEPT ![b] = content]
    /\ changes' = changes + 1
    /\ changed' = [changed EXCEPT ![b] = changes + 1]
    /\ seen' = [seen EXCEPT !.news = @ + 1]
    /\ UNCHANGED <<page, cached, fetch, form, patch>>

-----------------------------------------------------------------------------
FormsAnswer == FetchRead \/ FetchArrives \/ Saved \/ Refused
               \/ PatchLoad \/ PatchReload \/ PatchUpdate

FormsNext ==
    \/ \E p \in Pages, contents \in FirstRows : Visit(p, contents)
    \/ /\ page # "none"
       /\ Open \/ Leave \/ Submit \/ ChangeDrivers \/ UploadLogo \/ Age \/ Focus
    \/ FormsAnswer \/ FetchFails \/ PatchRefuse
    \/ \E b \in Boxes, content \in Texts \cup {Blank} :
          Type(b, content) \/ OthersSave(b, content)

FormsSpec == FormsInit /\ [][FormsNext]_formsVars

-----------------------------------------------------------------------------
FormsTypeOK ==
    /\ page \in Pages \cup {"none"}
    /\ row \in Contents
    /\ changes \in Nat
    /\ changed \in [Boxes -> Nat]
    /\ cached \in [has : BOOLEAN, boxes : Contents, asOf : Nat,
                   stale : BOOLEAN, failed : BOOLEAN]
    /\ fetch \in [at : {"none", "asked", "read"}, boxes : Contents, asOf : Nat]
    /\ form \in [on : {"away", "open", "saving"}, boxes : Contents,
                 typed : SUBSET Boxes, guessed : SUBSET Boxes, asOf : Nat]
    /\ patch \in [at : {"none", "sent", "loaded", "reloaded", "done", "refused"},
                  boxes : Contents, typed : SUBSET Boxes, guessed : SUBSET Boxes,
                  asOf : Nat, entity : Contents, dirty : SUBSET Boxes, number : Nat]
    /\ seen \in [saved : Nat, sent : Nat, news : Nat, missed : BOOLEAN]

(* A save changes nothing that its user has not typed: any other column it *)
(* changes has been changed by somebody since the page read it, or was     *)
(* filled in by the page for want of a value.                              *)
OnlyTypedChanges ==
    [][\A b \in Boxes :
          (patch.at = "reloaded" /\ patch'.at = "done" /\ row'[b] # row[b])
             => \/ b \in patch.typed \cup patch.guessed
                \/ changed[b] > patch.asOf]_formsVars

(* Nobody finds the old record after saving: what the cache offers as fresh *)
(* is no older than the last save this browser was told of, unless an answer *)
(* read before the save was still on its way and could not be dropped.       *)
OwnSavesShown ==
    (cached.has /\ cached.asOf < seen.saved) => (cached.stale \/ seen.missed)

(* What is being typed stays as long as nobody changes the record: a GET on *)
(* focus or after some time fills the form again only if the record differs.*)
TypingStays ==
    [][OnScreen /\ form'.on # "away" /\ form.typed # {} /\ form'.typed = {}
          => form'.asOf > form.asOf \/ form.guessed = Boxes]_formsVars

=============================================================================
