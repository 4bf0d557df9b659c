--------------------------------- MODULE Spin ---------------------------------
(***************************************************************************)
(* The watch on the public feed of interventions (SpinService): every      *)
(* intervention that appears is stored once, and the organisations it      *)
(* concerns get one push for it.  What the feed holds when the service     *)
(* first starts is stored without a push.                                  *)
(*                                                                         *)
(* Servers share the table; primed, polling and the lists of a poll are    *)
(* lost when one restarts.  One action per database round trip, fetch or   *)
(* push.  Which intervention concerns whom (matchedObcina) is a constant:  *)
(* the reading of titles and descriptions carries no control.              *)
(***************************************************************************)
EXTENDS Naturals, FiniteSets

CONSTANTS
  Guids,        \* interventions that may ever appear in the feed
  Old,          \* those the feed holds at the start
  Orgs,         \* active organisations with a selection of municipalities
  Concerns,     \* pairs of an intervention and an organisation it concerns
  Servers,      \* instances of the server
  MaxCrashes    \* bound on restarts

ASSUME SpinAssumption ==
  /\ Old \subseteq Guids
  /\ Concerns \subseteq Guids \X Orgs
  /\ MaxCrashes \in Nat

VARIABLES
  feed,       \* the interventions in the feed now
  published,  \* those that have ever been in it
  stored,     \* table spin_interventions, by its unique spin_guid
  pc,         \* where each server is; "idle" is polling = false
  primed,     \* SpinService.primed
  items,      \* what is left to store of what a server has fetched
  saved,      \* what it has stored in this poll
  toPush,     \* the pushes it has left to send
  crashes,    \* restarts so far
  pushed,     \* history: the pushes that were handed over or have failed
  silent,     \* history: what was stored without a push
  lost,       \* history: what a restart kept from being pushed
  unsettled   \* history: the first filling of the table was not completed
              \* before a server took it for complete

serverVars == <<pc, primed, items, saved, toPush>>
vars == <<feed, published, stored, serverVars, crashes, pushed, silent, lost, unsettled>>

PCs == {"down", "fetch", "fill", "idle", "known", "store", "match", "push"}

\* Every variable keeps its type.
TypeOK ==
  /\ feed \subseteq published /\ published \subseteq Guids
  /\ stored \subseteq published
  /\ pc \in [Servers -> PCs]
  /\ primed \in [Servers -> BOOLEAN]
  /\ items \in [Servers -> SUBSET published] /\ saved \in [Servers -> SUBSET stored]
  /\ toPush \in [Servers -> SUBSET Concerns]
  /\ crashes \in Nat
  /\ pushed \subseteq Concerns
  /\ silent \subseteq stored /\ lost \subseteq Guids
  /\ unsettled \in BOOLEAN

Init ==
  /\ feed = Old /\ published = Old
  /\ stored = {}
  /\ pc = [s \in Servers |-> "down"]
  /\ primed = [s \in Servers |-> FALSE]
  /\ items = [s \in Servers |-> {}] /\ saved = [s \in Servers |-> {}]
  /\ toPush = [s \in Servers |-> {}]
  /\ crashes = 0
  /\ pushed = {} /\ silent = {} /\ lost = {}
  /\ unsettled = FALSE

GoTo(s, place) == pc' = [pc EXCEPT ![s] = place]

\* A server that has something left to store without a push.
Filling(s) == items[s] # {} /\ (pc[s] = "fill" \/ (pc[s] = "store" /\ ~primed[s]))

-----------------------------------------------------------------------------
(* onModuleInit *)

\* A table with rows counts as filled.
Count(s) ==
  /\ pc[s] = "down"
  /\ primed' = [primed EXCEPT ![s] = stored # {}]
  /\ GoTo(s, IF stored # {} THEN "idle" ELSE "fetch")
  /\ unsettled' = (unsettled \/ (stored # {} /\ \E t \in Servers : Filling(t)))
  /\ UNCHANGED <<feed, published, stored, items, saved, toPush, crashes, pushed, silent, lost>>

\* Mutant: a failed start counts as one that has filled the table.
FetchFailsPrimed(s) ==
  /\ pc[s] = "fetch"
  /\ primed' = [primed EXCEPT ![s] = TRUE]
  /\ GoTo(s, "idle")
  /\ UNCHANGED <<feed, published, stored, items, saved, toPush, crashes, pushed, silent, lost, unsettled>>

\* The feed is not reached: the first poll will fill the table.
FetchFails(s) ==
  /\ pc[s] = "fetch"
  /\ GoTo(s, "idle")
  /\ UNCHANGED <<feed, published, stored, primed, items, saved, toPush, crashes, pushed, silent, lost, unsettled>>

\* The feed is read; an answer without items (not RSS) fills the table, too.
Fetch(s) ==
  /\ pc[s] = "fetch"
  /\ \E answer \in {feed, {}} :
       /\ items' = [items EXCEPT ![s] = answer]
       /\ primed' = [primed EXCEPT ![s] = answer = {}]
       /\ GoTo(s, IF answer = {} THEN "idle" ELSE "fill")
       /\ unsettled' = (unsettled \/ answer = {})
  /\ UNCHANGED <<feed, published, stored, saved, toPush, crashes, pushed, silent, lost>>

\* saveNew: an INSERT per item, one that is there already is skipped; with the
\* last one the table is filled.
Fill(s) ==
  /\ pc[s] = "fill"
  /\ \E g \in items[s] :
       /\ stored' = stored \union {g}
       /\ items' = [items EXCEPT ![s] = @ \ {g}]
       /\ primed' = [primed EXCEPT ![s] = items[s] = {g}]
       /\ GoTo(s, IF items[s] = {g} THEN "idle" ELSE "fill")
       /\ silent' = IF g \in stored THEN silent ELSE silent \union {g}
  /\ UNCHANGED <<feed, published, saved, toPush, crashes, pushed, lost, unsettled>>

-----------------------------------------------------------------------------
(* pollInterventions *)

\* The feed is read while no other poll of this server runs; a failure or an
\* empty answer ends the poll where it began.
Poll(s) ==
  /\ pc[s] = "idle"
  /\ feed # {}
  /\ items' = [items EXCEPT ![s] = feed]
  /\ GoTo(s, "known")
  /\ UNCHANGED <<feed, published, stored, primed, saved, toPush, crashes, pushed, silent, lost, unsettled>>

\* Mutant: an early return that leaves polling set.
KnownStays(s) ==
  /\ pc[s] = "known"
  /\ items' = [items EXCEPT ![s] = @ \ stored]
  /\ GoTo(s, IF items[s] \subseteq stored THEN "known" ELSE "store")
  /\ UNCHANGED <<feed, published, stored, primed, saved, toPush, crashes, pushed, silent, lost, unsettled>>

\* The items whose guid is not in the table yet.
Known(s) ==
  /\ pc[s] = "known"
  /\ items' = [items EXCEPT ![s] = @ \ stored]
  /\ GoTo(s, IF items[s] \subseteq stored THEN "idle" ELSE "store")
  /\ UNCHANGED <<feed, published, stored, primed, saved, toPush, crashes, pushed, silent, lost, unsettled>>

\* Mutant: everything fresh is notified, also what the index refused.
SavedAnyway(s, g) == saved[s] \union {g}

\* saveNew returns what it has stored itself.
Saved(s, g) == IF g \in stored THEN saved[s] ELSE saved[s] \union {g}

\* The first poll after a start that could not fill the table notifies nobody.
Store(s) ==
  /\ pc[s] = "store"
  /\ \E g \in items[s] :
       /\ stored' = stored \union {g}
       /\ items' = [items EXCEPT ![s] = @ \ {g}]
       /\ primed' = [primed EXCEPT ![s] = @ \/ items[s] = {g}]
       /\ saved' = [saved EXCEPT ![s] = IF primed[s] THEN Saved(s, g) ELSE {}]
       /\ GoTo(s, IF items[s] # {g} THEN "store" ELSE IF primed[s] THEN "match" ELSE "idle")
       /\ silent' = IF primed[s] \/ g \in stored THEN silent ELSE silent \union {g}
  /\ UNCHANGED <<feed, published, toPush, crashes, pushed, lost, unsettled>>

\* Mutant: everybody is notified of everything.
ToNotifyAll(gs) == gs \X Orgs

\* Whom the stored items gs concern.
ToNotify(gs) == {pair \in Concerns : pair[1] \in gs}

\* The organisations are read; each is matched with each stored item.
Match(s) ==
  /\ pc[s] = "match"
  /\ toPush' = [toPush EXCEPT ![s] = ToNotify(saved[s])]
  /\ saved' = [saved EXCEPT ![s] = {}]
  /\ GoTo(s, IF ToNotify(saved[s]) = {} THEN "idle" ELSE "push")
  /\ UNCHANGED <<feed, published, stored, primed, items, crashes, pushed, silent, lost, unsettled>>

\* notifyOrg; an error is logged and the next push follows.
Push(s) ==
  /\ pc[s] = "push"
  /\ \E pair \in toPush[s] :
       /\ pushed' = pushed \union {pair}
       /\ toPush' = [toPush EXCEPT ![s] = @ \ {pair}]
       /\ GoTo(s, IF toPush[s] = {pair} THEN "idle" ELSE "push")
  /\ UNCHANGED <<feed, published, stored, primed, items, saved, crashes, silent, lost, unsettled>>

-----------------------------------------------------------------------------
(* The system *)

\* An intervention appears in the feed, or is too old for it.
Publish ==
  /\ \E g \in Guids \ published : feed' = feed \union {g} /\ published' = published \union {g}
  /\ UNCHANGED <<stored, serverVars, crashes, pushed, silent, lost, unsettled>>
Expire ==
  /\ \E g \in feed : feed' = feed \ {g}
  /\ UNCHANGED <<published, stored, serverVars, crashes, pushed, silent, lost, unsettled>>

\* What a server has stored and not pushed yet nobody will push.
Crash(s) ==
  /\ crashes < MaxCrashes
  /\ pc[s] # "down"
  /\ crashes' = crashes + 1
  /\ unsettled' = (unsettled \/ Filling(s))
  /\ lost' = lost \union saved[s] \union {pair[1] : pair \in toPush[s]}
  /\ GoTo(s, "down")
  /\ primed' = [primed EXCEPT ![s] = FALSE]
  /\ items' = [items EXCEPT ![s] = {}]
  /\ saved' = [saved EXCEPT ![s] = {}]
  /\ toPush' = [toPush EXCEPT ![s] = {}]
  /\ UNCHANGED <<feed, published, stored, pushed, silent>>

Serve(s) ==
  \/ Count(s) \/ FetchFails(s) \/ Fetch(s) \/ Fill(s)
  \/ Poll(s) \/ Known(s) \/ Store(s) \/ Match(s) \/ Push(s)

Next == Publish \/ Expire \/ \E s \in Servers : Serve(s) \/ Crash(s)

Spec == Init /\ [][Next]_vars

\* The servers run and cron fires every two minutes; every fetch has a
\* timeout.  Nothing is assumed of the feed.
FairSpec == Spec /\ \A s \in Servers : WF_vars(Serve(s))

-----------------------------------------------------------------------------
(* Properties *)

\* An organisation gets at most one push for an intervention, whichever
\* servers poll and restart: what one is about to push, nobody has pushed or
\* is about to push (saveNew returns only what the index let it store).
PushedOnce ==
  \A s \in Servers :
    /\ toPush[s] \intersect pushed = {}
    /\ \A t \in Servers \ {s} : toPush[s] \intersect toPush[t] = {}

\* "so that the first poll does not send a flood of notifications for old
\* interventions" (onModuleInit): what was in the feed before the service
\* is never pushed, unless the first filling was taken for complete while it
\* was not: it found an empty answer, was cut off, or another server runs.
NoFlood == unsettled \/ \A pair \in pushed : pair[1] \notin Old

\* An intervention in the feed is pushed to those it concerns, unless it
\* belongs to a first filling, a restart came between its row and its push,
\* or it left the feed before.
NewOnesGoOut ==
  \A pair \in Concerns :
    pair[1] \in feed ~>
      (pair \in pushed \/ pair[1] \in silent \union lost \/ pair[1] \notin feed)
=============================================================================
