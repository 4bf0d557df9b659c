------------------------------ MODULE SpinProofs ------------------------------
(***************************************************************************)
(* For any number of servers and restarts, nobody is sent a push twice.    *)
(* What makes it inductive: the index lets one server only have an item in *)
(* its list of saved ones, and it leaves that list when its pushes are     *)
(* determined.  And unless the first filling of the table was taken for    *)
(* complete too early, no old item is pushed: while a server fills, what   *)
(* is not in the table is in its list, and when one is primed, all of the  *)
(* old items still in the feed are in the table.  Nothing that is stored   *)
(* is forgotten, since a server only leaves a list when it is empty.       *)
(***************************************************************************)
EXTENDS Spin, TLAPS

\* An item some server has saved and not matched yet is in no other list.
SavedByOne ==
  /\ \A s, t \in Servers : s # t => saved[s] \intersect saved[t] = {}
  /\ \A s \in Servers, pair \in pushed : pair[1] \notin saved[s]
  /\ \A s, t \in Servers : \A pair \in toPush[t] : pair[1] \notin saved[s]

\* Whatever is pushed has been stored.
PushedIsStored ==
  /\ \A pair \in pushed : pair[1] \in stored
  /\ \A s \in Servers : \A pair \in toPush[s] : pair[1] \in stored

PushInv == SavedByOne /\ PushedIsStored /\ PushedOnce

\* The initial states have the types and empty lists.
LEMMA InitInv == Init => TypeOK /\ PushInv
<1> SUFFICES ASSUME Init PROVE TypeOK /\ PushInv
  OBVIOUS
<1> USE SpinAssumption DEF Init
<1>1. TypeOK
  BY DEF TypeOK, PCs
<1>2. PushInv
  BY DEF PushInv, SavedByOne, PushedIsStored, PushedOnce
<1> QED BY <1>1, <1>2

\* Every step keeps the types.
LEMMA TypeStep == TypeOK /\ [Next]_vars => TypeOK'
<1> SUFFICES ASSUME TypeOK, [Next]_vars PROVE TypeOK'
  OBVIOUS
<1> USE SpinAssumption DEF TypeOK, PCs
<1>1. CASE Publish
  BY <1>1 DEF Publish, serverVars
<1>2. CASE Expire
  BY <1>2 DEF Expire, serverVars
<1>3. ASSUME NEW s \in Servers, Serve(s) PROVE TypeOK'
  <2>1. CASE Count(s)
    BY <2>1 DEF Count, GoTo
  <2>2. CASE FetchFails(s)
    BY <2>2 DEF FetchFails, GoTo
  <2>3. CASE Fetch(s)
    BY <2>3 DEF Fetch, GoTo
  <2>4. CASE Fill(s)
    BY <2>4 DEF Fill, GoTo
  <2>5. CASE Poll(s)
    BY <2>5 DEF Poll, GoTo
  <2>6. CASE Known(s)
    BY <2>6 DEF Known, GoTo
  <2>7. CASE Store(s)
    BY <2>7 DEF Store, Saved, GoTo
  <2>8. CASE Match(s)
    BY <2>8 DEF Match, ToNotify, GoTo
  <2>9. CASE Push(s)
    BY <2>9 DEF Push, GoTo
  <2> QED BY <1>3, <2>1, <2>2, <2>3, <2>4, <2>5, <2>6, <2>7, <2>8, <2>9 DEF Serve
<1>4. ASSUME NEW s \in Servers, Crash(s) PROVE TypeOK'
  <2>1. \A pair \in toPush[s] : pair[1] \in Guids
    BY DEF TypeOK
  <2>2. unsettled' \in BOOLEAN
    BY <1>4 DEF Crash, Filling
  <2> QED BY <1>4, <2>1, <2>2 DEF Crash, GoTo
<1>5. CASE UNCHANGED vars
  BY <1>5 DEF vars, serverVars
<1> QED BY <1>1, <1>2, <1>3, <1>4, <1>5 DEF Next

\* Steps that touch neither the lists nor the table keep PushInv.
LEMMA QuietStep == PushInv /\ UNCHANGED <<stored, saved, toPush, pushed>> => PushInv'
  BY DEF PushInv, SavedByOne, PushedIsStored, PushedOnce

\* Every step keeps PushInv.
LEMMA PushStep == TypeOK /\ PushInv /\ [Next]_vars => PushInv'
<1> SUFFICES ASSUME TypeOK, PushInv, [Next]_vars PROVE PushInv'
  OBVIOUS
<1>1. CASE Publish
  BY <1>1, QuietStep DEF Publish, serverVars
<1>2. CASE Expire
  BY <1>2, QuietStep DEF Expire, serverVars
<1>3. ASSUME NEW s \in Servers, Serve(s) PROVE PushInv'
  <2>1. CASE Count(s)
    BY <2>1, QuietStep DEF Count
  <2>2. CASE FetchFails(s)
    BY <2>2, QuietStep DEF FetchFails
  <2>3. CASE Fetch(s)
    BY <2>3, QuietStep DEF Fetch
  <2>4. CASE Fill(s)
    BY <2>4 DEF Fill, TypeOK, PushInv, SavedByOne, PushedIsStored, PushedOnce
  <2>5. CASE Poll(s)
    BY <2>5, QuietStep DEF Poll
  <2>6. CASE Known(s)
    BY <2>6, QuietStep DEF Known
  <2>7. CASE Store(s)
    <3>1. PICK g \in items[s] :
            /\ stored' = stored \union {g}
            /\ saved' = [saved EXCEPT ![s] = IF primed[s] THEN Saved(s, g) ELSE {}]
      BY <2>7 DEF Store
    <3>2. UNCHANGED <<toPush, pushed>>
      BY <2>7 DEF Store
    <3>3. \A t \in Servers : saved'[t] \subseteq saved[t] \/ (t = s /\ g \notin stored /\ saved'[t] = saved[t] \union {g})
      BY <3>1 DEF Saved, TypeOK
    <3>4. SavedByOne'
      BY <3>1, <3>2, <3>3 DEF TypeOK, PushInv, SavedByOne, PushedIsStored
    <3> QED BY <3>1, <3>2, <3>4 DEF PushInv, PushedIsStored, PushedOnce
  <2>8. CASE Match(s)
    <3>1. /\ toPush' = [toPush EXCEPT ![s] = ToNotify(saved[s])]
          /\ saved' = [saved EXCEPT ![s] = {}]
          /\ UNCHANGED <<stored, pushed>>
      BY <2>8 DEF Match
    <3>2. \A t \in Servers : saved'[t] = IF t = s THEN {} ELSE saved[t]
      BY <3>1 DEF TypeOK
    <3>3. \A t \in Servers : toPush'[t] = IF t = s THEN ToNotify(saved[s]) ELSE toPush[t]
      BY <3>1 DEF TypeOK
    <3>4. \A pair \in ToNotify(saved[s]) : pair[1] \in saved[s] /\ pair[1] \in stored
      BY DEF ToNotify, TypeOK
    <3>5. SavedByOne'
      BY <3>1, <3>2, <3>3, <3>4 DEF PushInv, SavedByOne
    <3>6. PushedIsStored'
      BY <3>1, <3>3, <3>4 DEF PushInv, PushedIsStored
    <3>7. PushedOnce'
      BY <3>1, <3>3, <3>4 DEF PushInv, SavedByOne, PushedOnce
    <3> QED BY <3>5, <3>6, <3>7 DEF PushInv
  <2>9. CASE Push(s)
    <3>1. PICK pair \in toPush[s] :
            /\ pushed' = pushed \union {pair}
            /\ toPush' = [toPush EXCEPT ![s] = @ \ {pair}]
      BY <2>9 DEF Push
    <3>2. UNCHANGED <<stored, saved>>
      BY <2>9 DEF Push
    <3>3. \A t \in Servers : toPush'[t] = IF t = s THEN toPush[s] \ {pair} ELSE toPush[t]
      BY <3>1 DEF TypeOK
    <3> QED BY <3>1, <3>2, <3>3 DEF PushInv, SavedByOne, PushedIsStored, PushedOnce
  <2> QED BY <1>3, <2>1, <2>2, <2>3, <2>4, <2>5, <2>6, <2>7, <2>8, <2>9 DEF Serve
<1>4. ASSUME NEW s \in Servers, Crash(s) PROVE PushInv'
  <2>1. /\ saved' = [saved EXCEPT ![s] = {}]
        /\ toPush' = [toPush EXCEPT ![s] = {}]
        /\ UNCHANGED <<stored, pushed>>
    BY <1>4 DEF Crash
  <2>2. \A t \in Servers : saved'[t] \subseteq saved[t] /\ toPush'[t] \subseteq toPush[t]
    BY <2>1 DEF TypeOK
  <2> QED BY <2>1, <2>2 DEF PushInv, SavedByOne, PushedIsStored, PushedOnce
<1>5. CASE UNCHANGED vars
  BY <1>5, QuietStep DEF vars, serverVars
<1> QED BY <1>1, <1>2, <1>3, <1>4, <1>5 DEF Next

\* The model keeps its types for any feed, servers and restarts.
THEOREM TypeCorrect == Spec => []TypeOK
<1>1. Init => TypeOK
  BY InitInv
<1> QED BY <1>1, TypeStep, PTL DEF Spec

\* No organisation is sent two pushes for an intervention by saveNew and the
\* loop of pollInterventions, however many servers poll and restart.
THEOREM NeverTwice == Spec => []PushedOnce
<1>1. TypeOK /\ PushInv /\ [Next]_vars => (TypeOK /\ PushInv)'
  BY TypeStep, PushStep
<1>2. PushInv => PushedOnce
  BY DEF PushInv
<1> QED BY InitInv, <1>1, <1>2, PTL DEF Spec

-----------------------------------------------------------------------------
(* The first filling *)

\* Where the lists of a server are in use.
Control ==
  /\ Old \subseteq published
  /\ \A s \in Servers :
       /\ pc[s] \in {"down", "fetch", "fill"} => ~primed[s]
       /\ pc[s] \in {"fill", "store"} => items[s] # {}
       /\ pc[s] \notin {"fill", "known", "store"} => items[s] = {}

\* A server that is filling the table has what is missing in its list.
RestIsListed ==
  \A s \in Servers : ~primed[s] /\ pc[s] \in {"fill", "known", "store"} =>
    Old \intersect feed \subseteq stored \union items[s]

\* A table that counts as filled holds the old items of the feed.
FilledIsFull ==
  (\E s \in Servers : primed[s]) \/ (stored # {} /\ \A t \in Servers : ~Filling(t)) =>
    Old \intersect feed \subseteq stored

\* What a primed server has left to store is not old, or is there already.
NothingOldLeft ==
  \A s \in Servers : primed[s] => items[s] \intersect Old \subseteq stored

\* No old item is about to be pushed or has been.
NothingOldPushed ==
  /\ \A s \in Servers : saved[s] \intersect Old = {}
  /\ \A s \in Servers : \A pair \in toPush[s] : pair[1] \notin Old
  /\ \A pair \in pushed : pair[1] \notin Old

Settled == RestIsListed /\ FilledIsFull /\ NothingOldLeft /\ NothingOldPushed

FillInv == Control /\ (unsettled \/ Settled)

LEMMA InitFill == Init => FillInv
  BY DEF Init, FillInv, Control, Settled, RestIsListed, FilledIsFull, NothingOldLeft,
         NothingOldPushed, Filling

\* Every step keeps the control invariant.
LEMMA ControlStep == TypeOK /\ Control /\ [Next]_vars => Control'
<1> SUFFICES ASSUME TypeOK, Control, [Next]_vars PROVE Control'
  OBVIOUS
<1> USE DEF TypeOK, Control
<1>1. CASE Publish
  BY <1>1 DEF Publish, serverVars
<1>2. CASE Expire
  BY <1>2 DEF Expire, serverVars
<1>3. ASSUME NEW s \in Servers, Serve(s) PROVE Control'
  BY <1>3 DEF Serve, Count, FetchFails, Fetch, Fill, Poll, Known, Store, Match, Push, GoTo
<1>4. ASSUME NEW s \in Servers, Crash(s) PROVE Control'
  BY <1>4 DEF Crash, GoTo
<1>5. CASE UNCHANGED vars
  BY <1>5 DEF vars, serverVars
<1> QED BY <1>1, <1>2, <1>3, <1>4, <1>5 DEF Next

\* Every step keeps the filling settled, or marks it unsettled.
LEMMA FillStep == TypeOK /\ FillInv /\ [Next]_vars => FillInv'
<1> SUFFICES ASSUME TypeOK, Control, unsettled \/ Settled, [Next]_vars, ~unsettled'
             PROVE Settled'
  BY ControlStep DEF FillInv
<1>0. ~unsettled /\ Settled
  BY DEF Next, Serve, Publish, Expire, Count, FetchFails, Fetch, Fill, Poll, Known, Store, Match,
         Push, Crash, vars, TypeOK
<1> USE <1>0 DEF TypeOK, Control, Settled
<1>1. CASE Publish
  <2>1. Old \intersect feed' = Old \intersect feed
    BY <1>1 DEF Publish
  <2> QED BY <1>1, <2>1 DEF Publish, serverVars, RestIsListed, FilledIsFull, NothingOldLeft,
                            NothingOldPushed, Filling
<1>2. CASE Expire
  <2>1. Old \intersect feed' \subseteq Old \intersect feed
    BY <1>2 DEF Expire
  <2> QED BY <1>2, <2>1 DEF Expire, serverVars, RestIsListed, FilledIsFull, NothingOldLeft,
                            NothingOldPushed, Filling
<1>3. ASSUME NEW s \in Servers, Serve(s) PROVE Settled'
  <2>1. CASE Count(s)
    BY <2>1 DEF Count, GoTo, RestIsListed, FilledIsFull, NothingOldLeft, NothingOldPushed, Filling
  <2>2. CASE FetchFails(s)
    BY <2>2 DEF FetchFails, GoTo, RestIsListed, FilledIsFull, NothingOldLeft, NothingOldPushed,
                Filling
  <2>3. CASE Fetch(s)
    BY <2>3 DEF Fetch, GoTo, RestIsListed, FilledIsFull, NothingOldLeft, NothingOldPushed, Filling
  <2>4. CASE Fill(s)
    BY <2>4 DEF Fill, GoTo, RestIsListed, FilledIsFull, NothingOldLeft, NothingOldPushed, Filling
  <2>5. CASE Poll(s)
    BY <2>5 DEF Poll, GoTo, RestIsListed, FilledIsFull, NothingOldLeft, NothingOldPushed, Filling
  <2>6. CASE Known(s)
    BY <2>6 DEF Known, GoTo, RestIsListed, FilledIsFull, NothingOldLeft, NothingOldPushed, Filling
  <2>7. CASE Store(s)
    BY <2>7 DEF Store, Saved, GoTo, RestIsListed, FilledIsFull, NothingOldLeft, NothingOldPushed,
                Filling
  <2>8. CASE Match(s)
    BY <2>8 DEF Match, ToNotify, GoTo, RestIsListed, FilledIsFull, NothingOldLeft,
                NothingOldPushed, Filling
  <2>9. CASE Push(s)
    BY <2>9 DEF Push, GoTo, RestIsListed, FilledIsFull, NothingOldLeft, NothingOldPushed, Filling
  <2> QED BY <1>3, <2>1, <2>2, <2>3, <2>4, <2>5, <2>6, <2>7, <2>8, <2>9 DEF Serve
<1>4. ASSUME NEW s \in Servers, Crash(s) PROVE Settled'
  BY <1>4 DEF Crash, GoTo, RestIsListed, FilledIsFull, NothingOldLeft, NothingOldPushed, Filling
<1>5. CASE UNCHANGED vars
  BY <1>5 DEF vars, serverVars, RestIsListed, FilledIsFull, NothingOldLeft, NothingOldPushed,
              Filling
<1> QED BY <1>1, <1>2, <1>3, <1>4, <1>5 DEF Next

\* What was in the feed before the service is never pushed, unless its first
\* filling was taken for complete too early.
THEOREM NoOldPushed == Spec => []NoFlood
<1>1. TypeOK /\ FillInv /\ [Next]_vars => (TypeOK /\ FillInv)'
  BY TypeStep, FillStep
<1>2. FillInv => NoFlood
  BY DEF FillInv, Settled, NothingOldPushed, NoFlood
<1> QED BY InitInv, InitFill, <1>1, <1>2, PTL DEF Spec

-----------------------------------------------------------------------------
(* Nothing is forgotten *)

\* What a server has saved waits for its match, what it has matched for its push.
ListsInUse ==
  \A s \in Servers :
    /\ saved[s] # {} => primed[s] /\ pc[s] \in {"store", "match"}
    /\ toPush[s] # {} => pc[s] = "push"

\* Some server still has this push ahead of it.
Ahead(pair) == \E s \in Servers : pair[1] \in saved[s] \/ pair \in toPush[s]

\* The pushes of everything stored: sent, given up, or ahead of some server.
AllAccounted ==
  \A pair \in Concerns : pair[1] \in stored =>
    pair \in pushed \/ pair[1] \in silent \union lost \/ Ahead(pair)

LEMMA InitAccount == Init => ListsInUse /\ AllAccounted
  BY DEF Init, ListsInUse, AllAccounted

\* Every step keeps the lists where they are used.
LEMMA ListsStep == TypeOK /\ ListsInUse /\ [Next]_vars => ListsInUse'
<1> SUFFICES ASSUME TypeOK, ListsInUse, [Next]_vars PROVE ListsInUse'
  OBVIOUS
<1> USE DEF TypeOK, ListsInUse
<1>1. CASE Publish
  BY <1>1 DEF Publish, serverVars
<1>2. CASE Expire
  BY <1>2 DEF Expire, serverVars
<1>3. ASSUME NEW s \in Servers, Serve(s) PROVE ListsInUse'
  <2>1. CASE Count(s) \/ FetchFails(s) \/ Fetch(s) \/ Fill(s)
    BY <2>1 DEF Count, FetchFails, Fetch, Fill, GoTo
  <2>2. CASE Poll(s) \/ Known(s)
    BY <2>2 DEF Poll, Known, GoTo
  <2>3. CASE Store(s)
    BY <2>3 DEF Store, Saved, GoTo
  <2>4. CASE Match(s)
    BY <2>4 DEF Match, GoTo
  <2>5. CASE Push(s)
    BY <2>5 DEF Push, GoTo
  <2> QED BY <1>3, <2>1, <2>2, <2>3, <2>4, <2>5 DEF Serve
<1>4. ASSUME NEW s \in Servers, Crash(s) PROVE ListsInUse'
  BY <1>4 DEF Crash, GoTo
<1>5. CASE UNCHANGED vars
  BY <1>5 DEF vars, serverVars
<1> QED BY <1>1, <1>2, <1>3, <1>4, <1>5 DEF Next

\* Steps that touch neither the lists nor the history keep the account.
LEMMA QuietAccount ==
  AllAccounted /\ UNCHANGED <<stored, saved, toPush, pushed, silent, lost>> => AllAccounted'
  BY DEF AllAccounted, Ahead

\* Every step keeps the account.
LEMMA AccountStep == TypeOK /\ ListsInUse /\ AllAccounted /\ [Next]_vars => AllAccounted'
<1> SUFFICES ASSUME TypeOK, ListsInUse, AllAccounted, [Next]_vars PROVE AllAccounted'
  OBVIOUS
<1>1. CASE Publish
  BY <1>1, QuietAccount DEF Publish, serverVars
<1>2. CASE Expire
  BY <1>2, QuietAccount DEF Expire, serverVars
<1>3. ASSUME NEW s \in Servers, Serve(s) PROVE AllAccounted'
  <2>1. CASE Count(s) \/ FetchFails(s) \/ Fetch(s) \/ Poll(s) \/ Known(s)
    BY <2>1, QuietAccount DEF Count, FetchFails, Fetch, Poll, Known
  <2>2. CASE Fill(s)
    <3>1. PICK g \in items[s] : /\ stored' = stored \union {g}
                                /\ silent' = IF g \in stored THEN silent ELSE silent \union {g}
      BY <2>2 DEF Fill
    <3>2. UNCHANGED <<saved, toPush, pushed, lost>>
      BY <2>2 DEF Fill
    <3> QED BY <3>1, <3>2 DEF AllAccounted, Ahead
  <2>3. CASE Store(s)
    <3>1. PICK g \in items[s] :
            /\ stored' = stored \union {g}
            /\ saved' = [saved EXCEPT ![s] = IF primed[s] THEN Saved(s, g) ELSE {}]
            /\ silent' = IF primed[s] \/ g \in stored THEN silent ELSE silent \union {g}
      BY <2>3 DEF Store
    <3>2. UNCHANGED <<toPush, pushed, lost>>
      BY <2>3 DEF Store
    <3>3. \A t \in Servers : saved[t] \subseteq saved'[t]
      BY <3>1 DEF Saved, TypeOK, ListsInUse
    <3>4. g \in stored \/ g \in silent' \/ g \in saved'[s]
      BY <3>1 DEF Saved, TypeOK
    <3> QED BY <3>1, <3>2, <3>3, <3>4 DEF AllAccounted, Ahead
  <2>4. CASE Match(s)
    <3>1. /\ toPush[s] = {}
          /\ toPush' = [toPush EXCEPT ![s] = ToNotify(saved[s])]
          /\ saved' = [saved EXCEPT ![s] = {}]
          /\ UNCHANGED <<stored, pushed, silent, lost>>
      BY <2>4 DEF Match, ListsInUse
    <3>2. ASSUME NEW pair \in Concerns, Ahead(pair) PROVE Ahead(pair)'
      BY <3>1, <3>2 DEF Ahead, ToNotify, TypeOK
    <3> QED BY <3>1, <3>2 DEF AllAccounted
  <2>5. CASE Push(s)
    <3>1. PICK sent \in toPush[s] :
            /\ pushed' = pushed \union {sent}
            /\ toPush' = [toPush EXCEPT ![s] = @ \ {sent}]
      BY <2>5 DEF Push
    <3>2. UNCHANGED <<stored, saved, silent, lost>>
      BY <2>5 DEF Push
    <3>3. ASSUME NEW pair \in Concerns, Ahead(pair) PROVE pair \in pushed' \/ Ahead(pair)'
      BY <3>1, <3>2, <3>3 DEF Ahead, TypeOK
    <3> QED BY <3>1, <3>2, <3>3 DEF AllAccounted
  <2> QED BY <1>3, <2>1, <2>2, <2>3, <2>4, <2>5 DEF Serve
<1>4. ASSUME NEW s \in Servers, Crash(s) PROVE AllAccounted'
  <2>1. /\ lost' = lost \union saved[s] \union {pair[1] : pair \in toPush[s]}
        /\ saved' = [saved EXCEPT ![s] = {}]
        /\ toPush' = [toPush EXCEPT ![s] = {}]
        /\ UNCHANGED <<stored, pushed, silent>>
    BY <1>4 DEF Crash
  <2>2. ASSUME NEW pair \in Concerns, Ahead(pair) PROVE pair[1] \in lost' \/ Ahead(pair)'
    BY <2>1, <2>2 DEF Ahead, TypeOK
  <2> QED BY <2>1, <2>2 DEF AllAccounted
<1>5. CASE UNCHANGED vars
  BY <1>5, QuietAccount DEF vars, serverVars
<1> QED BY <1>1, <1>2, <1>3, <1>4, <1>5 DEF Next

\* A stored intervention is never forgotten: each push it calls for is sent, or
\* is ahead of a server that runs (pollInterventions goes on to match and push
\* what saveNew returned), or its row was part of a first filling, or a restart
\* came between the row and the push.
THEOREM NothingForgotten == Spec =>
  [](\A pair \in Concerns : pair[1] \in stored =>
       \/ pair \in pushed \/ pair[1] \in silent \union lost
       \/ \E s \in Servers : /\ pc[s] \in {"store", "match", "push"}
                             /\ pair[1] \in saved[s] \/ pair \in toPush[s])
<1> DEFINE Told ==
      \A pair \in Concerns : pair[1] \in stored =>
        \/ pair \in pushed \/ pair[1] \in silent \union lost
        \/ \E s \in Servers : /\ pc[s] \in {"store", "match", "push"}
                              /\ pair[1] \in saved[s] \/ pair \in toPush[s]
<1>1. TypeOK /\ ListsInUse /\ AllAccounted /\ [Next]_vars => (TypeOK /\ ListsInUse /\ AllAccounted)'
  BY TypeStep, ListsStep, AccountStep
<1>2. ListsInUse /\ AllAccounted => Told
  BY DEF ListsInUse, AllAccounted, Ahead
<1>3. Spec => []Told
  <2> HIDE DEF Told
  <2> QED BY InitInv, InitAccount, <1>1, <1>2, PTL DEF Spec
<1> QED BY <1>3
=============================================================================
