---------------------------- MODULE DailyProofs -----------------------------
(***************************************************************************)
(* Proofs about what members answer to an event (Responses) and about the   *)
(* checks of every morning (Deadlines), for any members, requests, things,  *)
(* deadlines, announced days and bounds.  A row holds what was told because *)
(* requests that overlap know of each other; a run tells of all that is due *)
(* because a check leaves a kind only when nothing of it is owed.           *)
(***************************************************************************)
EXTENDS Responses, Deadlines, TLAPS

-----------------------------------------------------------------------------
(* The answers of members *)

(* What is said: a value for each of some members. *)
Saying(table, says) ==
    /\ DOMAIN says \subseteq Respondents
    /\ \A m \in DOMAIN says : says[m] \in Values(table)
    /\ table = "read" => \A m, n \in DOMAIN says : m = n
Sayings == UNION {[d -> AllValues] : d \in SUBSET Respondents}
TapPlaces == {"none", "sent", "next", "insert", "save", "update", "over"}
TapRecords ==
    [at : TapPlaces, table : Tables, says : Sayings, left : SUBSET Respondents,
     now : Respondents \cup {NoRow}, found : AllValues \cup {NoRow}, alone : BOOLEAN]

ResponsesTypes ==
    /\ event \in {"planned", "cancelled", "deleted"}
    /\ rows \in [Keys -> AllValues \cup {NoRow}]
    /\ taps \in [Taps -> TapRecords]
    /\ told \in [Keys -> SUBSET (AllValues \cup {NoRow})]
    /\ outages \in Nat

(* The rows that went with the event. *)
Gone(k) == event = "deleted" /\ k[1] # "read"

(* A request says a value of its table for each member, and knows whose row *)
(* it is at.                                                                *)
TapOK(tap) ==
    /\ Saying(tap.table, tap.says)
    /\ tap.left \subseteq DOMAIN tap.says
    /\ tap.at \in {"insert", "save", "update"} => tap.now \in tap.left
    /\ tap.at \in {"save", "update"} => tap.table # "read"

(* A row that is saved is there, unless it went with the event. *)
RowThere == \A r \in Taps :
    taps[r].at \in {"save", "update"} => Gone(Key(r)) \/ rows[Key(r)] # NoRow

(* Every row holds a value of its table, and what its member was told, or   *)
(* what a request under way has saved.                                      *)
RowsRight == \A k \in Keys :
    IF Gone(k) THEN rows[k] = NoRow
    ELSE /\ rows[k] \in Values(k[1]) \cup {NoRow}
         /\ \/ rows[k] \in told[k]
            \/ \E r \in Taps : Pending(r) /\ k \in Doubted(r) /\ rows[k] = taps[r].says[k[2]]

(* A request that met no other has saved what its row still holds. *)
AloneRight == \A r \in Taps, k \in Keys :
    (Pending(r) /\ taps[r].alone /\ k \in Doubted(r) /\ ~Gone(k))
        => rows[k] = taps[r].says[k[2]]

NoneMet == \A q, r \in Taps :
    (q # r /\ Pending(q) /\ Pending(r) /\ About(q) \cap About(r) # {}) => ~taps[q].alone

ResponsesInv ==
    /\ ResponsesTypes
    /\ \A r \in Taps : TapOK(taps[r])
    /\ RowThere /\ RowsRight /\ AloneRight /\ NoneMet

LEMMA NoTapTyped == NoTap \in TapRecords /\ TapOK(NoTap) /\ NoTap.says = << >> /\ DOMAIN NoTap.says = {}
<1>1. << >> \in [{} -> AllValues]
  OBVIOUS
<1>2. << >> \in Sayings
  BY <1>1 DEF Sayings
<1> QED BY <1>2 DEF NoTap, TapRecords, TapOK, Saying, TapPlaces, Tables

LEMMA BeforeTyped ==
    ASSUME NEW k \in Keys
    PROVE  Before(k) \in Values(k[1]) \cup {NoRow}
<1>1. \E v \in Values(k[1]) : TRUE
  BY ResponsesAssumption DEF Values
<1> QED BY <1>1 DEF Before

LEMMA ValuesTyped ==
    ASSUME NEW table \in Tables
    PROVE  Values(table) \subseteq AllValues /\ NoRow \notin Values(table)
BY ResponsesAssumption DEF Tables, Values, AllValues

LEMMA ResponsesStart == ResponsesInit => ResponsesInv
<1> SUFFICES ASSUME ResponsesInit PROVE ResponsesInv
  OBVIOUS
<1>1. ResponsesTypes
  BY BeforeTyped, ValuesTyped, NoTapTyped DEF ResponsesInit, ResponsesTypes, Keys
<1>2. \A r \in Taps : taps[r] = NoTap
  BY DEF ResponsesInit
<1>3. \A r \in Taps : TapOK(taps[r]) /\ ~Pending(r) /\ taps[r].at = "none"
  BY <1>2, NoTapTyped DEF Pending, NoTap
<1>4. \A k \in Keys : ~Gone(k) /\ rows[k] \in Values(k[1]) \cup {NoRow} /\ rows[k] \in told[k]
  BY BeforeTyped DEF ResponsesInit, Gone
<1> QED BY <1>1, <1>3, <1>4 DEF ResponsesInv, RowThere, RowsRight, AloneRight, NoneMet

(* What a request says is a value of its table for each of its members. *)
LEMMA SaysTyped ==
    ASSUME NEW tap \in TapRecords, TapOK(tap), NEW m \in DOMAIN tap.says
    PROVE  /\ m \in Respondents /\ <<tap.table, m>> \in Keys
           /\ tap.says[m] \in Values(tap.table) /\ tap.says[m] \in AllValues
           /\ tap.says[m] # NoRow
<1>1. m \in Respondents /\ tap.table \in Tables /\ tap.says[m] \in Values(tap.table)
  BY DEF TapOK, Saying, TapRecords
<1> QED BY <1>1, ValuesTyped DEF Keys

(* A request that goes on to another statement. *)
LEMMA GoesOK ==
    ASSUME ResponsesInv, NEW r \in Taps, NEW tap \in TapRecords, TapOK(tap),
           tap.table = taps[r].table, tap.says = taps[r].says, tap.left = taps[r].left,
           tap.alone = taps[r].alone, Pending(r), tap.at \notin {"none", "over"},
           tap.at \in {"save", "update"} =>
              LET k == <<tap.table, tap.now>> IN Gone(k) \/ rows[k] # NoRow,
           Goes(r, tap), UNCHANGED <<event, rows, outages>>
    PROVE  ResponsesInv'
<1>1. /\ taps' = [taps EXCEPT ![r] = tap] /\ taps \in [Taps -> TapRecords]
      /\ told' = told /\ event' = event /\ rows' = rows
  BY DEF Goes, ResponsesInv, ResponsesTypes
<1>2. /\ taps'[r] = tap /\ \A q \in Taps : q # r => taps'[q] = taps[q]
      /\ \A q \in Taps : /\ taps'[q].says = taps[q].says /\ taps'[q].table = taps[q].table
                         /\ taps'[q].alone = taps[q].alone /\ taps'[q].left = taps[q].left
  BY <1>1
<1>3. \A q \in Taps : Doubted(q)' = Doubted(q) /\ Pending(q)' = Pending(q)
  BY <1>2 DEF Doubted, Pending
<1>3a. \A q \in Taps : About(q)' = About(q)
  BY <1>2 DEF About
<1>4. ResponsesTypes'
  BY <1>1 DEF ResponsesInv, ResponsesTypes
<1>5. (\A q \in Taps : TapOK(taps[q]))'
  BY <1>2 DEF ResponsesInv
<1>6. RowThere'
  BY <1>1, <1>2 DEF ResponsesInv, RowThere, Key, Gone
<1>7. RowsRight'
  BY <1>1, <1>2, <1>3 DEF ResponsesInv, RowsRight, Gone
<1>8. AloneRight'
  BY <1>1, <1>2, <1>3 DEF ResponsesInv, AloneRight, Gone
<1>9. NoneMet'
  BY <1>2, <1>3, <1>3a DEF ResponsesInv, NoneMet
<1> QED BY <1>4, <1>5, <1>6, <1>7, <1>8, <1>9 DEF ResponsesInv

(* Requests that end without success. *)
LEMMA FailOK ==
    ASSUME ResponsesInv, NEW failed \in SUBSET Taps, Fail(failed), UNCHANGED <<event, rows>>,
           outages' \in Nat
    PROVE  ResponsesInv'
<1> DEFINE Left(k) == {taps[r].says[k[2]] : r \in {q \in failed : k \in Doubted(q)}}
<1>1. /\ taps' = [r \in Taps |-> IF r \in failed THEN Over ELSE taps[r]]
      /\ told' = [k \in Keys |-> told[k] \cup Left(k)] /\ event' = event /\ rows' = rows
      /\ taps \in [Taps -> TapRecords] /\ \A r \in Taps : TapOK(taps[r])
  BY DEF Fail, ResponsesInv, ResponsesTypes
<1>2. Over \in TapRecords /\ TapOK(Over) /\ Over.at = "over"
  BY NoTapTyped DEF Over, TapRecords, TapOK, TapPlaces
<1>3. \A r \in Taps : IF r \in failed THEN taps'[r] = Over ELSE taps'[r] = taps[r]
  BY <1>1
<1>4. \A r \in Taps : Pending(r)' => r \notin failed /\ Pending(r) /\ taps'[r] = taps[r]
                                     /\ Doubted(r)' = Doubted(r) /\ About(r)' = About(r)
  BY <1>2, <1>3 DEF Pending, Doubted, About
<1>5. ASSUME NEW k \in Keys, NEW r \in Taps, k \in Doubted(r)
      PROVE  taps[r].says[k[2]] \in AllValues
  BY <1>1, <1>5, SaysTyped DEF Doubted
<1>6. ResponsesTypes'
  <2>1. \A k \in Keys : Left(k) \subseteq AllValues
    BY <1>5
  <2> HIDE DEF Left
  <2>2. taps' \in [Taps -> TapRecords]
    BY <1>1, <1>2
  <2>3. told' \in [Keys -> SUBSET (AllValues \cup {NoRow})]
    BY <1>1, <2>1 DEF ResponsesInv, ResponsesTypes
  <2> QED BY <1>1, <2>2, <2>3 DEF ResponsesInv, ResponsesTypes
<1>7. (\A r \in Taps : TapOK(taps[r]))'
  BY <1>1, <1>2, <1>3
<1>8. RowThere'
  BY <1>1, <1>2, <1>3 DEF ResponsesInv, RowThere, Key, Gone
<1>9. RowsRight'
  <2> SUFFICES ASSUME NEW k \in Keys, ~Gone(k)
               PROVE  \/ rows[k] \in told'[k]
                      \/ \E r \in Taps : Pending(r)' /\ k \in Doubted(r)' /\ rows[k] = taps'[r].says[k[2]]
    BY <1>1 DEF ResponsesInv, RowsRight, Gone
  <2>1. CASE rows[k] \in told[k]
    BY <1>1, <2>1
  <2>2. ASSUME NEW r \in Taps, Pending(r), k \in Doubted(r), rows[k] = taps[r].says[k[2]]
        PROVE  \/ rows[k] \in told'[k]
               \/ Pending(r)' /\ k \in Doubted(r)' /\ rows[k] = taps'[r].says[k[2]]
    BY <1>1, <1>3, <2>2 DEF Pending, Doubted
  <2> QED BY <2>1, <2>2 DEF ResponsesInv, RowsRight
<1>10. AloneRight'
  BY <1>1, <1>4 DEF ResponsesInv, AloneRight, Gone
<1>11. NoneMet'
  BY <1>4 DEF ResponsesInv, NoneMet
<1> QED BY <1>6, <1>7, <1>8, <1>9, <1>10, <1>11 DEF ResponsesInv

(* The row of a member stands as the request says: it has been written, or  *)
(* was so before.                                                           *)
StandsFor(r, m) ==
    LET k == <<taps[r].table, m>> IN
    /\ rows' \in [Keys -> AllValues \cup {NoRow}]
    /\ \A other \in Keys \ {k} : rows'[other] = rows[other]
    /\ rows'[k] = IF Gone(k) THEN NoRow ELSE taps[r].says[m]
    /\ event' = event /\ outages' = outages

LEMMA StandsForOthers ==
    ASSUME ResponsesInv, NEW r \in Taps, Pending(r), NEW m \in taps[r].left, StandsFor(r, m)
    PROVE  LET k == <<taps[r].table, m>> IN
           /\ k \in Keys /\ k \in About(r) /\ k[1] = taps[r].table /\ k[2] = m
           /\ \A j \in Keys : Gone(j)' = Gone(j)
           /\ \A j \in Keys : Gone(j) => rows'[j] = NoRow
           /\ \A j \in Keys : rows'[j] \in Values(j[1]) \cup {NoRow}
           /\ \A q \in Taps \ {r} : taps[q].at \in {"save", "update"} =>
                 Gone(Key(q)) \/ rows'[Key(q)] # NoRow
           /\ \A q \in Taps \ {r}, j \in Keys :
                 (Pending(q) /\ taps[q].alone /\ j \in Doubted(q)) => j # k
<1> DEFINE k == <<taps[r].table, m>>
<1>1. taps[r] \in TapRecords /\ TapOK(taps[r]) /\ m \in DOMAIN taps[r].says
  BY DEF ResponsesInv, ResponsesTypes, TapOK
<1>2. k \in Keys /\ k \in About(r) /\ k[1] = taps[r].table /\ k[2] = m
      /\ taps[r].says[m] \in Values(k[1]) /\ taps[r].says[m] # NoRow
  BY <1>1, SaysTyped DEF About
<1>3. \A j \in Keys : j # k => rows'[j] = rows[j]
  BY DEF StandsFor
<1>4. rows'[k] = IF Gone(k) THEN NoRow ELSE taps[r].says[m]
  BY DEF StandsFor
<1>5. event' = event
  BY DEF StandsFor
<1> HIDE DEF k
<1>6. \A j \in Keys : Gone(j)' = Gone(j)
  BY <1>5 DEF Gone
<1>7. \A j \in Keys : Gone(j) => rows'[j] = NoRow
  BY <1>3, <1>4 DEF ResponsesInv, RowsRight
<1>8. \A j \in Keys : rows'[j] \in Values(j[1]) \cup {NoRow}
  BY <1>2, <1>3, <1>4 DEF ResponsesInv, RowsRight
<1>9. ASSUME NEW q \in Taps \ {r}, taps[q].at \in {"save", "update"}
      PROVE  Gone(Key(q)) \/ rows'[Key(q)] # NoRow
  <2>1. taps[q] \in TapRecords /\ TapOK(taps[q]) /\ taps[q].now \in DOMAIN taps[q].says
    BY <1>9 DEF ResponsesInv, ResponsesTypes, TapOK
  <2>2. Key(q) \in Keys
    BY <2>1, SaysTyped DEF Key
  <2> QED BY <1>2, <1>3, <1>4, <1>9, <2>2 DEF ResponsesInv, RowThere
<1>10. ASSUME NEW q \in Taps \ {r}, NEW j \in Keys, Pending(q), taps[q].alone, j \in Doubted(q)
       PROVE  j # k
  BY <1>2, <1>10 DEF ResponsesInv, NoneMet, Doubted, About
<1> QED BY <1>2, <1>6, <1>7, <1>8, <1>9, <1>10 DEF k

(* The last entry of a request stands, and the member is told. *)
LEMMA SucceedsOK ==
    ASSUME ResponsesInv, NEW r \in Taps, Pending(r), NEW m \in taps[r].left, StandsFor(r, m),
           taps[r].left \ {m} = {}, Succeeds(r)
    PROVE  ResponsesInv'
<1> DEFINE k == <<taps[r].table, m>>
           tells(j) == taps[r].says[j[2]]
<1>0. PICK answered \in BOOLEAN :
         /\ taps' = [taps EXCEPT ![r] = Over]
         /\ told' = [j \in Keys |-> IF j \notin About(r) THEN told[j]
                        ELSE (IF taps[r].alone /\ answered THEN {} ELSE told[j])
                             \cup {tells(j)}]
  BY DEF Succeeds
<1>1. /\ taps' = [taps EXCEPT ![r] = Over]
      /\ told' = [j \in Keys |-> IF j \notin About(r) THEN told[j]
                     ELSE (IF taps[r].alone /\ answered THEN {} ELSE told[j]) \cup {tells(j)}]
      /\ taps \in [Taps -> TapRecords] /\ \A q \in Taps : TapOK(taps[q])
  BY <1>0 DEF ResponsesInv, ResponsesTypes
<1>2. Over \in TapRecords /\ TapOK(Over) /\ Over.at = "over"
  BY NoTapTyped DEF Over, TapRecords, TapOK, TapPlaces
<1>3. taps'[r] = Over /\ \A q \in Taps : q # r => taps'[q] = taps[q]
  BY <1>1
<1>4. /\ ~Pending(r)'
      /\ \A q \in Taps : q # r => Pending(q)' = Pending(q)
                                    /\ Doubted(q)' = Doubted(q) /\ About(q)' = About(q)
  BY <1>2, <1>3 DEF Pending, Doubted, About
<1>5. ASSUME NEW j \in Keys, j \in About(r)
      PROVE  tells(j) \in AllValues /\ (j = k \/ j \in Doubted(r))
  <2>1. taps[r] \in TapRecords /\ TapOK(taps[r])
    BY <1>1
  <2>2. PICK n \in DOMAIN taps[r].says : j = <<taps[r].table, n>>
    BY <1>5 DEF About
  <2>3. n = m \/ n \in DOMAIN taps[r].says \ taps[r].left
    OBVIOUS
  <2> QED BY <2>1, <2>2, <2>3, SaysTyped DEF Doubted
<1>6. Doubted(r) \subseteq About(r) /\ rows'[k] = (IF Gone(k) THEN NoRow ELSE tells(k))
      /\ \A j \in Keys : j # k => rows'[j] = rows[j]
  BY DEF Doubted, About, StandsFor
<1>7. /\ k \in Keys /\ k \in About(r)
      /\ \A j \in Keys : Gone(j)' = Gone(j)
      /\ \A j \in Keys : Gone(j) => rows'[j] = NoRow
      /\ \A j \in Keys : rows'[j] \in Values(j[1]) \cup {NoRow}
      /\ \A q \in Taps \ {r} : taps[q].at \in {"save", "update"} =>
            Gone(Key(q)) \/ rows'[Key(q)] # NoRow
      /\ \A q \in Taps \ {r}, j \in Keys :
            (Pending(q) /\ taps[q].alone /\ j \in Doubted(q)) => j # k
  BY StandsForOthers
<1> HIDE DEF k, tells
<1>8. ResponsesTypes'
  <2>1. told' \in [Keys -> SUBSET (AllValues \cup {NoRow})]
    BY <1>1, <1>5 DEF ResponsesInv, ResponsesTypes
  <2> QED BY <1>1, <1>2, <2>1 DEF ResponsesInv, ResponsesTypes, StandsFor
<1>9. (\A q \in Taps : TapOK(taps[q]))'
  BY <1>1, <1>2, <1>3
<1>10. RowThere'
  <2> SUFFICES ASSUME NEW q \in Taps, taps'[q].at \in {"save", "update"}
               PROVE  Gone(Key(q))' \/ rows'[Key(q)'] # NoRow
    BY DEF RowThere
  <2>1. q # r /\ taps'[q] = taps[q] /\ Key(q)' = Key(q) /\ event' = event
    BY <1>2, <1>3 DEF Key, StandsFor
  <2> QED BY <1>7, <2>1 DEF Gone
<1>11. RowsRight'
  <2> SUFFICES ASSUME NEW j \in Keys, ~Gone(j)
               PROVE  \/ rows'[j] \in told'[j]
                      \/ \E q \in Taps : Pending(q)' /\ j \in Doubted(q)'
                                         /\ rows'[j] = taps'[q].says[j[2]]
    BY <1>7 DEF RowsRight
  <2>1. CASE j = k
    BY <1>1, <1>6, <1>7, <2>1
  <2>2. CASE j # k /\ j \in About(r) /\ taps[r].alone /\ answered
    <3>1. rows[j] = tells(j)
      BY <1>5, <2>2 DEF ResponsesInv, AloneRight, tells
    <3> QED BY <1>1, <1>6, <2>2, <3>1
  <2>3. CASE j # k /\ rows[j] \in told[j] /\ ~(j \in About(r) /\ taps[r].alone /\ answered)
    BY <1>1, <1>6, <2>3
  <2>4. ASSUME NEW q \in Taps, Pending(q), j \in Doubted(q), rows[j] = taps[q].says[j[2]],
               j # k, ~(j \in About(r) /\ taps[r].alone /\ answered)
        PROVE  \/ rows'[j] \in told'[j]
               \/ Pending(q)' /\ j \in Doubted(q)' /\ rows'[j] = taps'[q].says[j[2]]
    <3>1. CASE q = r
      BY <1>1, <1>6, <2>4, <3>1 DEF tells
    <3>2. CASE q # r
      BY <1>3, <1>4, <1>6, <2>4, <3>2
    <3> QED BY <3>1, <3>2
  <2> QED BY <2>1, <2>2, <2>3, <2>4 DEF ResponsesInv, RowsRight
<1>12. AloneRight'
  <2> SUFFICES ASSUME NEW q \in Taps, NEW j \in Keys, Pending(q)', taps'[q].alone,
                      j \in Doubted(q)', ~Gone(j)
               PROVE  rows'[j] = taps'[q].says[j[2]]
    BY <1>7 DEF AloneRight
  <2>1. q # r /\ taps'[q] = taps[q] /\ Pending(q) /\ j \in Doubted(q)
    BY <1>3, <1>4
  <2> QED BY <1>6, <1>7, <2>1 DEF ResponsesInv, AloneRight
<1>13. NoneMet'
  BY <1>3, <1>4 DEF ResponsesInv, NoneMet
<1> QED BY <1>8, <1>9, <1>10, <1>11, <1>12, <1>13 DEF ResponsesInv

(* An entry of a list stands, and the request goes on to the next one. *)
LEMMA NextEntryOK ==
    ASSUME ResponsesInv, NEW r \in Taps, Pending(r), NEW m \in taps[r].left, StandsFor(r, m),
           Goes(r, [taps[r] EXCEPT !.at = "next", !.left = @ \ {m}, !.now = NoRow,
                                   !.found = NoRow])
    PROVE  ResponsesInv'
<1> DEFINE k == <<taps[r].table, m>>
           tap == [taps[r] EXCEPT !.at = "next", !.left = @ \ {m}, !.now = NoRow,
                                  !.found = NoRow]
<1>1. /\ taps' = [taps EXCEPT ![r] = tap] /\ told' = told
      /\ taps \in [Taps -> TapRecords] /\ \A q \in Taps : TapOK(taps[q])
      /\ taps[r] \in TapRecords
  BY DEF Goes, ResponsesInv, ResponsesTypes
<1>2. /\ tap \in TapRecords /\ TapOK(tap) /\ tap.at = "next" /\ tap.says = taps[r].says
      /\ tap.table = taps[r].table /\ tap.alone = taps[r].alone
      /\ tap.left = taps[r].left \ {m}
  BY <1>1 DEF TapRecords, TapOK, TapPlaces
<1> HIDE DEF tap
<1>3. taps'[r] = tap /\ \A q \in Taps : q # r => taps'[q] = taps[q]
  BY <1>1
<1>4. \A q \in Taps : Pending(q)' = Pending(q) /\ About(q)' = About(q)
  BY <1>2, <1>3 DEF Pending, About
<1>5. /\ \A q \in Taps : q # r => Doubted(q)' = Doubted(q)
      /\ Doubted(r)' = Doubted(r) \cup {k}
  <2>1. m \in DOMAIN taps[r].says
    BY <1>1 DEF TapOK
  <2> QED BY <1>2, <1>3, <2>1 DEF Doubted
<1>6. /\ rows'[k] = (IF Gone(k) THEN NoRow ELSE taps[r].says[m]) /\ k[2] = m
      /\ \A j \in Keys : j # k => rows'[j] = rows[j]
  BY DEF StandsFor
<1>7. /\ k \in Keys /\ k \in About(r)
      /\ \A j \in Keys : Gone(j)' = Gone(j)
      /\ \A j \in Keys : Gone(j) => rows'[j] = NoRow
      /\ \A j \in Keys : rows'[j] \in Values(j[1]) \cup {NoRow}
      /\ \A q \in Taps \ {r} : taps[q].at \in {"save", "update"} =>
            Gone(Key(q)) \/ rows'[Key(q)] # NoRow
      /\ \A q \in Taps \ {r}, j \in Keys :
            (Pending(q) /\ taps[q].alone /\ j \in Doubted(q)) => j # k
  BY StandsForOthers
<1> HIDE DEF k
<1>8. ResponsesTypes'
  BY <1>1, <1>2 DEF ResponsesInv, ResponsesTypes, StandsFor
<1>9. (\A q \in Taps : TapOK(taps[q]))'
  BY <1>1, <1>2, <1>3
<1>10. RowThere'
  <2> SUFFICES ASSUME NEW q \in Taps, taps'[q].at \in {"save", "update"}
               PROVE  Gone(Key(q))' \/ rows'[Key(q)'] # NoRow
    BY DEF RowThere
  <2>1. q # r /\ taps'[q] = taps[q] /\ Key(q)' = Key(q) /\ event' = event
    BY <1>2, <1>3 DEF Key, StandsFor
  <2> QED BY <1>7, <2>1 DEF Gone
<1>11. RowsRight'
  <2> SUFFICES ASSUME NEW j \in Keys, ~Gone(j)
               PROVE  \/ rows'[j] \in told'[j]
                      \/ \E q \in Taps : Pending(q)' /\ j \in Doubted(q)'
                                         /\ rows'[j] = taps'[q].says[j[2]]
    BY <1>7 DEF RowsRight
  <2>1. CASE j = k
    BY <1>2, <1>3, <1>4, <1>5, <1>6, <2>1
  <2>2. CASE j # k
    <3>1. rows'[j] = rows[j] /\ told'[j] = told[j]
      BY <1>1, <1>6, <2>2
    <3>2. \A q \in Taps : taps'[q].says = taps[q].says
      BY <1>2, <1>3
    <3> QED BY <1>4, <1>5, <2>2, <3>1, <3>2 DEF ResponsesInv, RowsRight
  <2> QED BY <2>1, <2>2
<1>12. AloneRight'
  <2> SUFFICES ASSUME NEW q \in Taps, NEW j \in Keys, Pending(q)', taps'[q].alone,
                      j \in Doubted(q)', ~Gone(j)
               PROVE  rows'[j] = taps'[q].says[j[2]]
    BY <1>7 DEF AloneRight
  <2>1. Pending(q) /\ taps[q].alone /\ taps'[q].says = taps[q].says
    BY <1>2, <1>3, <1>4
  <2>2. CASE q = r /\ j = k
    BY <1>2, <1>3, <1>6, <2>2
  <2>3. CASE j # k
    BY <1>5, <1>6, <2>1, <2>3 DEF ResponsesInv, AloneRight
  <2>4. CASE q # r
    BY <1>5, <1>7, <2>1, <2>3, <2>4
  <2> QED BY <2>2, <2>3, <2>4
<1>13. NoneMet'
  BY <1>2, <1>3, <1>4 DEF ResponsesInv, NoneMet
<1> QED BY <1>8, <1>9, <1>10, <1>11, <1>12, <1>13 DEF ResponsesInv

LEMMA StandsOK ==
    ASSUME ResponsesInv, NEW r \in Taps, taps[r].at \in {"insert", "save", "update"},
           StandsFor(r, taps[r].now), Stands(r)
    PROVE  ResponsesInv'
<1>1. Pending(r) /\ taps[r].now \in taps[r].left
  BY DEF Pending, ResponsesInv, TapOK
<1>2. CASE taps[r].left \ {taps[r].now} = {}
  BY <1>1, <1>2, SucceedsOK DEF Stands
<1>3. CASE taps[r].left \ {taps[r].now} # {}
  <2>1. taps[r] \in TapRecords
    BY DEF ResponsesInv, ResponsesTypes
  <2>2. [taps[r] EXCEPT !.at = "next", !.left = taps[r].left \ {taps[r].now}, !.now = NoRow,
                        !.found = NoRow]
        = [taps[r] EXCEPT !.at = "next", !.left = @ \ {taps[r].now}, !.now = NoRow,
                          !.found = NoRow]
    OBVIOUS
  <2> QED BY <1>1, <1>3, <2>2, NextEntryOK DEF Stands
<1> QED BY <1>2, <1>3

-----------------------------------------------------------------------------
LEMMA SendsOK ==
    ASSUME ResponsesInv, NEW r \in Taps, NEW table \in Tables, NEW says \in Sayings,
           Saying(table, says), Sends(r, table, says)
    PROVE  ResponsesInv'
<1> DEFINE keys == {<<table, m>> : m \in DOMAIN says}
           met == {q \in Taps : Pending(q) /\ About(q) \cap keys # {}}
           tap == [NoTap EXCEPT !.at = "sent", !.table = table, !.says = says,
                                !.left = DOMAIN says, !.alone = met = {}]
<1>1. /\ taps[r].at = "none" /\ UNCHANGED <<event, rows, told, outages>>
      /\ taps' = [q \in Taps |-> IF q = r THEN tap
                    ELSE IF q \in met THEN [taps[q] EXCEPT !.alone = FALSE] ELSE taps[q]]
      /\ taps \in [Taps -> TapRecords] /\ \A q \in Taps : TapOK(taps[q])
  BY DEF Sends, ResponsesInv, ResponsesTypes
<1>2. /\ tap \in TapRecords /\ TapOK(tap) /\ tap.at = "sent" /\ tap.says = says
      /\ tap.table = table /\ tap.left = DOMAIN says /\ tap.alone = (met = {})
  <2> DEFINE any == NoTap
             alone == met = {}
  <2>1. any \in TapRecords /\ alone \in BOOLEAN
    BY NoTapTyped
  <2>2. DOMAIN says \subseteq Respondents
    BY DEF Saying
  <2> HIDE DEF any, alone
  <2>3. tap = [any EXCEPT !.at = "sent", !.table = table, !.says = says,
                          !.left = DOMAIN says, !.alone = alone]
    BY DEF any, alone
  <2> HIDE DEF tap
  <2>4. /\ tap \in TapRecords /\ TapOK(tap) /\ tap.at = "sent" /\ tap.says = says
        /\ tap.table = table /\ tap.left = DOMAIN says /\ tap.alone = alone
    BY <2>1, <2>2, <2>3 DEF TapRecords, TapOK, TapPlaces
  <2> QED BY <2>4 DEF alone
<1> HIDE DEF tap
<1>3. taps'[r] = tap /\ \A q \in Taps \ {r} :
         taps'[q] = IF q \in met THEN [taps[q] EXCEPT !.alone = FALSE] ELSE taps[q]
  BY <1>1
<1>4. ASSUME NEW q \in Taps \ {r}
      PROVE  /\ taps'[q] \in TapRecords /\ TapOK(taps'[q])
             /\ taps'[q].at = taps[q].at /\ taps'[q].table = taps[q].table
             /\ taps'[q].says = taps[q].says /\ taps'[q].left = taps[q].left
             /\ taps'[q].now = taps[q].now
             /\ taps'[q].alone = (IF q \in met THEN FALSE ELSE taps[q].alone)
  <2>1. taps[q] \in TapRecords /\ TapOK(taps[q])
    BY <1>1
  <2>2. CASE q \in met
    <3> DEFINE old == taps[q]
               new == [old EXCEPT !.alone = FALSE]
    <3>1. taps'[q] = new
      BY <1>3, <2>2
    <3>2. old \in TapRecords /\ TapOK(old) /\ FALSE \in BOOLEAN
      BY <2>1
    <3> HIDE DEF old
    <3>3. /\ new \in TapRecords /\ TapOK(new) /\ new.at = old.at /\ new.table = old.table
          /\ new.says = old.says /\ new.left = old.left /\ new.now = old.now
          /\ new.alone = FALSE
      BY <3>2 DEF TapRecords, TapOK
    <3> QED BY <2>2, <3>1, <3>3 DEF old
  <2>3. CASE q \notin met
    BY <1>3, <2>1, <2>3
  <2> QED BY <2>2, <2>3
<1>5. \A q \in Taps \ {r} : /\ Pending(q)' = Pending(q) /\ Doubted(q)' = Doubted(q)
                            /\ About(q)' = About(q) /\ Key(q)' = Key(q)
  BY <1>4 DEF Pending, Doubted, About, Key
<1>6. Doubted(r)' = {} /\ About(r)' = keys /\ ~Pending(r)
  BY <1>1, <1>2, <1>3 DEF Doubted, About, Pending
<1>7. ResponsesTypes'
  <2>1. taps' \in [Taps -> TapRecords]
    BY <1>1, <1>2, <1>3, <1>4
  <2> QED BY <1>1, <2>1 DEF ResponsesInv, ResponsesTypes
<1>8. (\A q \in Taps : TapOK(taps[q]))'
  BY <1>2, <1>3, <1>4
<1>9. RowThere'
  BY <1>1, <1>2, <1>3, <1>4, <1>5 DEF ResponsesInv, RowThere, Gone
<1>10. RowsRight'
  BY <1>1, <1>4, <1>5, <1>6 DEF ResponsesInv, RowsRight, Gone
<1>11. AloneRight'
  <2> SUFFICES ASSUME NEW q \in Taps, NEW j \in Keys, Pending(q)', taps'[q].alone,
                      j \in Doubted(q)', ~Gone(j)'
               PROVE  rows'[j] = taps'[q].says[j[2]]
    BY DEF AloneRight
  <2>1. q # r
    BY <1>6
  <2>2. taps[q].alone /\ Pending(q) /\ j \in Doubted(q) /\ taps'[q].says = taps[q].says
    BY <1>4, <1>5, <2>1
  <2> QED BY <1>1, <2>2 DEF ResponsesInv, AloneRight, Gone
<1>12. NoneMet'
  <2> SUFFICES ASSUME NEW q \in Taps, NEW p \in Taps, q # p, Pending(q)', Pending(p)',
                      About(q)' \cap About(p)' # {}, taps'[q].alone
               PROVE  FALSE
    BY DEF NoneMet
  <2>1. CASE q = r
    <3>1. met = {}
      BY <1>2, <1>3, <2>1, Zenon
    <3>2. Pending(p) /\ About(p) \cap keys # {}
      BY <1>5, <1>6, <2>1
    <3> QED BY <3>1, <3>2
  <2>2. CASE p = r
    BY <1>4, <1>5, <1>6, <2>2
  <2>3. CASE q # r /\ p # r
    BY <1>4, <1>5, <2>3 DEF ResponsesInv, NoneMet
  <2> QED BY <2>1, <2>2, <2>3
<1> QED BY <1>7, <1>8, <1>9, <1>10, <1>11, <1>12 DEF ResponsesInv

(* What the buttons and boxes send is a value for each of some members.     *)
LEMMA TapsSay ==
    ASSUME NEW m \in Respondents
    PROVE  /\ [x \in {m} |-> TRUE] \in Sayings /\ Saying("read", [x \in {m} |-> TRUE])
           /\ \A status \in RsvpStatus : /\ [x \in {m} |-> status] \in Sayings
                                         /\ Saying("rsvp", [x \in {m} |-> status])
<1>1. ASSUME NEW v \in AllValues
      PROVE  [x \in {m} |-> v] \in Sayings
  <2>1. {m} \in SUBSET Respondents /\ [x \in {m} |-> v] \in [{m} -> AllValues]
    OBVIOUS
  <2> QED BY <2>1 DEF Sayings
<1>2. TRUE \in AllValues /\ RsvpStatus \subseteq AllValues
  BY DEF AllValues
<1> QED BY <1>1, <1>2 DEF Saying, Values

LEMMA BoxesSay ==
    ASSUME NEW touched \in SUBSET Respondents, NEW says \in [touched -> BOOLEAN]
    PROVE  says \in Sayings /\ Saying("presence", says)
<1>1. says \in [touched -> AllValues]
  BY DEF AllValues
<1> QED BY <1>1 DEF Sayings, Saying, Values

LEMMA CheckOK == ASSUME ResponsesInv, NEW r \in Taps, Check(r) PROVE ResponsesInv'
<1> DEFINE old == taps[r]
           tap == [old EXCEPT !.at = "next"]
<1>1. old \in TapRecords /\ TapOK(old) /\ old.at = "sent" /\ UNCHANGED <<event, rows, outages>>
      /\ Pending(r)
  BY DEF Check, Pending, ResponsesInv, ResponsesTypes
<1>2. CASE Fail({r})
  BY <1>1, <1>2, FailOK DEF ResponsesInv, ResponsesTypes
<1>3. CASE Goes(r, tap)
  <2>1. /\ tap \in TapRecords /\ TapOK(tap) /\ tap.at = "next" /\ tap.table = old.table
        /\ tap.says = old.says /\ tap.left = old.left /\ tap.alone = old.alone
    <3> HIDE DEF old
    <3> QED BY <1>1 DEF TapRecords, TapOK, TapPlaces
  <2> HIDE DEF tap
  <2> QED BY <1>1, <1>3, <2>1, GoesOK
<1> QED BY <1>2, <1>3 DEF Check

LEMMA FindOK == ASSUME ResponsesInv, NEW r \in Taps, Find(r) PROVE ResponsesInv'
<1> DEFINE old == taps[r]
<1>1. old \in TapRecords /\ TapOK(old) /\ old.at = "next" /\ UNCHANGED <<event, rows, outages>>
      /\ Pending(r)
  BY DEF Find, Pending, ResponsesInv, ResponsesTypes
<1>2. PICK m \in old.left :
         LET standing == rows[<<old.table, m>>] IN
         IF old.table = "read" /\ standing # NoRow
         THEN Succeeds(r)
         ELSE Goes(r, [old EXCEPT !.at = IF standing = NoRow THEN "insert" ELSE "save",
                                  !.now = m, !.found = standing])
  BY DEF Find
<1> DEFINE k == <<old.table, m>>
           tap == [old EXCEPT !.at = IF rows[k] = NoRow THEN "insert" ELSE "save",
                              !.now = m, !.found = rows[k]]
<1>3. /\ k \in Keys /\ k[1] = old.table /\ m \in Respondents /\ m \in DOMAIN old.says
      /\ old.says[m] \in Values(old.table)
      /\ rows \in [Keys -> AllValues \cup {NoRow}]
  BY <1>1, SaysTyped DEF TapOK, ResponsesInv, ResponsesTypes
<1>4. CASE old.table = "read" /\ rows[k] # NoRow
  <2>1. ~Gone(k)
    BY <1>3, <1>4 DEF Gone
  <2>2. rows[k] \in Values("read") \cup {NoRow}
    BY <1>3, <1>4, <2>1 DEF ResponsesInv, RowsRight
  <2>3. rows[k] = TRUE /\ old.says[m] = TRUE
    BY <1>3, <1>4, <2>2 DEF Values
  <2>4. StandsFor(r, m)
    BY <1>1, <1>3, <2>1, <2>3 DEF StandsFor
  <2>5. old.left \ {m} = {}
    BY <1>1, <1>3, <1>4 DEF TapOK, Saying
  <2> QED BY <1>1, <1>2, <1>4, <2>4, <2>5, SucceedsOK
<1>5. CASE ~(old.table = "read" /\ rows[k] # NoRow)
  <2>1. Goes(r, tap)
    BY <1>2, <1>5
  <2>2. rows[k] \in AllValues \cup {NoRow}
    BY <1>3
  <2>3. /\ tap \in TapRecords /\ TapOK(tap) /\ tap.at = (IF rows[k] = NoRow THEN "insert" ELSE "save")
        /\ tap.table = old.table /\ tap.now = m
        /\ tap.says = old.says /\ tap.left = old.left /\ tap.alone = old.alone
    <3> DEFINE standing == rows[k]
    <3>1. standing \in AllValues \cup {NoRow} /\ ~(old.table = "read" /\ standing # NoRow)
          /\ m \in Respondents /\ m \in old.left
      BY <1>3, <1>5, <2>2
    <3> HIDE DEF old, standing
    <3>2. LET new == [old EXCEPT !.at = IF standing = NoRow THEN "insert" ELSE "save",
                                 !.now = m, !.found = standing]
          IN  /\ new \in TapRecords /\ TapOK(new) /\ new.at = (IF standing = NoRow THEN "insert" ELSE "save")
              /\ new.table = old.table /\ new.now = m
              /\ new.says = old.says /\ new.left = old.left /\ new.alone = old.alone
      BY <1>1, <3>1 DEF TapRecords, TapOK, TapPlaces
    <3> QED BY <3>2 DEF standing
  <2> HIDE DEF tap
  <2>4. tap.at = "save" => rows[<<tap.table, tap.now>>] # NoRow
    BY <2>3
  <2>5. tap.at \notin {"none", "over", "update"}
    BY <2>3
  <2> QED BY <1>1, <2>1, <2>3, <2>4, <2>5, GoesOK
<1> QED BY <1>4, <1>5

(* The entry a request is at. *)
LEMMA EntryTyped ==
    ASSUME ResponsesInv, NEW r \in Taps, taps[r].at \in {"insert", "save", "update"}
    PROVE  /\ taps[r] \in TapRecords /\ TapOK(taps[r]) /\ Pending(r)
           /\ taps[r].now \in taps[r].left /\ Key(r) = <<taps[r].table, taps[r].now>>
           /\ Key(r) \in Keys /\ Key(r)[1] = taps[r].table
           /\ Says(r) \in AllValues /\ Says(r) # NoRow
           /\ rows \in [Keys -> AllValues \cup {NoRow}] /\ outages \in Nat
           /\ Gone(Key(r)) => rows[Key(r)] = NoRow
           /\ taps[r].at \in {"save", "update"} => Gone(Key(r)) \/ rows[Key(r)] # NoRow
<1>1. taps[r] \in TapRecords /\ TapOK(taps[r]) /\ Pending(r)
      /\ rows \in [Keys -> AllValues \cup {NoRow}] /\ outages \in Nat
  BY DEF ResponsesInv, ResponsesTypes, Pending
<1>2. taps[r].now \in taps[r].left /\ taps[r].now \in DOMAIN taps[r].says
  BY <1>1 DEF TapOK
<1>3. /\ Key(r) \in Keys /\ Key(r)[1] = taps[r].table
      /\ Says(r) \in AllValues /\ Says(r) # NoRow
  BY <1>1, <1>2, SaysTyped DEF Key, Says
<1> QED BY <1>1, <1>2, <1>3 DEF ResponsesInv, RowsRight, RowThere, Key

LEMMA InsertOK == ASSUME ResponsesInv, NEW r \in Taps, Insert(r) PROVE ResponsesInv'
<1>1. taps[r].at = "insert" /\ UNCHANGED <<event, outages>>
  BY DEF Insert
<1>2. CASE rows' = [rows EXCEPT ![Key(r)] = Says(r)] /\ Stands(r)
           /\ (taps[r].table = "read" \/ event # "deleted")
  <2>1. ~Gone(Key(r))
    BY <1>1, <1>2, EntryTyped DEF Gone
  <2>2. StandsFor(r, taps[r].now)
    BY <1>1, <1>2, <2>1, EntryTyped DEF StandsFor, Says
  <2> QED BY <1>1, <1>2, <2>2, StandsOK
<1>3. CASE UNCHANGED rows /\ Fail({r})
  BY <1>1, <1>3, EntryTyped, FailOK
<1> QED BY <1>2, <1>3 DEF Insert

LEMMA SaveReloadOK == ASSUME ResponsesInv, NEW r \in Taps, SaveReload(r) PROVE ResponsesInv'
<1>1. taps[r].at = "save" /\ UNCHANGED <<event, rows, outages>>
  BY DEF SaveReload
<1>2. CASE Fail({r})
  BY <1>1, <1>2, EntryTyped, FailOK
<1>3. CASE rows[Key(r)] = Says(r) /\ Stands(r)
  <2>1. StandsFor(r, taps[r].now)
    BY <1>1, <1>3, EntryTyped DEF StandsFor, Says
  <2> QED BY <1>1, <1>3, <2>1, StandsOK
<1>4. CASE rows[Key(r)] # NoRow /\ Goes(r, [taps[r] EXCEPT !.at = "update"])
  <2> DEFINE old == taps[r]
             tap == [old EXCEPT !.at = "update"]
  <2>1. old \in TapRecords /\ TapOK(old) /\ Pending(r) /\ old.at = "save"
        /\ Key(r) = <<old.table, old.now>>
    BY <1>1, EntryTyped
  <2>2. /\ tap \in TapRecords /\ TapOK(tap) /\ tap.at = "update" /\ tap.table = old.table
        /\ tap.now = old.now
        /\ tap.says = old.says /\ tap.left = old.left /\ tap.alone = old.alone
    <3> HIDE DEF old
    <3> QED BY <2>1 DEF TapRecords, TapOK, TapPlaces
  <2>3. Goes(r, tap)
    BY <1>4
  <2> HIDE DEF tap
  <2> QED BY <1>1, <1>4, <2>1, <2>2, <2>3, GoesOK
<1> QED BY <1>2, <1>3, <1>4 DEF SaveReload

LEMMA SaveUpdateOK == ASSUME ResponsesInv, NEW r \in Taps, SaveUpdate(r) PROVE ResponsesInv'
<1>1. taps[r].at = "update" /\ UNCHANGED <<event, outages>> /\ Stands(r)
      /\ rows' = [rows EXCEPT ![Key(r)] = IF rows[Key(r)] = NoRow THEN rows[Key(r)] ELSE Says(r)]
  BY DEF SaveUpdate
<1>2. StandsFor(r, taps[r].now)
  BY <1>1, EntryTyped DEF StandsFor, Says
<1> QED BY <1>1, <1>2, StandsOK

LEMMA CancelEventOK == ASSUME ResponsesInv, CancelEvent PROVE ResponsesInv'
<1>1. event = "planned" /\ event' = "cancelled" /\ UNCHANGED <<rows, taps, told, outages>>
  BY DEF CancelEvent
<1>2. \A k \in Keys : ~Gone(k) /\ ~Gone(k)'
  BY <1>1 DEF Gone
<1>3. \A r \in Taps : /\ Pending(r)' = Pending(r) /\ Doubted(r)' = Doubted(r)
                      /\ About(r)' = About(r) /\ Key(r)' = Key(r) /\ ~Gone(Key(r)) /\ ~Gone(Key(r))'
  BY <1>1 DEF Pending, Doubted, About, Key, Gone
<1>4. ResponsesTypes'
  BY <1>1 DEF ResponsesInv, ResponsesTypes
<1>5. RowThere' /\ RowsRight' /\ AloneRight' /\ NoneMet'
  BY <1>1, <1>2, <1>3 DEF ResponsesInv, RowThere, RowsRight, AloneRight, NoneMet
<1> QED BY <1>1, <1>4, <1>5 DEF ResponsesInv

(* The event goes, and the answers and the attendance with it. *)
LEMMA DeleteEventOK == ASSUME ResponsesInv, DeleteEvent PROVE ResponsesInv'
<1>1. /\ event # "deleted" /\ event' = "deleted" /\ UNCHANGED <<taps, told, outages>>
      /\ rows' = [k \in Keys |-> IF k[1] = "read" THEN rows[k] ELSE NoRow]
  BY DEF DeleteEvent
<1>2. \A k \in Keys : ~Gone(k) /\ (Gone(k)' <=> k[1] # "read")
                      /\ rows'[k] = (IF k[1] = "read" THEN rows[k] ELSE NoRow)
  BY <1>1 DEF Gone
<1>3. \A r \in Taps : /\ Pending(r)' = Pending(r) /\ Doubted(r)' = Doubted(r)
                      /\ About(r)' = About(r) /\ Key(r)' = Key(r)
  BY <1>1 DEF Pending, Doubted, About, Key
<1>4. ResponsesTypes'
  BY <1>1 DEF ResponsesInv, ResponsesTypes
<1>5. RowThere'
  <2>1. \A r \in Taps : taps[r].at \in {"save", "update"} => taps[r].table # "read"
    BY DEF ResponsesInv, TapOK
  <2> QED BY <1>1, <1>3, <2>1 DEF RowThere, Gone, Key
<1>6. RowsRight'
  BY <1>1, <1>2, <1>3 DEF ResponsesInv, RowsRight
<1>7. AloneRight' /\ NoneMet'
  BY <1>1, <1>2, <1>3 DEF ResponsesInv, AloneRight, NoneMet
<1> QED BY <1>1, <1>4, <1>5, <1>6, <1>7 DEF ResponsesInv

LEMMA ResponsesInvariance == ResponsesSpec => []ResponsesInv
<1>1. ASSUME ResponsesInv, [ResponsesNext]_responsesVars
      PROVE  ResponsesInv'
  <2>1. CASE UNCHANGED responsesVars
    BY <1>1, <2>1 DEF ResponsesInv, ResponsesTypes, RowThere, RowsRight, AloneRight, NoneMet,
                      Pending, Doubted, About, Key, Gone, responsesVars
  <2>2. ASSUME NEW r \in Taps, NEW m \in Respondents, TapRead(r, m)
        PROVE  ResponsesInv'
    BY <1>1, <2>2, TapsSay, SendsOK DEF TapRead, Tables
  <2>3. ASSUME NEW r \in Taps, NEW m \in Respondents, NEW status \in RsvpStatus,
               TapRsvp(r, m, status)
        PROVE  ResponsesInv'
    BY <1>1, <2>3, TapsSay, SendsOK DEF TapRsvp, Tables
  <2>4. ASSUME NEW r \in Taps, NEW touched \in (SUBSET Respondents) \ {{}},
               NEW says \in [touched -> BOOLEAN], TapAttendance(r, says)
        PROVE  ResponsesInv'
    BY <1>1, <2>4, BoxesSay, SendsOK DEF TapAttendance, Tables
  <2>5. ASSUME NEW r \in Taps, Check(r) \/ Find(r) \/ Insert(r) \/ SaveReload(r) \/ SaveUpdate(r)
        PROVE  ResponsesInv'
    BY <1>1, <2>5, CheckOK, FindOK, InsertOK, SaveReloadOK, SaveUpdateOK
  <2>6. CASE Outage
    <3>1. {r \in Taps : Pending(r)} \in SUBSET Taps /\ outages' \in Nat
          /\ Fail({r \in Taps : Pending(r)}) /\ UNCHANGED <<event, rows>>
      BY <1>1, <2>6 DEF Outage, ResponsesInv, ResponsesTypes
    <3> QED BY <1>1, <3>1, FailOK
  <2> QED BY <1>1, <2>1, <2>2, <2>3, <2>4, <2>5, <2>6, CancelEventOK, DeleteEventOK
          DEF ResponsesNext
<1> QED BY <1>1, ResponsesStart, PTL DEF ResponsesSpec

(* What a member was told was recorded is what the row holds when nothing   *)
(* is under way, and no answer outlives its event: the row that rsvp,       *)
(* markAttendance or markRead looked up and saved is the one they told of,  *)
(* however many requests overlap and wherever a restart ends them.          *)
THEOREM AnswersKept == ResponsesSpec => []AnswersStand
<1>1. ASSUME ResponsesInv PROVE AnswersStand
  <2> SUFFICES ASSUME NEW k \in Keys
               PROVE  IF Gone(k) THEN rows[k] = NoRow
                      ELSE ~(\E r \in Taps : Pending(r) /\ k \in About(r)) => rows[k] \in told[k]
    BY DEF AnswersStand, Gone
  <2>1. \A r \in Taps : Doubted(r) \subseteq About(r)
    BY DEF Doubted, About
  <2> QED BY <1>1, <2>1 DEF ResponsesInv, RowsRight
<1> QED BY <1>1, ResponsesInvariance, PTL

(* A request is at a row only while it saves it. *)
NowInv == \A r \in Taps :
    taps[r].at \in {"insert", "save", "update"} \/ taps[r].now = NoRow

LEMMA NowStep ==
    ASSUME ResponsesInv, NowInv, [ResponsesNext]_responsesVars
    PROVE  NowInv'
<1>0. taps \in [Taps -> TapRecords]
  BY DEF ResponsesInv, ResponsesTypes
<1>1. Over.at = "over" /\ Over.now = NoRow
  BY DEF Over, NoTap
<1>2. ASSUME NEW r \in Taps, NEW tap, taps' = [taps EXCEPT ![r] = tap],
             tap.at \in {"insert", "save", "update"} \/ tap.now = NoRow
      PROVE  NowInv'
  BY <1>0, <1>2 DEF NowInv
<1>3. ASSUME NEW failed \in SUBSET Taps, Fail(failed) PROVE NowInv'
  BY <1>1, <1>3 DEF Fail, NowInv
<1>4. ASSUME NEW r \in Taps, Succeeds(r) PROVE NowInv'
  BY <1>1, <1>2, <1>4 DEF Succeeds
<1>5. ASSUME NEW r \in Taps, Stands(r) PROVE NowInv'
  <2> DEFINE old == taps[r]
             left == old.left \ {old.now}
             new == [old EXCEPT !.at = "next", !.left = left, !.now = NoRow, !.found = NoRow]
  <2>1. Succeeds(r) \/ taps' = [taps EXCEPT ![r] = new]
    BY <1>5 DEF Stands, Goes
  <2>2. old \in TapRecords
    BY <1>0
  <2> HIDE DEF old, left
  <2>3. new.now = NoRow
    BY <2>2 DEF TapRecords
  <2> HIDE DEF new
  <2> QED BY <1>2, <1>4, <2>1, <2>3
<1>6. ASSUME NEW r \in Taps, NEW table, NEW says, Sends(r, table, says) PROVE NowInv'
  <2> DEFINE new(alone) == [NoTap EXCEPT !.at = "sent", !.table = table, !.says = says,
                                         !.left = DOMAIN says, !.alone = alone]
  <2>1. \A alone : new(alone).now = NoRow
    BY DEF NoTap
  <2>2. \A q \in Taps : /\ [taps[q] EXCEPT !.alone = FALSE].at = taps[q].at
                        /\ [taps[q] EXCEPT !.alone = FALSE].now = taps[q].now
    <3> SUFFICES ASSUME NEW tap \in TapRecords
                 PROVE  /\ [tap EXCEPT !.alone = FALSE].at = tap.at
                        /\ [tap EXCEPT !.alone = FALSE].now = tap.now
      BY <1>0
    <3> QED BY DEF TapRecords
  <2>3. \E alone : taps'[r] = new(alone)
    BY <1>6 DEF Sends
  <2>4. \A q \in Taps \ {r} : taps'[q] = taps[q] \/ taps'[q] = [taps[q] EXCEPT !.alone = FALSE]
    BY <1>6 DEF Sends
  <2> HIDE DEF new
  <2>5. taps'[r].now = NoRow
    BY <2>1, <2>3
  <2>6. ASSUME NEW q \in Taps \ {r}
        PROVE  taps'[q].at = taps[q].at /\ taps'[q].now = taps[q].now
    <3>1. CASE taps'[q] = taps[q]
      BY <3>1
    <3>2. CASE taps'[q] = [taps[q] EXCEPT !.alone = FALSE]
      BY <2>2, <3>2
    <3> QED BY <2>4, <3>1, <3>2
  <2> QED BY <2>5, <2>6 DEF NowInv
<1>7. ASSUME NEW r \in Taps, Check(r) \/ SaveReload(r) PROVE NowInv'
  <2> DEFINE old == taps[r]
  <2>1. old \in TapRecords /\ (old.at = "sent" => old.now = NoRow)
    BY <1>0 DEF NowInv
  <2>2. \/ Fail({r}) \/ Stands(r)
        \/ old.at = "sent" /\ taps' = [taps EXCEPT ![r] = [old EXCEPT !.at = "next"]]
        \/ taps' = [taps EXCEPT ![r] = [old EXCEPT !.at = "update"]]
    BY <1>7 DEF Check, SaveReload, Goes
  <2> HIDE DEF old
  <2>3. [old EXCEPT !.at = "next"].now = old.now /\ [old EXCEPT !.at = "update"].at = "update"
    BY <2>1 DEF TapRecords
  <2> QED BY <1>2, <1>3, <1>5, <2>1, <2>2, <2>3
<1>8. ASSUME NEW r \in Taps, Find(r) PROVE NowInv'
  <2> DEFINE old == taps[r]
             new(place, m, standing) == [old EXCEPT !.at = place, !.now = m, !.found = standing]
  <2>1. old \in TapRecords
    BY <1>0
  <2>2. \/ Succeeds(r)
        \/ \E m, standing : \/ taps' = [taps EXCEPT ![r] = new("insert", m, standing)]
                            \/ taps' = [taps EXCEPT ![r] = new("save", m, standing)]
    BY <1>8 DEF Find, Goes
  <2> HIDE DEF old
  <2>3. \A m, standing : /\ new("insert", m, standing).at = "insert"
                         /\ new("save", m, standing).at = "save"
    BY <2>1 DEF TapRecords
  <2> HIDE DEF new
  <2> QED BY <1>2, <1>4, <2>2, <2>3
<1>9. ASSUME NEW r \in Taps, Insert(r) \/ SaveUpdate(r) PROVE NowInv'
  BY <1>3, <1>5, <1>9 DEF Insert, SaveUpdate
<1>10. CASE Outage
  <2>1. {r \in Taps : Pending(r)} \in SUBSET Taps
    OBVIOUS
  <2> QED BY <1>3, <1>10, <2>1 DEF Outage
<1>11. CASE UNCHANGED taps
  BY <1>11 DEF NowInv
<1> QED BY <1>6, <1>7, <1>8, <1>9, <1>10, <1>11
        DEF ResponsesNext, TapRead, TapRsvp, TapAttendance, CancelEvent, DeleteEvent, responsesVars

(* Every variable of the answers keeps its type, and a request is at a row  *)
(* of its own list or at none.                                              *)
THEOREM ResponsesTypeCorrect == ResponsesSpec => []ResponsesTypeOK
<1>1. ResponsesInit => NowInv
  BY DEF ResponsesInit, NowInv, NoTap
<1>2. ResponsesInv /\ NowInv => ResponsesTypeOK
  BY DEF ResponsesInv, ResponsesTypes, TapRecords, TapPlaces, TapOK, Saying, NowInv, ResponsesTypeOK
<1> QED BY <1>1, <1>2, NowStep, ResponsesInvariance, PTL DEF ResponsesSpec

-----------------------------------------------------------------------------
(* The daily checks *)

Busy == {"check", "send", "holders", "mark"}
DueDates == Nat \cup {NoDeadline, Removed}
Finds == [thing : Things, due : Nat]
JobRecords ==
    [at : {"idle", "next"} \cup Busy, ran : BOOLEAN, left : SUBSET Societies,
     society : Societies \cup {Removed}, check : 1..5,
     terms : {<< >>} \cup [Things -> DueDates], found : SUBSET Finds, owed : SUBSET Nat,
     holders : SUBSET Things, failed : SUBSET (Societies \cup {Removed}), touched : SUBSET Things,
     before : SUBSET Things]
SaveRecords ==
    [at : {"none", "loaded", "update", "insert"}, thing : Things \cup {Removed}, due : Nat,
     flag : BOOLEAN, marks : BOOLEAN]
NoticeRecords == [thing : Things, due : Nat, on : Nat, to : {"office", "holder"}]

DeadlinesTypes ==
    /\ today \in Nat /\ dueOn \in [Things -> DueDates] /\ reminded \subseteq Things
    /\ job \in JobRecords /\ saving \in SaveRecords
    /\ notices \subseteq NoticeRecords /\ misled \subseteq Things

(* What a check is at: things of its kind, on announced days. *)
JobOK ==
    /\ job.at \in {"send", "holders"} => job.owed # {} /\ job.owed \subseteq Announced[Checked]
    /\ job.at \in {"send", "holders", "mark"} => \A f \in job.found : KindOf[f.thing] = Checked
    /\ job.at = "holders" => Checked # "training"
    /\ job.at = "mark" => Checked = "training"

SaveOK ==
    /\ saving.at # "none" => saving.thing \in Trainings
    /\ saving.at = "insert" => saving.marks

OnTheDay == \A n \in notices :
    n.thing \notin Trainings => n.due >= n.on /\ n.due - n.on \in Announced[KindOf[n.thing]]

OnOneDay == \A n, o \in notices :
    (n.thing \in Trainings /\ o.thing = n.thing /\ o.due = n.due /\ o.on # n.on)
        => n.thing \in misled

(* A training that was announced is marked, or about to be, or gone. *)
MarkFollows == \A n \in notices :
    (n.thing \in Trainings /\ n.thing \notin misled) =>
        \/ n.thing \in reminded \/ dueOn[n.thing] = Removed
        \/ job.at = "mark" /\ n.on = today /\ n.thing \in {f.thing : f \in job.found}

(* A training about to be announced was not announced before. *)
FoundOnce == (job.at = "send" /\ Checked = "training") =>
    \A n \in notices : n.thing \in {f.thing : f \in job.found} => n.thing \in misled

DeadlinesInv ==
    /\ DeadlinesTypes /\ JobOK /\ SaveOK
    /\ OnTheDay /\ OnOneDay /\ MarkFollows /\ FoundOnce

LEMMA LatestIs ==
    ASSUME NEW kind \in Kinds, NEW days \in SUBSET Announced[kind], days # {}
    PROVE  Latest(days) \in days /\ Latest(days) \in Nat /\ \A k \in days : k <= Latest(days)
BY DeadlinesAssumption DEF Latest

LEMMA ChecksAre ==
    /\ \A i \in 1..5 : Checks[i] \in Kinds
    /\ \A i, j \in 1..5 : Checks[i] = Checks[j] => i = j
    /\ \A i \in 1..5 : Checks[i] = "training" <=> i = 4
    /\ "training" \in Kinds
<1>1. /\ Checks[1] = "vehicle" /\ Checks[2] = "inspection" /\ Checks[3] = "expiry"
      /\ Checks[4] = "training" /\ Checks[5] = "subscription"
  BY DEF Checks
<1>2. \A i \in 1..5 : i = 1 \/ i = 2 \/ i = 3 \/ i = 4 \/ i = 5
  OBVIOUS
<1>3. 4 \in 1..5
  OBVIOUS
<1>4. \A i \in 1..5 : Checks[i] \in Kinds
  BY DEF Kinds
<1> HIDE DEF Checks
<1> QED BY <1>1, <1>2, <1>3, <1>4

LEMMA NoJobTyped == NoJob \in JobRecords /\ NoJob.at = "idle" /\ NoJob.touched = {}
BY DEF NoJob, JobRecords, Busy

LEMMA NoSaveTyped == NoSave \in SaveRecords /\ NoSave.at = "none"
BY DEF NoSave, SaveRecords

LEMMA DeadlinesStart == DeadlinesInit => DeadlinesInv
<1> SUFFICES ASSUME DeadlinesInit PROVE DeadlinesInv
  OBVIOUS
<1>1. DeadlinesTypes
  BY DeadlinesAssumption, NoJobTyped, NoSaveTyped DEF DeadlinesInit, DeadlinesTypes, DueDates
<1> QED BY <1>1, NoJobTyped, NoSaveTyped
        DEF DeadlinesInit, DeadlinesInv, JobOK, SaveOK, OnTheDay, OnOneDay, MarkFollows, FoundOnce

(* Where a check goes on when it is through with a kind. *)
LEMMA DoneWithIs ==
    ASSUME job \in JobRecords
    PROVE  /\ DoneWith \in JobRecords
           /\ DoneWith.ran = job.ran /\ DoneWith.left = job.left
           /\ DoneWith.society = job.society /\ DoneWith.terms = job.terms
           /\ DoneWith.failed = job.failed /\ DoneWith.touched = job.touched
           /\ DoneWith.before = job.before
           /\ IF job.check = 5 THEN DoneWith.at = "next"
              ELSE DoneWith.at = "check" /\ DoneWith.check = job.check + 1
<1> DEFINE old == job
<1>1. old \in JobRecords
  OBVIOUS
<1>2. DoneWith = IF old.check = 5 THEN [old EXCEPT !.at = "next"]
                 ELSE [old EXCEPT !.at = "check", !.check = @ + 1]
  BY DEF DoneWith
<1> HIDE DEF old
<1>3. LET new == [old EXCEPT !.at = "next"] IN
      /\ new \in JobRecords /\ new.ran = old.ran /\ new.left = old.left
      /\ new.society = old.society /\ new.terms = old.terms
      /\ new.failed = old.failed /\ new.touched = old.touched
      /\ new.before = old.before /\ new.at = "next"
  BY <1>1 DEF JobRecords
<1>4. old.check # 5 =>
      LET new == [old EXCEPT !.at = "check", !.check = @ + 1] IN
      /\ new \in JobRecords /\ new.ran = old.ran /\ new.left = old.left
      /\ new.society = old.society /\ new.terms = old.terms
      /\ new.failed = old.failed /\ new.touched = old.touched
      /\ new.before = old.before /\ new.at = "check" /\ new.check = old.check + 1
  <2>1. old.check \in 1..5 /\ (old.check # 5 => old.check + 1 \in 1..5)
    BY <1>1 DEF JobRecords
  <2> QED BY <1>1, <2>1 DEF JobRecords, Busy
<1> QED BY <1>2, <1>3, <1>4 DEF old

(* The next message of a kind, if one is owed. *)
LEMMA NextMessageIs ==
    ASSUME job \in JobRecords
    PROVE  LET last == Latest(job.owed) IN
           /\ NextMessage \in JobRecords
           /\ NextMessage.ran = job.ran /\ NextMessage.left = job.left
           /\ NextMessage.society = job.society /\ NextMessage.terms = job.terms
           /\ NextMessage.failed = job.failed /\ NextMessage.touched = job.touched
           /\ NextMessage.before = job.before
           /\ IF job.owed = {last} THEN NextMessage = DoneWith
              ELSE /\ NextMessage.at = "send" /\ NextMessage.check = job.check
                   /\ NextMessage.found = job.found /\ NextMessage.owed = job.owed \ {last}
<1> DEFINE old == job
           last == Latest(old.owed)
           new == [old EXCEPT !.at = "send", !.owed = @ \ {last}, !.holders = {}]
<1>1. old \in JobRecords
  OBVIOUS
<1>2. NextMessage = IF old.owed = {last} THEN DoneWith ELSE new
  BY DEF NextMessage
<1> HIDE DEF old, last
<1>3. /\ new \in JobRecords /\ new.ran = old.ran /\ new.left = old.left
      /\ new.society = old.society /\ new.terms = old.terms
      /\ new.failed = old.failed /\ new.touched = old.touched /\ new.before = old.before
      /\ new.at = "send" /\ new.check = old.check
      /\ new.found = old.found /\ new.owed = old.owed \ {last}
  BY <1>1 DEF JobRecords, Busy
<1> HIDE DEF new
<1>4. CASE old.owed = {last}
  BY <1>2, <1>4, DoneWithIs DEF old, last
<1>5. CASE old.owed # {last}
  BY <1>2, <1>3, <1>5 DEF old, last
<1> QED BY <1>4, <1>5

LEMMA FoundIs ==
    ASSUME DeadlinesTypes
    PROVE  /\ Found \subseteq Finds
           /\ \A f \in Found : KindOf[f.thing] = Checked
           /\ Checked = "training" =>
                 \A f \in Found : f.thing \notin reminded /\ dueOn[f.thing] \in Nat
<1> DEFINE dates == IF Checked = "subscription" THEN job.terms ELSE dueOn
           near == {t \in Of(job.society, Checked) :
                      dates[t] \in Nat /\ dates[t] <= today + Latest(Announced[Checked])}
<1>1. Found = {[thing |-> t, due |-> dates[t]] :
                  t \in IF Checked = "training" THEN near \ reminded ELSE near}
  BY DEF Found
<1>2. \A t \in near : t \in Things /\ KindOf[t] = Checked /\ dates[t] \in Nat
  BY DEF Of
<1>3. Checked = "training" => dates = dueOn
  OBVIOUS
<1> HIDE DEF dates, near
<1> QED BY <1>1, <1>2, <1>3 DEF Finds

(* What is announced at a time. *)
LEMMA ThisTimeIs ==
    ASSUME DeadlinesInv, job.at \in {"send", "holders"}
    PROVE  /\ ThisTime \subseteq job.found /\ job.found \subseteq Finds
           /\ \A f \in ThisTime : KindOf[f.thing] = Checked
           /\ Checked \in Kinds /\ Latest(job.owed) \in job.owed /\ Latest(job.owed) \in Nat
           /\ Latest(job.owed) \in Announced[Checked]
           /\ \A k \in job.owed : k <= Latest(job.owed)
           /\ Checked # "training" => \A f \in ThisTime : f.due = today + Latest(job.owed)
<1>1. job \in JobRecords /\ job.owed # {} /\ job.owed \subseteq Announced[Checked]
      /\ \A f \in job.found : KindOf[f.thing] = Checked
  BY DEF DeadlinesInv, DeadlinesTypes, JobOK
<1>2. job.check \in 1..5 /\ job.found \subseteq Finds
  BY <1>1 DEF JobRecords
<1>3. Checked \in Kinds
  BY <1>2, ChecksAre DEF Checked
<1> QED BY <1>1, <1>2, <1>3, LatestIs DEF ThisTime

(* New notices keep to the days, and to one day for a training. *)
LEMMA AnnounceOK ==
    ASSUME DeadlinesInv, job.at \in {"send", "holders"}, NEW items \in SUBSET ThisTime,
           NEW to \in {"office", "holder"}, Announce(items, to), misled \subseteq misled',
           job.at = "holders" => Checked # "training"
    PROVE  /\ notices' \subseteq NoticeRecords
           /\ OnTheDay' /\ OnOneDay'
           /\ \A n \in notices' \ notices :
                 n.on = today /\ n.thing \in {f.thing : f \in job.found}
                 /\ (n.thing \in Trainings <=> Checked = "training")
<1>1. notices' = notices \cup {[thing |-> f.thing, due |-> f.due, on |-> today, to |-> to] :
                                 f \in items}
  BY DEF Announce
<1>2. /\ today \in Nat /\ notices \subseteq NoticeRecords
  BY DEF DeadlinesInv, DeadlinesTypes
<1>3. ASSUME NEW f \in items
      PROVE  /\ f \in job.found /\ f.thing \in Things /\ f.due \in Nat
             /\ KindOf[f.thing] = Checked
             /\ (f.thing \in Trainings <=> Checked = "training")
             /\ Checked # "training" =>
                   f.due >= today /\ f.due - today \in Announced[KindOf[f.thing]]
  <2>1. f \in job.found /\ f.thing \in Things /\ f.due \in Nat /\ KindOf[f.thing] = Checked
    BY ThisTimeIs DEF Finds
  <2>2. f.thing \in Trainings <=> Checked = "training"
    BY <2>1 DEF Trainings
  <2>3. Checked # "training" => f.due >= today /\ f.due - today \in Announced[KindOf[f.thing]]
    <3> SUFFICES ASSUME Checked # "training"
                 PROVE  f.due >= today /\ f.due - today = Latest(job.owed)
      BY <2>1, ThisTimeIs
    <3>1. f.due = today + Latest(job.owed) /\ Latest(job.owed) \in Nat
      BY ThisTimeIs
    <3> QED BY <1>2, <3>1
  <2> QED BY <2>1, <2>2, <2>3
<1>4. ASSUME NEW n \in notices', n \notin notices
      PROVE  \E f \in items : n = [thing |-> f.thing, due |-> f.due, on |-> today, to |-> to]
  BY <1>1, <1>4
<1>5. notices' \subseteq NoticeRecords
  BY <1>1, <1>2, <1>3 DEF NoticeRecords
<1>6. OnTheDay'
  BY <1>1, <1>3 DEF DeadlinesInv, OnTheDay
<1>7. \A n \in notices' \ notices :
         n.on = today /\ n.thing \in {f.thing : f \in job.found}
         /\ (n.thing \in Trainings <=> Checked = "training")
  BY <1>3, <1>4
<1>8. OnOneDay'
  <2> SUFFICES ASSUME NEW n \in notices', NEW o \in notices', n.thing \in Trainings,
                      o.thing = n.thing, o.due = n.due, o.on # n.on
               PROVE  n.thing \in misled'
    BY DEF OnOneDay
  <2>1. CASE n \in notices /\ o \in notices
    BY <2>1 DEF DeadlinesInv, OnOneDay
  <2>2. CASE n \notin notices /\ o \in notices
    BY <1>7, <2>2 DEF DeadlinesInv, FoundOnce
  <2>3. CASE n \in notices /\ o \notin notices
    BY <1>7, <2>3 DEF DeadlinesInv, FoundOnce
  <2>4. CASE n \notin notices /\ o \notin notices
    BY <1>7, <2>4
  <2> QED BY <2>1, <2>2, <2>3, <2>4
<1> QED BY <1>5, <1>6, <1>7, <1>8

-----------------------------------------------------------------------------
(* The run is between two things. *)
LEMMA JobMovesOK ==
    ASSUME DeadlinesInv, job.at # "mark", job' \in JobRecords,
           job'.at \in {"idle", "next", "check"}, today' \in Nat,
           UNCHANGED <<dueOn, reminded, saving, notices, misled>>
    PROVE  DeadlinesInv'
BY DEF DeadlinesInv, DeadlinesTypes, JobOK, SaveOK, OnTheDay, OnOneDay, MarkFollows, FoundOnce

LEMMA RunDailyChecksOK == ASSUME DeadlinesInv, RunDailyChecks PROVE DeadlinesInv'
<1> DEFINE any == NoJob
           new == [any EXCEPT !.at = "next", !.ran = TRUE, !.left = Societies,
                              !.terms = dueOn, !.before = reminded]
<1>1. /\ any \in JobRecords /\ dueOn \in [Things -> DueDates] /\ reminded \subseteq Things
      /\ today \in Nat /\ job' = new
  BY NoJobTyped DEF RunDailyChecks, DeadlinesInv, DeadlinesTypes
<1>2. new \in JobRecords /\ new.at = "next"
  <2> HIDE DEF any
  <2> QED BY <1>1 DEF JobRecords
<1> HIDE DEF new
<1> QED BY <1>1, <1>2, JobMovesOK DEF RunDailyChecks

LEMMA NextSocietyIs ==
    ASSUME DeadlinesInv, NextSociety
    PROVE  /\ job' \in JobRecords
           /\ \/ job.left = {} /\ job'.at = "idle"
              \/ \E s \in job.left :
                    /\ job'.at = "check" /\ job'.check = 1 /\ job'.society = s
                    /\ job'.left = job.left \ {s} /\ job'.terms = job.terms
                    /\ job'.failed = job.failed /\ job'.touched = job.touched
                    /\ job'.before = job.before
<1> DEFINE old == job
           any == NoJob
           idle == [any EXCEPT !.ran = TRUE]
           new(s) == [old EXCEPT !.at = "check", !.check = 1, !.society = s, !.left = @ \ {s}]
<1>1. old \in JobRecords /\ any \in JobRecords /\ any.at = "idle"
  BY NoJobTyped DEF DeadlinesInv, DeadlinesTypes
<1>2. IF old.left = {} THEN job' = idle ELSE \E s \in old.left : job' = new(s)
  BY DEF NextSociety
<1>3. idle \in JobRecords /\ idle.at = "idle"
  <2> HIDE DEF any
  <2> QED BY <1>1 DEF JobRecords
<1>4. ASSUME NEW s \in old.left
      PROVE  /\ new(s) \in JobRecords /\ new(s).at = "check" /\ new(s).check = 1
             /\ new(s).society = s
             /\ new(s).left = old.left \ {s} /\ new(s).terms = old.terms
             /\ new(s).failed = old.failed /\ new(s).touched = old.touched
             /\ new(s).before = old.before
  <2>1. /\ s \in Societies \cup {Removed} /\ 1 \in 1..5 /\ "check" \in Busy
        /\ old.left \ {s} \in SUBSET Societies
    BY <1>1 DEF JobRecords, Busy
  <2> HIDE DEF old
  <2> QED BY <1>1, <2>1 DEF JobRecords
<1> HIDE DEF idle, new
<1> QED BY <1>2, <1>3, <1>4 DEF old

LEMMA NextSocietyOK == ASSUME DeadlinesInv, NextSociety PROVE DeadlinesInv'
<1>1. job.at = "next" /\ UNCHANGED <<today, dueOn, reminded, saving, notices, misled>>
  BY DEF NextSociety
<1>2. today \in Nat
  BY DEF DeadlinesInv, DeadlinesTypes
<1>3. job' \in JobRecords /\ job'.at \in {"idle", "check"}
  BY NextSocietyIs
<1> QED BY <1>1, <1>2, <1>3, JobMovesOK

LEMMA FindDueIs ==
    ASSUME DeadlinesInv, FindDue
    PROVE  /\ Owed(Found) \subseteq Announced[Checked] /\ job.check \in 1..5 /\ Checked \in Kinds
           /\ \/ Owed(Found) = {} /\ job' = DoneWith
              \/ /\ Owed(Found) # {} /\ job' \in JobRecords
                 /\ job'.at = "send" /\ job'.check = job.check
                 /\ job'.found = Found /\ job'.owed = Owed(Found)
                 /\ job'.society = job.society /\ job'.left = job.left
                 /\ job'.terms = job.terms /\ job'.failed = job.failed
                 /\ job'.touched = job.touched /\ job'.before = job.before
<1> DEFINE old == job
           found == Found
           owed == Owed(found)
           new == [old EXCEPT !.at = "send", !.found = found, !.owed = owed]
<1>1. old \in JobRecords /\ found \subseteq Finds
  BY FoundIs DEF DeadlinesInv, DeadlinesTypes
<1>2. owed \subseteq Announced[Checked]
  BY DEF Owed
<1>3. old.check \in 1..5 /\ Checked \in Kinds
  BY <1>1, ChecksAre DEF JobRecords, Checked
<1>4. owed \subseteq Nat
  BY <1>2, <1>3, DeadlinesAssumption
<1>5. job' = IF owed = {} THEN DoneWith ELSE new
  BY DEF FindDue
<1> HIDE DEF old, found, owed
<1>6. /\ new \in JobRecords
      /\ new.at = "send" /\ new.check = old.check
      /\ new.found = found /\ new.owed = owed
      /\ new.society = old.society /\ new.left = old.left
      /\ new.terms = old.terms /\ new.failed = old.failed
      /\ new.touched = old.touched /\ new.before = old.before
  BY <1>1, <1>4 DEF JobRecords, Busy
<1> HIDE DEF new
<1> QED BY <1>2, <1>3, <1>5, <1>6 DEF old, found, owed

LEMMA FindDueOK == ASSUME DeadlinesInv, FindDue PROVE DeadlinesInv'
<1>1. /\ job.at = "check" /\ UNCHANGED <<today, dueOn, reminded, saving, notices, misled>>
      /\ today \in Nat /\ job \in JobRecords
  BY DEF FindDue, DeadlinesInv, DeadlinesTypes
<1>2. CASE job' = DoneWith
  <2>1. job' \in JobRecords /\ job'.at \in {"next", "check"}
    BY <1>1, <1>2, DoneWithIs
  <2> QED BY <1>1, <2>1, JobMovesOK
<1>3. CASE /\ Owed(Found) # {} /\ job' \in JobRecords
           /\ job'.at = "send" /\ job'.check = job.check
           /\ job'.found = Found /\ job'.owed = Owed(Found)
  <2>1. Checked' = Checked /\ Owed(Found) \subseteq Announced[Checked]
    BY <1>3, FindDueIs DEF Checked
  <2>2. /\ \A f \in Found : KindOf[f.thing] = Checked
        /\ Checked = "training" =>
              \A f \in Found : f.thing \notin reminded /\ dueOn[f.thing] \in Nat
    BY FoundIs DEF DeadlinesInv
  <2>3. DeadlinesTypes'
    BY <1>1, <1>3 DEF DeadlinesInv, DeadlinesTypes
  <2>4. JobOK'
    BY <1>3, <2>1, <2>2 DEF JobOK
  <2>5. FoundOnce'
    <3> SUFFICES ASSUME Checked = "training", NEW n \in notices, NEW f \in Found,
                        n.thing = f.thing
                 PROVE  n.thing \in misled
      BY <1>1, <1>3, <2>1 DEF FoundOnce
    <3>1. f \in Finds /\ n.thing \in Trainings
      BY <2>2, FoundIs DEF DeadlinesInv, Finds, Trainings
    <3>2. n.thing \notin reminded /\ dueOn[n.thing] # Removed
      BY <2>2, DeadlinesAssumption
    <3> QED BY <1>1, <3>1, <3>2 DEF DeadlinesInv, MarkFollows
  <2> QED BY <1>1, <2>3, <2>4, <2>5
          DEF DeadlinesInv, SaveOK, OnTheDay, OnOneDay, MarkFollows
<1> QED BY <1>2, <1>3, FindDueIs

(* The office is told, and then those who hold a piece. *)
TellsOffice == {f.thing : f \in ThisTime} \cap Held

LEMMA TellOfficeIs ==
    ASSUME DeadlinesInv, TellOffice
    PROVE  /\ job.at = "send" /\ Announce(ThisTime, "office") /\ job' \in JobRecords
           /\ job'.society = job.society /\ job'.left = job.left
           /\ job'.terms = job.terms /\ job'.failed = job.failed
           /\ job'.touched = job.touched /\ job'.before = job.before
           /\ \/ /\ Checked = "training" /\ job'.at = "mark" /\ job'.check = job.check
                 /\ job'.found = job.found
              \/ /\ Checked # "training" /\ TellsOffice # {} /\ job'.at = "holders"
                 /\ job'.check = job.check /\ job'.found = job.found /\ job'.owed = job.owed
                 /\ job'.holders = TellsOffice
              \/ Checked # "training" /\ TellsOffice = {} /\ job' = NextMessage
<1> DEFINE old == job
           holders == TellsOffice
           marks == [old EXCEPT !.at = "mark"]
           tells == [old EXCEPT !.at = "holders", !.holders = holders]
<1>1. old \in JobRecords /\ holders \subseteq Things /\ job.at = "send"
      /\ Announce(ThisTime, "office")
  BY DeadlinesAssumption DEF DeadlinesInv, DeadlinesTypes, TellsOffice, TellOffice
<1>2. job' = CASE Checked = "training" -> marks
               [] holders # {} -> tells
               [] OTHER -> NextMessage
  BY DEF TellOffice, TellsOffice
<1>2a. Checked = "training" => holders = {}
  BY <1>1, ThisTimeIs, DeadlinesAssumption DEF TellsOffice
<1> HIDE DEF old, holders
<1>3. /\ marks \in JobRecords /\ marks.at = "mark" /\ marks.check = old.check
      /\ marks.found = old.found
      /\ marks.society = old.society /\ marks.left = old.left
      /\ marks.terms = old.terms /\ marks.failed = old.failed
      /\ marks.touched = old.touched /\ marks.before = old.before
  BY <1>1 DEF JobRecords, Busy
<1>4. /\ tells \in JobRecords /\ tells.at = "holders" /\ tells.check = old.check
      /\ tells.found = old.found /\ tells.owed = old.owed /\ tells.holders = holders
      /\ tells.society = old.society /\ tells.left = old.left
      /\ tells.terms = old.terms /\ tells.failed = old.failed
      /\ tells.touched = old.touched /\ tells.before = old.before
  BY <1>1 DEF JobRecords, Busy
<1> HIDE DEF marks, tells
<1>5. CASE Checked = "training"
  <2>1. job' = marks
    BY <1>2, <1>2a, <1>5
  <2> QED BY <1>1, <1>3, <1>5, <2>1 DEF old
<1>6. CASE Checked # "training" /\ holders # {}
  <2>1. job' = tells
    BY <1>2, <1>6
  <2> QED BY <1>1, <1>4, <1>6, <2>1 DEF old, holders
<1>7. CASE Checked # "training" /\ holders = {}
  <2>1. job' = NextMessage
    BY <1>2, <1>7
  <2> QED BY <1>1, <1>7, <2>1, NextMessageIs DEF old, holders
<1> QED BY <1>5, <1>6, <1>7

(* A kind is through with one message: the next one, or the next kind. *)
LEMMA NextMessageOK ==
    ASSUME DeadlinesInv, job.at \in {"send", "holders"}, Checked # "training",
           job' = NextMessage, NEW items \in SUBSET ThisTime, NEW to \in {"office", "holder"},
           Announce(items, to), UNCHANGED <<today, dueOn, reminded, saving, misled>>
    PROVE  DeadlinesInv'
<1>1. job \in JobRecords /\ job.owed # {} /\ job.owed \subseteq Announced[Checked]
      /\ \A f \in job.found : KindOf[f.thing] = Checked
  BY DEF DeadlinesInv, DeadlinesTypes, JobOK
<1>2. job' \in JobRecords
  BY <1>1, NextMessageIs
<1>3. /\ notices' \subseteq NoticeRecords
      /\ OnTheDay' /\ OnOneDay'
      /\ \A n \in notices' \ notices : n.thing \notin Trainings
  BY AnnounceOK
<1>4. JobOK' /\ FoundOnce'
  <2>1. CASE job.owed = {Latest(job.owed)}
    <3>1. job'.at \in {"next", "check"}
      BY <1>1, <2>1, NextMessageIs, DoneWithIs
    <3> QED BY <3>1 DEF JobOK, FoundOnce
  <2>2. CASE job.owed # {Latest(job.owed)}
    <3>1. /\ job'.at = "send" /\ job'.found = job.found
          /\ job'.owed = job.owed \ {Latest(job.owed)} /\ Checked' = Checked
      BY <1>1, <2>2, NextMessageIs DEF Checked
    <3>2. job'.owed # {}
      BY <1>1, <2>2, <3>1
    <3> QED BY <1>1, <3>1, <3>2 DEF JobOK, FoundOnce
  <2> QED BY <2>1, <2>2
<1>5. DeadlinesTypes'
  BY <1>2, <1>3 DEF DeadlinesInv, DeadlinesTypes
<1>6. MarkFollows'
  BY <1>3 DEF DeadlinesInv, MarkFollows
<1> QED BY <1>3, <1>4, <1>5, <1>6 DEF DeadlinesInv, SaveOK

LEMMA TellOfficeOK == ASSUME DeadlinesInv, TellOffice PROVE DeadlinesInv'
<1>1. job.at = "send" /\ UNCHANGED <<today, dueOn, reminded, saving, misled>>
      /\ Announce(ThisTime, "office")
  BY DEF TellOffice
<1>2. CASE Checked # "training" /\ job' = NextMessage
  BY <1>1, <1>2, NextMessageOK
<1>3. CASE ~(Checked # "training" /\ job' = NextMessage)
  <2>1. /\ job' \in JobRecords /\ job'.check = job.check /\ job'.found = job.found
        /\ \/ Checked = "training" /\ job'.at = "mark"
           \/ Checked # "training" /\ job'.at = "holders" /\ job'.owed = job.owed
        /\ Checked' = Checked
    BY <1>3, TellOfficeIs DEF Checked
  <2>2. /\ notices' \subseteq NoticeRecords
        /\ OnTheDay' /\ OnOneDay'
        /\ \A n \in notices' \ notices :
              n.on = today /\ n.thing \in {f.thing : f \in job.found}
              /\ (n.thing \in Trainings <=> Checked = "training")
    BY <1>1, AnnounceOK
  <2>3. DeadlinesTypes'
    BY <1>1, <2>1, <2>2 DEF DeadlinesInv, DeadlinesTypes
  <2>4. JobOK'
    BY <1>1, <2>1 DEF DeadlinesInv, JobOK
  <2>5. FoundOnce'
    BY <2>1 DEF FoundOnce
  <2>6. MarkFollows'
    BY <1>1, <2>1, <2>2 DEF DeadlinesInv, MarkFollows
  <2> QED BY <1>1, <2>2, <2>3, <2>4, <2>5, <2>6 DEF DeadlinesInv, SaveOK
<1> QED BY <1>2, <1>3

LEMMA TellHolderIs ==
    ASSUME DeadlinesInv, NEW t \in Things, TellHolder(t)
    PROVE  /\ job.at = "holders" /\ t \in job.holders /\ job' \in JobRecords
           /\ Announce({f \in ThisTime : f.thing = t}, "holder")
           /\ job'.society = job.society /\ job'.left = job.left
           /\ job'.terms = job.terms /\ job'.failed = job.failed
           /\ job'.touched = job.touched /\ job'.before = job.before
           /\ \/ job.holders = {t} /\ job' = NextMessage
              \/ /\ job'.at = "holders" /\ job'.check = job.check /\ job'.found = job.found
                 /\ job'.owed = job.owed /\ job'.holders = job.holders \ {t}
<1> DEFINE old == job
           new == [old EXCEPT !.holders = @ \ {t}]
<1>1. old \in JobRecords /\ job.at = "holders" /\ t \in job.holders
      /\ Announce({f \in ThisTime : f.thing = t}, "holder")
  BY DEF DeadlinesInv, DeadlinesTypes, TellHolder
<1>2. job' = IF job.holders = {t} THEN NextMessage ELSE new
  BY DEF TellHolder
<1> HIDE DEF old
<1>3. /\ new \in JobRecords /\ new.at = old.at /\ new.check = old.check
      /\ new.found = old.found /\ new.owed = old.owed /\ new.holders = old.holders \ {t}
      /\ new.society = old.society /\ new.left = old.left
      /\ new.terms = old.terms /\ new.failed = old.failed
      /\ new.touched = old.touched /\ new.before = old.before
  BY <1>1 DEF JobRecords
<1> HIDE DEF new
<1>4. CASE job.holders = {t}
  BY <1>1, <1>2, <1>4, NextMessageIs DEF old
<1>5. CASE job.holders # {t}
  BY <1>1, <1>2, <1>3, <1>5 DEF old
<1> QED BY <1>4, <1>5

LEMMA TellHolderOK ==
    ASSUME DeadlinesInv, NEW t \in Things, TellHolder(t) PROVE DeadlinesInv'
<1>1. job.at = "holders" /\ UNCHANGED <<today, dueOn, reminded, saving, misled>>
      /\ Announce({f \in ThisTime : f.thing = t}, "holder") /\ Checked # "training"
  BY DEF TellHolder, DeadlinesInv, JobOK
<1>2. CASE job' = NextMessage
  BY <1>1, <1>2, NextMessageOK
<1>3. CASE /\ job'.at = "holders" /\ job'.check = job.check /\ job'.found = job.found
           /\ job'.owed = job.owed
  <2>1. Checked' = Checked /\ job' \in JobRecords
    BY <1>3, TellHolderIs DEF Checked
  <2>2. /\ notices' \subseteq NoticeRecords
        /\ OnTheDay' /\ OnOneDay'
        /\ \A n \in notices' \ notices : n.thing \notin Trainings
    BY <1>1, AnnounceOK
  <2>3. DeadlinesTypes'
    BY <1>1, <2>1, <2>2 DEF DeadlinesInv, DeadlinesTypes
  <2>4. JobOK' /\ FoundOnce'
    BY <1>1, <1>3, <2>1 DEF DeadlinesInv, JobOK, FoundOnce
  <2>5. MarkFollows'
    BY <1>1, <2>2 DEF DeadlinesInv, MarkFollows
  <2> QED BY <1>1, <2>2, <2>3, <2>4, <2>5 DEF DeadlinesInv, SaveOK
<1> QED BY <1>2, <1>3, TellHolderIs

LEMMA MarkTrainingsOK == ASSUME DeadlinesInv, MarkTrainings PROVE DeadlinesInv'
<1>1. /\ job.at = "mark" /\ UNCHANGED <<today, dueOn, saving, notices, misled>>
      /\ reminded' = reminded \cup {f.thing : f \in {g \in job.found : dueOn[g.thing] # Removed}}
      /\ job' = DoneWith /\ job \in JobRecords /\ job.found \subseteq Finds
  BY DEF MarkTrainings, DeadlinesInv, DeadlinesTypes, JobRecords
<1>2. job' \in JobRecords /\ job'.at \in {"next", "check"}
  BY <1>1, DoneWithIs
<1>3. DeadlinesTypes'
  <2>1. reminded' \subseteq Things
    BY <1>1 DEF DeadlinesInv, DeadlinesTypes, Finds
  <2> QED BY <1>1, <1>2, <2>1 DEF DeadlinesInv, DeadlinesTypes
<1>4. JobOK' /\ FoundOnce'
  BY <1>2 DEF JobOK, FoundOnce
<1>5. MarkFollows'
  BY <1>1 DEF DeadlinesInv, MarkFollows
<1> QED BY <1>1, <1>3, <1>4, <1>5 DEF DeadlinesInv, SaveOK, OnTheDay, OnOneDay

LEMMA CheckFailsIs ==
    ASSUME DeadlinesInv, CheckFails
    PROVE  /\ job' \in JobRecords /\ job'.at = "next" /\ job'.failed = job.failed \cup {job.society}
           /\ job'.society = job.society /\ job'.left = job.left /\ job'.terms = job.terms
           /\ job'.touched = job.touched /\ job'.before = job.before
<1> DEFINE old == job
           new == [old EXCEPT !.at = "next", !.failed = @ \cup {old.society}]
<1>1. old \in JobRecords /\ job' = new
  BY DEF CheckFails, DeadlinesInv, DeadlinesTypes
<1> HIDE DEF old
<1>2. /\ new \in JobRecords /\ new.at = "next" /\ new.failed = old.failed \cup {old.society}
      /\ new.society = old.society /\ new.left = old.left /\ new.terms = old.terms
      /\ new.touched = old.touched /\ new.before = old.before
  BY <1>1 DEF JobRecords
<1> HIDE DEF new
<1> QED BY <1>1, <1>2 DEF old

LEMMA CheckFailsOK == ASSUME DeadlinesInv, CheckFails PROVE DeadlinesInv'
<1>1. /\ job.at \in Busy /\ UNCHANGED <<today, dueOn, reminded, saving>>
      /\ misled' = misled \cup Unmarked
      /\ (job.at = "send" /\ Announce(ThisTime, "office")) \/ UNCHANGED notices
      /\ job \in JobRecords /\ job.found \subseteq Finds
  BY DEF CheckFails, Busy, DeadlinesInv, DeadlinesTypes, JobRecords
<1>2. job' \in JobRecords /\ job'.at = "next"
  BY CheckFailsIs
<1>3. Unmarked \subseteq Things
  BY <1>1 DEF Unmarked, Finds
<1>4. /\ notices' \subseteq NoticeRecords /\ OnTheDay' /\ OnOneDay'
      /\ \A n \in notices' \ notices : n.thing \in Trainings => n.thing \in Unmarked
  <2>1. CASE job.at = "send" /\ Announce(ThisTime, "office")
    <3>1. /\ notices' \subseteq NoticeRecords /\ OnTheDay' /\ OnOneDay'
          /\ \A n \in notices' \ notices :
                n.on = today /\ n.thing \in {f.thing : f \in job.found}
                /\ (n.thing \in Trainings <=> Checked = "training")
      BY <1>1, <2>1, AnnounceOK
    <3> QED BY <2>1, <3>1 DEF Unmarked
  <2>2. CASE UNCHANGED notices
    BY <1>1, <2>2 DEF DeadlinesInv, DeadlinesTypes, OnTheDay, OnOneDay
  <2> QED BY <1>1, <2>1, <2>2
<1>5. DeadlinesTypes'
  BY <1>1, <1>2, <1>3, <1>4 DEF DeadlinesInv, DeadlinesTypes
<1>6. MarkFollows'
  <2> SUFFICES ASSUME NEW n \in notices', n.thing \in Trainings, n.thing \notin misled',
                      n.thing \notin reminded, dueOn[n.thing] # Removed
               PROVE  FALSE
    BY <1>1 DEF MarkFollows
  <2>1. n \in notices
    BY <1>1, <1>4
  <2>2. job.at = "mark" /\ n.thing \in {f.thing : f \in job.found} /\ Checked = "training"
    BY <1>1, <2>1 DEF DeadlinesInv, MarkFollows, JobOK
  <2> QED BY <1>1, <2>2 DEF Unmarked
<1>7. JobOK' /\ FoundOnce'
  BY <1>2 DEF JobOK, FoundOnce
<1> QED BY <1>1, <1>4, <1>5, <1>6, <1>7 DEF DeadlinesInv, SaveOK

LEMMA RestartOK == ASSUME DeadlinesInv, Restart PROVE DeadlinesInv'
<1> DEFINE any == NoJob
           idle == [any EXCEPT !.ran = job.ran]
<1>1. /\ UNCHANGED <<today, dueOn, reminded, notices>> /\ misled' = misled \cup Unmarked
      /\ job' = idle /\ saving' = NoSave
      /\ job \in JobRecords /\ job.found \subseteq Finds /\ job.ran \in BOOLEAN
      /\ any \in JobRecords /\ any.at = "idle"
  BY NoJobTyped DEF Restart, DeadlinesInv, DeadlinesTypes, JobRecords
<1>2. idle \in JobRecords /\ idle.at = "idle"
  <2> HIDE DEF any
  <2> QED BY <1>1 DEF JobRecords
<1> HIDE DEF idle
<1>3. Unmarked \subseteq Things
  BY <1>1 DEF Unmarked, Finds
<1>4. DeadlinesTypes'
  BY <1>1, <1>2, <1>3, NoSaveTyped DEF DeadlinesInv, DeadlinesTypes
<1>5. MarkFollows'
  <2> SUFFICES ASSUME NEW n \in notices, n.thing \in Trainings, n.thing \notin misled',
                      n.thing \notin reminded, dueOn[n.thing] # Removed
               PROVE  FALSE
    BY <1>1 DEF MarkFollows
  <2>1. job.at = "mark" /\ n.thing \in {f.thing : f \in job.found} /\ Checked = "training"
    BY <1>1 DEF DeadlinesInv, MarkFollows, JobOK
  <2> QED BY <1>1, <2>1 DEF Unmarked
<1>6. JobOK' /\ FoundOnce' /\ SaveOK'
  BY <1>1, <1>2, NoSaveTyped DEF JobOK, FoundOnce, SaveOK
<1> QED BY <1>1, <1>4, <1>5, <1>6 DEF DeadlinesInv, OnTheDay, OnOneDay

LEMMA NextDayOK == ASSUME DeadlinesInv, NextDay PROVE DeadlinesInv'
<1>1. /\ job.at = "idle" /\ today' = today + 1 /\ job' = NoJob /\ today \in Nat
      /\ UNCHANGED <<dueOn, reminded, saving, notices, misled>>
  BY DEF NextDay, DeadlinesInv, DeadlinesTypes
<1> QED BY <1>1, NoJobTyped, JobMovesOK

(* A deadline changes, or a save of a training moves on: no training that   *)
(* was announced loses its mark unseen.                                     *)
SameJob ==
    /\ job' \in JobRecords /\ job'.at = job.at /\ job'.check = job.check
    /\ job'.found = job.found /\ job'.owed = job.owed /\ job'.holders = job.holders
    /\ job'.society = job.society /\ job'.left = job.left /\ job'.terms = job.terms
    /\ job'.failed = job.failed /\ job'.before = job.before

LEMMA EditOK ==
    ASSUME DeadlinesInv, SameJob, UNCHANGED <<today, notices>>,
           dueOn' \in [Things -> DueDates], reminded' \subseteq Things, saving' \in SaveRecords,
           misled' \subseteq Things, misled \subseteq misled', SaveOK',
           \A t \in Trainings : (t \in reminded \/ dueOn[t] = Removed)
               => t \in reminded' \/ dueOn'[t] = Removed \/ t \in misled'
    PROVE  DeadlinesInv'
<1>1. /\ job' \in JobRecords /\ job'.at = job.at /\ job'.check = job.check
      /\ job'.found = job.found /\ job'.owed = job.owed /\ Checked' = Checked
  BY DEF SameJob, Checked
<1>2. DeadlinesTypes'
  BY <1>1 DEF DeadlinesInv, DeadlinesTypes
<1>3. JobOK' /\ FoundOnce'
  BY <1>1 DEF DeadlinesInv, JobOK, FoundOnce
<1>4. OnTheDay' /\ OnOneDay'
  BY DEF DeadlinesInv, OnTheDay, OnOneDay
<1>5. MarkFollows'
  BY <1>1 DEF DeadlinesInv, MarkFollows
<1> QED BY <1>2, <1>3, <1>4, <1>5 DEF DeadlinesInv

LEMMA BecomesIs ==
    ASSUME DeadlinesInv, NEW t \in Things, NEW due \in DueDates, Becomes(t, due)
    PROVE  /\ SameJob /\ job'.touched = job.touched \cup {t}
           /\ dueOn' \in [Things -> DueDates] /\ dueOn'[t] = due
           /\ \A u \in Things : u # t => dueOn'[u] = dueOn[u]
<1> DEFINE old == job
           new == [old EXCEPT !.touched = @ \cup {t}]
<1>1. old \in JobRecords /\ job' = new /\ dueOn' = [dueOn EXCEPT ![t] = due]
      /\ dueOn \in [Things -> DueDates]
  BY DEF Becomes, DeadlinesInv, DeadlinesTypes
<1> HIDE DEF old
<1>2. /\ new \in JobRecords /\ new.at = old.at /\ new.check = old.check
      /\ new.found = old.found /\ new.owed = old.owed /\ new.holders = old.holders
      /\ new.society = old.society /\ new.left = old.left /\ new.terms = old.terms
      /\ new.failed = old.failed /\ new.before = old.before
      /\ new.touched = old.touched \cup {t}
  BY <1>1 DEF JobRecords
<1> HIDE DEF new
<1> QED BY <1>1, <1>2 DEF SameJob, old

LEMMA DatesTyped == Dates \subseteq DueDates /\ NoDeadline \in DueDates /\ Removed \in DueDates
BY DeadlinesAssumption DEF DueDates

LEMMA SameJobOK == ASSUME job \in JobRecords, job' = job PROVE SameJob
BY DEF SameJob

(* A deadline is set by hand. *)
LEMMA SetByHandOK ==
    ASSUME DeadlinesInv, NEW t \in Things, NEW due \in DueDates, Becomes(t, due),
           UNCHANGED <<today, saving, notices, misled>>, reminded' \subseteq reminded,
           \A u \in Trainings : u \in reminded \ reminded' => dueOn'[u] = Removed,
           t \in Trainings => dueOn[t] # Removed
    PROVE  DeadlinesInv'
<1>1. /\ SameJob /\ dueOn' \in [Things -> DueDates]
      /\ \A u \in Things : u # t => dueOn'[u] = dueOn[u]
  BY BecomesIs
<1>2. saving' \in SaveRecords /\ misled' \subseteq Things /\ reminded' \subseteq Things
  BY DEF DeadlinesInv, DeadlinesTypes
<1>3. SaveOK'
  BY DEF DeadlinesInv, SaveOK
<1>4. \A u \in Trainings : u \in Things
  BY DEF Trainings
<1>5. \A u \in Trainings : (u \in reminded \/ dueOn[u] = Removed)
               => u \in reminded' \/ dueOn'[u] = Removed \/ u \in misled'
  BY <1>1, <1>4
<1> QED BY <1>1, <1>2, <1>3, <1>5, EditOK

LEMMA HandEditsOK ==
    ASSUME DeadlinesInv, NEW t \in Things, NEW due \in Dates \cup {NoDeadline},
           ChangeDeadline(t, due) \/ CreateTraining(t, due) \/ RemoveTraining(t)
    PROVE  DeadlinesInv'
<1>1. due \in DueDates
  BY DatesTyped
<1>2. CASE ChangeDeadline(t, due)
  BY <1>1, <1>2, SetByHandOK DEF ChangeDeadline
<1>3. CASE CreateTraining(t, due)
  BY <1>1, <1>3, SetByHandOK, DeadlinesAssumption DEF CreateTraining
<1>4. CASE RemoveTraining(t)
  <2>1. Becomes(t, Removed) /\ reminded' = reminded \ {t} /\ dueOn[t] # Removed
        /\ UNCHANGED <<today, saving, notices, misled>>
    BY <1>4, DeadlinesAssumption DEF RemoveTraining, Dated
  <2>2. dueOn'[t] = Removed
    BY <2>1, DatesTyped, BecomesIs
  <2>3. \A u \in Trainings : u \in reminded \ reminded' => dueOn'[u] = Removed
    BY <2>1, <2>2
  <2> QED BY <2>1, <2>3, DatesTyped, SetByHandOK
<1> QED BY <1>2, <1>3, <1>4

(* A save of a training before it writes. *)
LEMMA SaveMovesOK ==
    ASSUME DeadlinesInv, saving' \in SaveRecords, SaveOK',
           UNCHANGED <<today, dueOn, reminded, job, notices, misled>>
    PROVE  DeadlinesInv'
<1>1. /\ job \in JobRecords /\ dueOn' \in [Things -> DueDates] /\ reminded' \subseteq Things
      /\ misled' \subseteq Things
  BY DEF DeadlinesInv, DeadlinesTypes
<1>2. SameJob
  BY <1>1, SameJobOK
<1> QED BY <1>1, <1>2, EditOK

LEMMA LoadTrainingOK ==
    ASSUME DeadlinesInv, NEW t \in Things, NEW due \in Dates, LoadTraining(t, due)
    PROVE  DeadlinesInv'
<1> DEFINE any == NoSave
           flag == t \in reminded
           new == [any EXCEPT !.at = "loaded", !.thing = t, !.due = due, !.flag = flag]
<1>1. /\ any \in SaveRecords /\ due \in Nat /\ flag \in BOOLEAN /\ t \in Trainings
      /\ saving' = new /\ UNCHANGED <<today, dueOn, reminded, job, notices, misled>>
  BY NoSaveTyped, DeadlinesAssumption DEF LoadTraining
<1> HIDE DEF any, flag
<1>2. new \in SaveRecords /\ new.at = "loaded" /\ new.thing = t
  BY <1>1 DEF SaveRecords
<1> HIDE DEF new
<1>3. SaveOK'
  BY <1>1, <1>2 DEF SaveOK
<1> QED BY <1>1, <1>2, <1>3, SaveMovesOK

LEMMA ReloadTrainingOK == ASSUME DeadlinesInv, ReloadTraining PROVE DeadlinesInv'
<1> DEFINE old == saving
           differs == old.flag # (old.thing \in reminded)
           update == [old EXCEPT !.at = "update", !.marks = differs]
           insert == [old EXCEPT !.at = "insert", !.marks = TRUE]
<1>1. /\ old \in SaveRecords /\ old.thing \in Trainings /\ differs \in BOOLEAN
      /\ saving' = update \/ saving' = insert
      /\ UNCHANGED <<today, dueOn, reminded, job, notices, misled>>
  BY DEF ReloadTraining, DeadlinesInv, DeadlinesTypes, SaveOK
<1> HIDE DEF old, differs
<1>2. /\ update \in SaveRecords /\ update.at = "update" /\ update.thing = old.thing
      /\ insert \in SaveRecords /\ insert.at = "insert" /\ insert.thing = old.thing
      /\ insert.marks = TRUE
  BY <1>1 DEF SaveRecords
<1> HIDE DEF update, insert
<1>3. saving' \in SaveRecords /\ SaveOK'
  BY <1>1, <1>2 DEF SaveOK
<1> QED BY <1>1, <1>3, SaveMovesOK

LEMMA WriteTrainingOK == ASSUME DeadlinesInv, WriteTraining PROVE DeadlinesInv'
<1> DEFINE t == saving.thing
<1>1. /\ saving.at \in {"update", "insert"} /\ saving' = NoSave /\ UNCHANGED <<today, notices>>
      /\ t \in Trainings /\ t \in Things
      /\ saving.at = "insert" => saving.marks
      /\ saving.due \in DueDates /\ job \in JobRecords
  BY DEF WriteTraining, DeadlinesInv, DeadlinesTypes, SaveOK, SaveRecords, Trainings, DueDates
<1>2. SaveOK'
  BY <1>1, NoSaveTyped DEF SaveOK
<1>3. CASE UNCHANGED <<dueOn, reminded, job, misled>>
  BY <1>1, <1>2, <1>3, NoSaveTyped, SaveMovesOK
<1>4. CASE /\ saving.at = "update" => Dated(t)
           /\ Becomes(t, saving.due)
           /\ reminded' = IF ~saving.marks THEN reminded
                          ELSE IF saving.flag THEN reminded \cup {t} ELSE reminded \ {t}
           /\ misled' = IF saving.marks /\ ~saving.flag THEN misled \cup {t} ELSE misled
  <2>1. /\ SameJob /\ dueOn' \in [Things -> DueDates]
        /\ \A u \in Things : u # t => dueOn'[u] = dueOn[u]
    BY <1>1, <1>4, BecomesIs
  <2>2. reminded' \subseteq Things /\ misled' \subseteq Things /\ misled \subseteq misled'
    BY <1>1, <1>4 DEF DeadlinesInv, DeadlinesTypes
  <2>3. \A u \in Trainings : u \in Things
    BY DEF Trainings
  <2>4. dueOn[t] = Removed => saving.marks
    BY <1>1, <1>4, DeadlinesAssumption DEF Dated
  <2> HIDE DEF t
  <2>5. \A u \in Trainings : (u \in reminded \/ dueOn[u] = Removed)
               => u \in reminded' \/ dueOn'[u] = Removed \/ u \in misled'
    BY <1>4, <2>1, <2>3, <2>4
  <2> QED BY <1>1, <1>2, <2>1, <2>2, <2>5, NoSaveTyped, EditOK
<1> QED BY <1>3, <1>4 DEF WriteTraining

LEMMA DeadlinesStep == ASSUME DeadlinesInv, [DeadlinesNext]_deadlinesVars PROVE DeadlinesInv'
<1>1. CASE UNCHANGED deadlinesVars
  BY <1>1 DEF deadlinesVars, DeadlinesInv, DeadlinesTypes, JobOK, SaveOK, OnTheDay, OnOneDay,
              MarkFollows, FoundOnce, Checked
<1>2. CASE RunDailyChecks \/ NextSociety \/ FindDue \/ TellOffice \/ MarkTrainings
           \/ CheckFails \/ Restart \/ NextDay \/ ReloadTraining \/ WriteTraining
  BY <1>2, RunDailyChecksOK, NextSocietyOK, FindDueOK, TellOfficeOK, MarkTrainingsOK,
     CheckFailsOK, RestartOK, NextDayOK, ReloadTrainingOK, WriteTrainingOK
<1>3. ASSUME NEW t \in Things, TellHolder(t) \/ RemoveTraining(t) \/ ChangeDeadline(t, NoDeadline)
      PROVE  DeadlinesInv'
  BY <1>3, TellHolderOK, HandEditsOK
<1>4. ASSUME NEW t \in Things, NEW due \in Dates,
             ChangeDeadline(t, due) \/ CreateTraining(t, due) \/ LoadTraining(t, due)
      PROVE  DeadlinesInv'
  BY <1>4, HandEditsOK, LoadTrainingOK
<1> QED BY <1>1, <1>2, <1>3, <1>4 DEF DeadlinesNext

LEMMA DeadlinesInvariance == DeadlinesSpec => []DeadlinesInv
BY DeadlinesStart, DeadlinesStep, PTL DEF DeadlinesSpec

(* Nobody is reminded of one deadline day after day: a vehicle, a piece of  *)
(* equipment or a subscription is announced on its days only, a training    *)
(* once, however the run of the day meets edits, errors and restarts, but   *)
(* for a training whose reminder_sent was not reached or was put back.      *)
THEOREM RemindersSpaced == DeadlinesSpec => []NoDailyRepeat
<1>1. DeadlinesInv => NoDailyRepeat
  BY DEF DeadlinesInv, OnTheDay, OnOneDay, NoDailyRepeat
<1> QED BY <1>1, DeadlinesInvariance, PTL

-----------------------------------------------------------------------------
(* What the run of a day has told of. *)
ToldTo(t, to) == [thing |-> t, due |-> dueOn[t], on |-> today, to |-> to] \in notices
IsTold(t) == ToldTo(t, "office") /\ (t \in Held => ToldTo(t, "holder"))
IsDue(t) ==
    /\ Dated(t)
    /\ IF t \in Trainings
       THEN t \notin job.before /\ dueOn[t] <= today + Latest(Announced["training"])
       ELSE \E n \in Announced[KindOf[t]] : dueOn[t] = today + n
Untouched == Things \ job.touched

(* The things a check has to tell of, and those the run is through with. *)
ToTell == {t \in Untouched : IsDue(t) /\ SocietyOf[t] = job.society /\ KindOf[t] = Checked}
Passed(t) ==
    /\ SocietyOf[t] \notin job.left
    /\ \/ job.at = "next" \/ SocietyOf[t] # job.society
       \/ \E i \in 1..5 : i < job.check /\ KindOf[t] = Checks[i]

TermsHold == job.terms \in [Things -> DueDates] /\ \A t \in Untouched : job.terms[t] = dueOn[t]

(* A mark that is new this day was set by the run, after the check of the   *)
(* trainings of that society.                                               *)
NewMarks == \A t \in Untouched : t \in reminded \ job.before =>
    /\ SocietyOf[t] \notin job.left
    /\ (job.at \in Busy /\ SocietyOf[t] = job.society) => job.check > 4

PassedTold == \A t \in Untouched :
    (IsDue(t) /\ SocietyOf[t] \notin job.failed /\ Passed(t)) => IsTold(t)

(* What is under way for the society and the kind that are checked. *)
CheckHolds ==
    /\ job.at \in Busy => job.society \notin job.left
    /\ job.at \in {"send", "holders", "mark"} =>
          /\ \A f \in job.found : SocietyOf[f.thing] = job.society
          /\ \A t \in ToTell : [thing |-> t, due |-> dueOn[t]] \in job.found
    /\ (job.at \in {"send", "holders"} /\ Checked # "training") =>
          \A t \in ToTell : (\E n \in job.owed : dueOn[t] = today + n) \/ IsTold(t)
    /\ job.at = "holders" =>
          \A t \in ToTell : dueOn[t] = today + Latest(job.owed) =>
             ToldTo(t, "office") /\ (t \in Held => t \in job.holders \/ ToldTo(t, "holder"))
    /\ job.at = "mark" => \A t \in ToTell : IsTold(t)

RunInv == job.at # "idle" => TermsHold /\ NewMarks /\ PassedTold /\ CheckHolds

(* The run goes on, and what is due stays due. *)
RunGoesOn ==
    /\ job'.touched = job.touched /\ job'.terms = job.terms /\ job'.before = job.before
    /\ job'.left = job.left /\ UNCHANGED <<today, dueOn>> /\ notices \subseteq notices'

LEMMA StaysDue ==
    ASSUME RunGoesOn
    PROVE  /\ \A t \in Things : IsDue(t)' = IsDue(t) /\ (IsTold(t) => IsTold(t)')
           /\ \A t \in Things, to \in {"office", "holder"} : ToldTo(t, to) => ToldTo(t, to)'
           /\ Untouched' = Untouched
           /\ TermsHold => TermsHold'
<1>1. \A t \in Things : IsDue(t)' = IsDue(t)
  BY DEF RunGoesOn, IsDue, Dated
<1>2. \A t \in Things, to \in {"office", "holder"} : ToldTo(t, to) => ToldTo(t, to)'
  BY DEF RunGoesOn, ToldTo
<1>3. \A t \in Things : IsTold(t) => IsTold(t)'
  BY <1>2 DEF IsTold
<1>4. Untouched' = Untouched
  BY DEF RunGoesOn, Untouched
<1>5. TermsHold => TermsHold'
  BY <1>4 DEF RunGoesOn, TermsHold
<1> QED BY <1>1, <1>2, <1>3, <1>4, <1>5

(* A kind is through: all that had to be told is told. *)
LEMMA ThroughOK ==
    ASSUME DeadlinesInv, RunInv, job.at \in Busy, job' = DoneWith, RunGoesOn,
           \A t \in ToTell : IsTold(t)',
           \A t \in Untouched : t \in reminded' \ reminded =>
               SocietyOf[t] = job.society /\ job.check = 4
    PROVE  RunInv'
<1>1. /\ TermsHold /\ NewMarks /\ PassedTold /\ CheckHolds
  BY DEF RunInv, Busy
<1>2. /\ job \in JobRecords /\ job.check \in 1..5
  BY DEF DeadlinesInv, DeadlinesTypes, JobRecords
<1>3. /\ job'.left = job.left /\ job'.society = job.society /\ job'.failed = job.failed
      /\ job'.before = job.before
      /\ IF job.check = 5 THEN job'.at = "next"
         ELSE job'.at = "check" /\ job'.check = job.check + 1
  BY <1>2, DoneWithIs
<1>4. TermsHold' /\ Untouched' = Untouched /\ Untouched \subseteq Things
  BY <1>1, StaysDue DEF Untouched
<1>5. NewMarks'
  <2> SUFFICES ASSUME NEW t \in Untouched, t \in reminded', t \notin job.before
               PROVE  /\ SocietyOf[t] \notin job.left
                      /\ (job'.at \in Busy /\ SocietyOf[t] = job.society) => job'.check > 4
    BY <1>3, <1>4 DEF NewMarks
  <2>1. SocietyOf[t] \notin job.left
    BY <1>1 DEF NewMarks, CheckHolds
  <2>2. SocietyOf[t] = job.society => job.check >= 4
    BY <1>1, <1>2 DEF NewMarks
  <2> QED BY <1>2, <1>3, <2>1, <2>2 DEF Busy
<1>6. PassedTold'
  <2> SUFFICES ASSUME NEW t \in Untouched, IsDue(t)', SocietyOf[t] \notin job.failed,
                      Passed(t)'
               PROVE  IsTold(t)'
    BY <1>3, <1>4 DEF PassedTold
  <2>1. IsDue(t) /\ t \in Things
    BY <1>4, StaysDue
  <2>2. CASE Passed(t)
    BY <1>1, <2>1, <2>2, StaysDue DEF PassedTold
  <2>3. CASE ~Passed(t)
    <3>1. SocietyOf[t] = job.society /\ SocietyOf[t] \notin job.left
          /\ \A i \in 1..5 : i < job.check => KindOf[t] # Checks[i]
      BY <1>3, <2>3 DEF Passed
    <3>2. KindOf[t] = Checked
      <4>1. CASE job.check = 5
        <5>1. KindOf[t] \in Kinds
          BY <2>1, DeadlinesAssumption
        <5>2. PICK i \in 1..5 : KindOf[t] = Checks[i]
          BY <5>1 DEF Kinds
        <5>3. i = job.check
          BY <3>1, <4>1, <5>2
        <5> QED BY <5>2, <5>3 DEF Checked
      <4>2. CASE job.check # 5
        <5>1. PICK i \in 1..5 : i < job.check + 1 /\ KindOf[t] = Checks[i]
          BY <1>3, <3>1, <4>2 DEF Passed
        <5>2. i = job.check
          BY <1>2, <3>1, <5>1
        <5> QED BY <5>1, <5>2 DEF Checked
      <4> QED BY <4>1, <4>2
    <3> QED BY <2>1, <3>1, <3>2 DEF ToTell
  <2> QED BY <2>2, <2>3
<1>7. CheckHolds'
  BY <1>1, <1>3 DEF CheckHolds, Busy
<1> QED BY <1>4, <1>5, <1>6, <1>7 DEF RunInv

(* A check goes on with what it found. *)
LEMMA CheckGoesOn ==
    ASSUME RunInv, job.at \in Busy, job'.at \in Busy, job'.check = job.check,
           job'.society = job.society, job'.failed = job.failed, RunGoesOn,
           UNCHANGED reminded
    PROVE  /\ TermsHold' /\ NewMarks' /\ PassedTold' /\ ToTell' = ToTell /\ Checked' = Checked
           /\ job'.society \notin job'.left
<1>1. TermsHold /\ NewMarks /\ PassedTold /\ CheckHolds
  BY DEF RunInv, Busy
<1>2. Untouched \subseteq Things /\ Untouched' = Untouched /\ Checked' = Checked
      /\ \A t \in Things : IsDue(t)' = IsDue(t) /\ (IsTold(t) => IsTold(t)')
  BY StaysDue DEF Untouched, Checked
<1>3. \A t \in Things : Passed(t)' = Passed(t)
  BY DEF RunGoesOn, Passed, Busy
<1>4. NewMarks'
  BY <1>1, <1>2 DEF NewMarks, RunGoesOn
<1>5. PassedTold'
  BY <1>1, <1>2, <1>3 DEF PassedTold
<1>6. ToTell' = ToTell
  BY <1>2 DEF ToTell
<1>7. TermsHold'
  BY <1>1, StaysDue
<1> QED BY <1>1, <1>2, <1>4, <1>5, <1>6, <1>7 DEF RunGoesOn, CheckHolds

LEMMA RunStarts == ASSUME DeadlinesInv, RunDailyChecks PROVE RunInv'
<1> DEFINE any == NoJob
           new == [any EXCEPT !.at = "next", !.ran = TRUE, !.left = Societies,
                              !.terms = dueOn, !.before = reminded]
<1>1. /\ any \in JobRecords /\ any.touched = {} /\ job' = new
      /\ dueOn' = dueOn /\ reminded' = reminded /\ dueOn \in [Things -> DueDates]
  BY NoJobTyped DEF RunDailyChecks, DeadlinesInv, DeadlinesTypes
<1> HIDE DEF any
<1>2. /\ new.at = "next" /\ new.left = Societies /\ new.terms = dueOn /\ new.before = reminded
  BY <1>1 DEF JobRecords
<1> HIDE DEF new
<1>3. TermsHold' /\ NewMarks' /\ CheckHolds'
  BY <1>1, <1>2 DEF TermsHold, NewMarks, CheckHolds, Untouched, Busy
<1>4. PassedTold'
  <2>1. \A t \in Things : SocietyOf[t] \in Societies
    BY DeadlinesAssumption
  <2> QED BY <1>1, <1>2, <2>1 DEF PassedTold, Passed, Untouched
<1> QED BY <1>3, <1>4 DEF RunInv

LEMMA SocietyStarts == ASSUME DeadlinesInv, RunInv, NextSociety PROVE RunInv'
<1>1. /\ job.at = "next" /\ UNCHANGED <<today, dueOn, reminded, notices>>
      /\ TermsHold /\ NewMarks /\ PassedTold
  BY DEF NextSociety, RunInv
<1>2. ASSUME NEW s \in job.left, job'.at = "check", job'.check = 1, job'.society = s,
             job'.left = job.left \ {s}, job'.terms = job.terms, job'.failed = job.failed,
             job'.touched = job.touched, job'.before = job.before
      PROVE  RunInv'
  <2>1. /\ Untouched' = Untouched /\ Untouched \subseteq Things
        /\ \A t \in Things : IsDue(t)' = IsDue(t) /\ IsTold(t)' = IsTold(t)
    BY <1>1, <1>2 DEF Untouched, IsDue, Dated, IsTold, ToldTo
  <2>2. TermsHold'
    BY <1>1, <1>2, <2>1 DEF TermsHold
  <2>3. NewMarks'
    BY <1>1, <1>2, <2>1 DEF NewMarks
  <2>4. \A t \in Things : Passed(t)' => Passed(t)
    BY <1>1, <1>2 DEF Passed
  <2>5. PassedTold'
    BY <1>1, <1>2, <2>1, <2>4 DEF PassedTold
  <2>6. CheckHolds'
    BY <1>2 DEF CheckHolds
  <2> QED BY <2>2, <2>3, <2>5, <2>6 DEF RunInv
<1>3. CASE job'.at = "idle"
  BY <1>3 DEF RunInv
<1> QED BY <1>2, <1>3, NextSocietyIs

LEMMA FindsAll ==
    ASSUME DeadlinesInv, RunInv, FindDue
    PROVE  /\ \A f \in Found : SocietyOf[f.thing] = job.society
           /\ \A t \in ToTell : [thing |-> t, due |-> dueOn[t]] \in Found
           /\ Checked # "training" =>
                 \A t \in ToTell : \E n \in Owed(Found) : dueOn[t] = today + n
           /\ Owed(Found) = {} => ToTell = {}
<1> DEFINE dates == IF Checked = "subscription" THEN job.terms ELSE dueOn
           near == {t \in Of(job.society, Checked) :
                      dates[t] \in Nat /\ dates[t] <= today + Latest(Announced[Checked])}
<1>1. Found = {[thing |-> t, due |-> dates[t]] :
                  t \in IF Checked = "training" THEN near \ reminded ELSE near}
  BY DEF Found
<1>2. /\ job.at = "check" /\ TermsHold /\ NewMarks /\ today \in Nat
      /\ job.check \in 1..5 /\ Checked \in Kinds
  BY FindDueIs DEF FindDue, RunInv, DeadlinesInv, DeadlinesTypes
<1>3. \A t \in Untouched : dates[t] = dueOn[t] /\ t \in Things
  BY <1>2 DEF TermsHold, Untouched
<1>4. /\ Announced[Checked] # {} /\ Announced[Checked] \subseteq Nat
      /\ Latest(Announced[Checked]) \in Nat
      /\ \A n \in Announced[Checked] : n <= Latest(Announced[Checked])
  BY <1>2, LatestIs, DeadlinesAssumption
<1>5. \A t \in near : SocietyOf[t] = job.society
  BY DEF Of
<1>6. ASSUME NEW t \in ToTell
      PROVE  /\ t \in near /\ (Checked = "training" => t \notin reminded) /\ dates[t] = dueOn[t]
             /\ Checked # "training" => \E n \in Announced[Checked] : dueOn[t] = today + n
  <2>1. /\ t \in Untouched /\ t \in Things /\ IsDue(t) /\ SocietyOf[t] = job.society
        /\ KindOf[t] = Checked /\ dates[t] = dueOn[t]
        /\ (t \in Trainings <=> Checked = "training")
    BY <1>3 DEF ToTell, Trainings
  <2>2. dueOn[t] \in Nat
    BY <2>1 DEF IsDue, Dated
  <2>3. Checked = "training" => t \notin reminded
    <3>1. Checked = "training" => job.check = 4 /\ t \notin job.before
      BY <1>2, <2>1, ChecksAre DEF IsDue, Checked
    <3> QED BY <1>2, <2>1, <3>1 DEF NewMarks, Busy
  <2>4. Checked # "training" => \E n \in Announced[Checked] : dueOn[t] = today + n
    BY <2>1 DEF IsDue
  <2>5. dueOn[t] <= today + Latest(Announced[Checked])
    <3>1. CASE Checked = "training"
      BY <2>1, <3>1 DEF IsDue
    <3>2. CASE Checked # "training"
      <4>1. PICK n \in Announced[Checked] : dueOn[t] = today + n
        BY <2>4, <3>2
      <4>2. n \in Nat /\ n <= Latest(Announced[Checked])
        BY <1>4
      <4> QED BY <1>2, <1>4, <4>1, <4>2
    <3> QED BY <3>1, <3>2
  <2>6. t \in Of(job.society, Checked)
    BY <2>1 DEF Of
  <2> QED BY <2>1, <2>2, <2>3, <2>4, <2>5, <2>6
<1> HIDE DEF dates, near
<1>7. \A f \in Found : SocietyOf[f.thing] = job.society
  BY <1>1, <1>5
<1>8. \A t \in ToTell : [thing |-> t, due |-> dueOn[t]] \in Found
  <2> SUFFICES ASSUME NEW t \in ToTell PROVE [thing |-> t, due |-> dueOn[t]] \in Found
    OBVIOUS
  <2>1. /\ t \in IF Checked = "training" THEN near \ reminded ELSE near
        /\ dates[t] = dueOn[t]
    BY <1>6
  <2> QED BY <1>1, <2>1
<1>9. Checked # "training" =>
         \A t \in ToTell : \E n \in Owed(Found) : dueOn[t] = today + n
  <2> SUFFICES ASSUME Checked # "training", NEW t \in ToTell
               PROVE  \E n \in Owed(Found) : dueOn[t] = today + n
    OBVIOUS
  <2>1. PICK n \in Announced[Checked] : dueOn[t] = today + n
    BY <1>6
  <2>2. \E f \in Found : f.due = today + n
    BY <1>8, <2>1
  <2> QED BY <2>1, <2>2 DEF Owed
<1>10. Owed(Found) = {} => ToTell = {}
  BY <1>4, <1>8, <1>9 DEF Owed
<1> QED BY <1>7, <1>8, <1>9, <1>10

LEMMA FindDueRuns == ASSUME DeadlinesInv, RunInv, FindDue PROVE RunInv'
<1>1. /\ job.at = "check" /\ UNCHANGED <<today, dueOn, reminded, notices>>
      /\ job \in JobRecords /\ job.at \in Busy
  BY DEF FindDue, DeadlinesInv, DeadlinesTypes, Busy
<1>2. CASE Owed(Found) = {} /\ job' = DoneWith
  <2>1. RunGoesOn
    BY <1>1, <1>2, DoneWithIs DEF RunGoesOn
  <2>2. ToTell = {}
    BY <1>2, FindsAll
  <2> QED BY <1>1, <1>2, <2>1, <2>2, ThroughOK
<1>3. CASE /\ job'.at = "send" /\ job'.check = job.check /\ job'.found = Found
           /\ job'.owed = Owed(Found) /\ job'.society = job.society /\ job'.left = job.left
           /\ job'.terms = job.terms /\ job'.failed = job.failed
           /\ job'.touched = job.touched /\ job'.before = job.before
  <2>1. RunGoesOn /\ job'.at \in Busy
    BY <1>1, <1>3 DEF RunGoesOn, Busy
  <2>2. /\ TermsHold' /\ NewMarks' /\ PassedTold' /\ ToTell' = ToTell /\ Checked' = Checked
        /\ job'.society \notin job'.left
    BY <1>1, <1>3, <2>1, CheckGoesOn
  <2>3. CheckHolds'
    BY <1>1, <1>3, <2>2, FindsAll DEF CheckHolds
  <2> QED BY <2>2, <2>3 DEF RunInv
<1> QED BY <1>2, <1>3, FindDueIs

(* One message of a kind is out: those it was for are told. *)
LEMMA NextMessageRuns ==
    ASSUME DeadlinesInv, RunInv, job.at \in {"send", "holders"}, Checked # "training",
           job' = NextMessage, UNCHANGED <<today, dueOn, reminded>>, notices \subseteq notices',
           \A t \in ToTell : dueOn[t] = today + Latest(job.owed) => IsTold(t)'
    PROVE  RunInv'
<1>1. /\ job \in JobRecords /\ job.at \in Busy /\ CheckHolds
      /\ \A t \in ToTell : (\E n \in job.owed : dueOn[t] = today + n) \/ IsTold(t)
  BY DEF DeadlinesInv, DeadlinesTypes, Busy, RunInv, CheckHolds
<1>2. RunGoesOn
  BY <1>1, NextMessageIs DEF RunGoesOn
<1>3. CASE job.owed = {Latest(job.owed)}
  <2>1. \A t \in ToTell : t \in Things
    BY DEF ToTell, Untouched
  <2>2. \A t \in ToTell : IsTold(t)'
    BY <1>1, <1>2, <1>3, <2>1, StaysDue
  <2>3. job' = DoneWith
    BY <1>1, <1>3, NextMessageIs
  <2> QED BY <1>1, <1>2, <2>2, <2>3, ThroughOK
<1>4. CASE job.owed # {Latest(job.owed)}
  <2>1. /\ job'.at = "send" /\ job'.check = job.check /\ job'.found = job.found
        /\ job'.owed = job.owed \ {Latest(job.owed)} /\ job'.failed = job.failed
        /\ job'.society = job.society
    BY <1>1, <1>4, NextMessageIs
  <2>2. /\ TermsHold' /\ NewMarks' /\ PassedTold' /\ ToTell' = ToTell /\ Checked' = Checked
        /\ job'.society \notin job'.left
    BY <1>1, <1>2, <2>1, CheckGoesOn DEF Busy
  <2>3. \A t \in ToTell : t \in Things
    BY DEF ToTell, Untouched
  <2>4. \A t \in ToTell : (\E n \in job'.owed : dueOn[t] = today + n) \/ IsTold(t)'
    BY <1>1, <1>2, <2>1, <2>3, StaysDue
  <2>5. \A f \in job.found : SocietyOf[f.thing] = job.society
    BY <1>1 DEF CheckHolds
  <2>6. \A t \in ToTell : [thing |-> t, due |-> dueOn[t]] \in job.found
    BY <1>1 DEF CheckHolds
  <2>7. CheckHolds'
    BY <2>1, <2>2, <2>4, <2>5, <2>6 DEF CheckHolds
  <2> QED BY <2>2, <2>7 DEF RunInv
<1> QED BY <1>3, <1>4

LEMMA TellOfficeRuns == ASSUME DeadlinesInv, RunInv, TellOffice PROVE RunInv'
<1>1. /\ job.at = "send" /\ UNCHANGED <<today, dueOn, reminded>> /\ job.at \in Busy
      /\ Announce(ThisTime, "office") /\ CheckHolds
      /\ \A f \in job.found : SocietyOf[f.thing] = job.society
      /\ \A t \in ToTell : [thing |-> t, due |-> dueOn[t]] \in job.found
  BY DEF TellOffice, Busy, RunInv, CheckHolds
<1>2. notices \subseteq notices'
      /\ \A f \in ThisTime : [thing |-> f.thing, due |-> f.due, on |-> today, to |-> "office"]
                                \in notices'
  BY <1>1 DEF Announce
<1>3. \A t \in ToTell : (Checked = "training" \/ dueOn[t] = today + Latest(job.owed))
         => [thing |-> t, due |-> dueOn[t]] \in ThisTime
  BY <1>1 DEF ThisTime
<1>4. \A t \in ToTell : (Checked = "training" \/ dueOn[t] = today + Latest(job.owed))
         => ToldTo(t, "office")' /\ (t \in Held => t \in TellsOffice)
  <2> SUFFICES ASSUME NEW t \in ToTell,
                      Checked = "training" \/ dueOn[t] = today + Latest(job.owed)
               PROVE  ToldTo(t, "office")' /\ (t \in Held => t \in TellsOffice)
    OBVIOUS
  <2> DEFINE f == [thing |-> t, due |-> dueOn[t]]
  <2>1. f \in ThisTime /\ f.thing = t /\ f.due = dueOn[t]
    BY <1>3
  <2> HIDE DEF f
  <2>2. [thing |-> t, due |-> dueOn[t], on |-> today, to |-> "office"] \in notices'
    BY <1>2, <2>1
  <2> QED BY <1>1, <2>1, <2>2 DEF ToldTo, TellsOffice
<1>5. CASE Checked # "training" /\ TellsOffice = {} /\ job' = NextMessage
  <2>1. \A t \in ToTell : dueOn[t] = today + Latest(job.owed) => IsTold(t)'
    BY <1>4, <1>5 DEF IsTold
  <2> QED BY <1>1, <1>2, <1>5, <2>1, NextMessageRuns
<1>6. CASE /\ job'.check = job.check /\ job'.found = job.found
           /\ \/ Checked = "training" /\ job'.at = "mark"
              \/ /\ Checked # "training" /\ job'.at = "holders"
                 /\ job'.owed = job.owed /\ job'.holders = TellsOffice
  <2>1. RunGoesOn /\ job'.at \in Busy /\ job'.failed = job.failed /\ job'.society = job.society
    BY <1>1, <1>2, <1>6, TellOfficeIs DEF RunGoesOn, Busy
  <2>2. /\ TermsHold' /\ NewMarks' /\ PassedTold' /\ ToTell' = ToTell /\ Checked' = Checked
        /\ job'.society \notin job'.left
    BY <1>1, <1>6, <2>1, CheckGoesOn
  <2>3. ToTell \subseteq Things
    BY DEF ToTell, Untouched
  <2>4. CASE Checked = "training" /\ job'.at = "mark"
    <3>1. \A t \in ToTell : t \notin Held
      BY <2>4, DeadlinesAssumption DEF ToTell
    <3>2. \A t \in ToTell : IsTold(t)'
      BY <1>4, <2>4, <3>1 DEF IsTold
    <3>3. CheckHolds'
      BY <1>1, <1>6, <2>1, <2>2, <2>4, <3>2 DEF CheckHolds
    <3> QED BY <2>2, <3>3 DEF RunInv
  <2>5. CASE Checked # "training" /\ job'.at = "holders" /\ job'.owed = job.owed
             /\ job'.holders = TellsOffice
    <3>1. \A t \in ToTell : (\E n \in job.owed : dueOn[t] = today + n) \/ IsTold(t)'
      BY <1>1, <2>1, <2>3, <2>5, StaysDue DEF CheckHolds
    <3>2. \A t \in ToTell : dueOn[t] = today + Latest(job.owed) =>
             ToldTo(t, "office")' /\ (t \in Held => t \in job'.holders)
      BY <1>4, <2>5
    <3>3. CheckHolds'
      BY <1>1, <1>6, <2>1, <2>2, <2>5, <3>1, <3>2 DEF CheckHolds
    <3> QED BY <2>2, <3>3 DEF RunInv
  <2> QED BY <1>6, <2>4, <2>5
<1> QED BY <1>5, <1>6, TellOfficeIs

LEMMA TellHolderRuns ==
    ASSUME DeadlinesInv, RunInv, NEW u \in Things, TellHolder(u) PROVE RunInv'
<1>1. /\ job.at = "holders" /\ UNCHANGED <<today, dueOn, reminded>> /\ job.at \in Busy
      /\ Announce({f \in ThisTime : f.thing = u}, "holder") /\ CheckHolds
      /\ Checked # "training" /\ u \in job.holders
      /\ \A f \in job.found : SocietyOf[f.thing] = job.society
      /\ \A t \in ToTell : [thing |-> t, due |-> dueOn[t]] \in job.found
  BY DEF TellHolder, Busy, RunInv, CheckHolds, DeadlinesInv, JobOK
<1>2. notices \subseteq notices'
      /\ \A f \in ThisTime : f.thing = u =>
            [thing |-> f.thing, due |-> f.due, on |-> today, to |-> "holder"] \in notices'
  BY <1>1 DEF Announce
<1>3. \A t \in ToTell : (t = u /\ dueOn[t] = today + Latest(job.owed)) => ToldTo(t, "holder")'
  <2> SUFFICES ASSUME NEW t \in ToTell, t = u, dueOn[t] = today + Latest(job.owed)
               PROVE  ToldTo(t, "holder")'
    OBVIOUS
  <2> DEFINE f == [thing |-> t, due |-> dueOn[t]]
  <2>1. f \in ThisTime /\ f.thing = t /\ f.due = dueOn[t]
    BY <1>1 DEF ThisTime
  <2> HIDE DEF f
  <2>2. [thing |-> t, due |-> dueOn[t], on |-> today, to |-> "holder"] \in notices'
    BY <1>2, <2>1
  <2> QED BY <1>1, <2>2 DEF ToldTo
<1>4. RunGoesOn
  BY <1>1, <1>2, TellHolderIs DEF RunGoesOn
<1>5. ToTell \subseteq Things
  BY DEF ToTell, Untouched
<1>6. \A t \in ToTell : dueOn[t] = today + Latest(job.owed) =>
         /\ ToldTo(t, "office")'
         /\ t \in Held => t \in job.holders \ {u} \/ ToldTo(t, "holder")'
  BY <1>1, <1>3, <1>4, <1>5, StaysDue DEF CheckHolds
<1>7. CASE job.holders = {u} /\ job' = NextMessage
  <2>1. \A t \in ToTell : dueOn[t] = today + Latest(job.owed) => IsTold(t)'
    BY <1>6, <1>7 DEF IsTold
  <2> QED BY <1>1, <1>2, <1>7, <2>1, NextMessageRuns
<1>8. CASE /\ job'.at = "holders" /\ job'.check = job.check /\ job'.found = job.found
           /\ job'.owed = job.owed /\ job'.holders = job.holders \ {u}
  <2>1. job'.at \in Busy /\ job'.failed = job.failed /\ job'.society = job.society
    BY <1>8, TellHolderIs DEF Busy
  <2>2. /\ TermsHold' /\ NewMarks' /\ PassedTold' /\ ToTell' = ToTell /\ Checked' = Checked
        /\ job'.society \notin job'.left
    BY <1>1, <1>4, <1>8, <2>1, CheckGoesOn
  <2>3. \A t \in ToTell : (\E n \in job.owed : dueOn[t] = today + n) \/ IsTold(t)'
    BY <1>1, <1>4, <1>5, StaysDue DEF CheckHolds
  <2>4. CheckHolds'
    BY <1>1, <1>6, <1>8, <2>1, <2>2, <2>3 DEF CheckHolds
  <2> QED BY <2>2, <2>4 DEF RunInv
<1> QED BY <1>7, <1>8, TellHolderIs

LEMMA MarkTrainingsRuns == ASSUME DeadlinesInv, RunInv, MarkTrainings PROVE RunInv'
<1>1. /\ job.at = "mark" /\ job.at \in Busy /\ UNCHANGED <<today, dueOn, notices>>
      /\ reminded' = reminded \cup {f.thing : f \in {g \in job.found : dueOn[g.thing] # Removed}}
      /\ job' = DoneWith /\ CheckHolds /\ job \in JobRecords
      /\ job.check \in 1..5 /\ Checked = "training"
  BY DEF MarkTrainings, Busy, RunInv, DeadlinesInv, DeadlinesTypes, JobRecords, JobOK
<1>2. RunGoesOn
  BY <1>1, DoneWithIs DEF RunGoesOn
<1>3. \A t \in ToTell : t \in Things /\ IsTold(t)
  BY <1>1 DEF CheckHolds, ToTell, Untouched
<1>4. \A t \in ToTell : IsTold(t)'
  BY <1>2, <1>3, StaysDue
<1>5. job.check = 4
  BY <1>1, ChecksAre DEF Checked
<1>6. \A t \in Untouched : t \in reminded' \ reminded => SocietyOf[t] = job.society
  BY <1>1 DEF CheckHolds
<1> QED BY <1>1, <1>2, <1>4, <1>5, <1>6, ThroughOK

LEMMA CheckFailsRuns == ASSUME DeadlinesInv, RunInv, CheckFails PROVE RunInv'
<1>1. /\ job.at \in Busy /\ UNCHANGED <<today, dueOn, reminded>> /\ notices \subseteq notices'
      /\ TermsHold /\ NewMarks /\ PassedTold
  BY DEF CheckFails, Busy, RunInv, Announce
<1>2. /\ job'.at = "next" /\ job'.failed = job.failed \cup {job.society} /\ RunGoesOn
      /\ job'.society = job.society
  BY <1>1, CheckFailsIs DEF RunGoesOn
<1>3. /\ TermsHold' /\ Untouched' = Untouched /\ Untouched \subseteq Things
      /\ \A t \in Things : IsDue(t)' = IsDue(t) /\ (IsTold(t) => IsTold(t)')
  BY <1>1, <1>2, StaysDue DEF Untouched
<1>4. NewMarks'
  BY <1>1, <1>2, <1>3 DEF NewMarks, RunGoesOn, Busy
<1>5. PassedTold'
  <2>1. \A t \in Things : (Passed(t)' /\ SocietyOf[t] \notin job'.failed)
                             => Passed(t) /\ SocietyOf[t] \notin job.failed
    BY <1>1, <1>2 DEF Passed, RunGoesOn
  <2> QED BY <1>1, <1>3, <2>1 DEF PassedTold
<1>6. CheckHolds'
  BY <1>2 DEF CheckHolds, Busy
<1> QED BY <1>3, <1>4, <1>5, <1>6 DEF RunInv

(* A change of a deadline is a thing the run no longer answers for. *)
LEMMA EditRuns ==
    ASSUME DeadlinesInv, RunInv, SameJob, UNCHANGED <<today, notices>>,
           job.touched \subseteq job'.touched,
           \A t \in Things \ job'.touched :
               dueOn'[t] = dueOn[t] /\ (t \in reminded' => t \in reminded),
           dueOn' \in [Things -> DueDates]
    PROVE  RunInv'
<1> SUFFICES ASSUME job.at # "idle"
             PROVE  RunInv'
  BY DEF RunInv, SameJob
<1>1. /\ TermsHold /\ NewMarks /\ PassedTold /\ CheckHolds
  BY DEF RunInv
<1>2. /\ Untouched' \subseteq Untouched /\ Untouched' \subseteq Things
      /\ \A t \in Untouched' : dueOn'[t] = dueOn[t] /\ (t \in reminded' => t \in reminded)
  BY DEF Untouched
<1>3. /\ job'.at = job.at /\ job'.check = job.check /\ job'.found = job.found
      /\ job'.owed = job.owed /\ job'.holders = job.holders
      /\ job'.society = job.society /\ job'.left = job.left /\ job'.terms = job.terms
      /\ job'.failed = job.failed /\ job'.before = job.before /\ Checked' = Checked
  BY DEF SameJob, Checked
<1>4. \A t \in Untouched' :
         /\ IsDue(t)' = IsDue(t) /\ Passed(t)' = Passed(t) /\ IsTold(t)' = IsTold(t)
         /\ ToldTo(t, "office")' = ToldTo(t, "office")
         /\ ToldTo(t, "holder")' = ToldTo(t, "holder")
  BY <1>2, <1>3 DEF IsDue, Dated, Passed, IsTold, ToldTo
<1>5. \A t \in ToTell' : t \in ToTell /\ t \in Untouched'
  BY <1>2, <1>3, <1>4 DEF ToTell
<1>6. TermsHold'
  BY <1>1, <1>2, <1>3 DEF TermsHold
<1>7. NewMarks'
  BY <1>1, <1>2, <1>3 DEF NewMarks
<1>8. PassedTold'
  BY <1>1, <1>2, <1>3, <1>4 DEF PassedTold
<1>9. CheckHolds'
  BY <1>1, <1>2, <1>3, <1>4, <1>5 DEF CheckHolds
<1> QED BY <1>6, <1>7, <1>8, <1>9 DEF RunInv

LEMMA SavesRun ==
    ASSUME DeadlinesInv, RunInv, UNCHANGED <<today, dueOn, reminded, job, notices>>
    PROVE  RunInv'
<1>1. job \in JobRecords /\ dueOn' \in [Things -> DueDates]
  BY DEF DeadlinesInv, DeadlinesTypes
<1> QED BY <1>1, SameJobOK, EditRuns

LEMMA BecomesRuns ==
    ASSUME DeadlinesInv, RunInv, NEW t \in Things, NEW due \in DueDates, Becomes(t, due),
           UNCHANGED <<today, notices>>, reminded' \subseteq reminded \cup {t}
    PROVE  RunInv'
<1>1. /\ SameJob /\ job'.touched = job.touched \cup {t}
      /\ dueOn' \in [Things -> DueDates]
      /\ \A u \in Things : u # t => dueOn'[u] = dueOn[u]
  BY BecomesIs
<1>2. \A u \in Things \ job'.touched :
         dueOn'[u] = dueOn[u] /\ (u \in reminded' => u \in reminded)
  BY <1>1
<1> QED BY <1>1, <1>2, EditRuns

LEMMA RunStep == ASSUME DeadlinesInv, RunInv, [DeadlinesNext]_deadlinesVars PROVE RunInv'
<1>1. CASE UNCHANGED deadlinesVars
  BY <1>1, SavesRun DEF deadlinesVars
<1>2. CASE RunDailyChecks \/ NextSociety \/ FindDue \/ TellOffice \/ MarkTrainings \/ CheckFails
  BY <1>2, RunStarts, SocietyStarts, FindDueRuns, TellOfficeRuns, MarkTrainingsRuns,
     CheckFailsRuns
<1>3. CASE Restart \/ NextDay
  <2> DEFINE any == NoJob
  <2>1. any \in JobRecords /\ any.at = "idle"
    BY NoJobTyped
  <2>2. job' = any \/ job' = [any EXCEPT !.ran = job.ran]
    BY <1>3 DEF Restart, NextDay
  <2> HIDE DEF any
  <2>3. job'.at = "idle"
    BY <2>1, <2>2 DEF JobRecords
  <2> QED BY <2>3 DEF RunInv
<1>4. CASE ReloadTraining
  BY <1>4, SavesRun DEF ReloadTraining
<1>5. CASE WriteTraining
  <2>1. saving.at \in {"update", "insert"} /\ UNCHANGED <<today, notices>>
        /\ saving.thing \in Things /\ saving.due \in DueDates
    BY <1>5 DEF WriteTraining, DeadlinesInv, DeadlinesTypes, SaveOK, SaveRecords, Trainings,
                DueDates
  <2>2. CASE UNCHANGED <<dueOn, reminded, job>>
    BY <2>1, <2>2, SavesRun
  <2>3. CASE Becomes(saving.thing, saving.due)
             /\ reminded' \subseteq reminded \cup {saving.thing}
    BY <2>1, <2>3, BecomesRuns
  <2> QED BY <1>5, <2>2, <2>3 DEF WriteTraining
<1>6. ASSUME NEW t \in Things,
             TellHolder(t) \/ RemoveTraining(t) \/ ChangeDeadline(t, NoDeadline)
      PROVE  RunInv'
  <2>1. CASE TellHolder(t)
    BY <2>1, TellHolderRuns
  <2>2. CASE RemoveTraining(t) \/ ChangeDeadline(t, NoDeadline)
    BY <2>2, DatesTyped, BecomesRuns DEF RemoveTraining, ChangeDeadline
  <2> QED BY <1>6, <2>1, <2>2
<1>7. ASSUME NEW t \in Things, NEW due \in Dates,
             ChangeDeadline(t, due) \/ CreateTraining(t, due) \/ LoadTraining(t, due)
      PROVE  RunInv'
  <2>1. due \in DueDates
    BY DatesTyped
  <2>2. CASE ChangeDeadline(t, due) \/ CreateTraining(t, due)
    BY <2>1, <2>2, BecomesRuns DEF ChangeDeadline, CreateTraining
  <2>3. CASE LoadTraining(t, due)
    BY <2>3, SavesRun DEF LoadTraining
  <2> QED BY <1>7, <2>2, <2>3
<1> QED BY <1>1, <1>2, <1>3, <1>4, <1>5, <1>6, <1>7 DEF DeadlinesNext

(* A run of the daily checks that ends has told every society of all that   *)
(* fell due and was not changed meanwhile, and the members of what they     *)
(* hold, whatever went wrong in the checks of the other societies.          *)
THEOREM DueIsTold == DeadlinesSpec => []AllDueTold
<1>1. DeadlinesInit => RunInv
  BY NoJobTyped DEF DeadlinesInit, RunInv
<1>2. DeadlinesInv /\ RunInv => AllDueTold
  <2> SUFFICES ASSUME DeadlinesInv, RunInv, job.at = "next", job.left = {},
                      NEW t \in Untouched, IsDue(t), SocietyOf[t] \notin job.failed
               PROVE  IsTold(t)
    BY DEF AllDueTold, Untouched, IsDue, IsTold, ToldTo
  <2>1. Passed(t) /\ PassedTold
    BY DEF Passed, RunInv
  <2> QED BY <2>1 DEF PassedTold
<1> QED BY <1>1, <1>2, RunStep, DeadlinesInvariance, PTL DEF DeadlinesSpec


-----------------------------------------------------------------------------
(* The dates, the marks and the bounds *)

Days == Dates \cup {NoDeadline, Removed}
DatedFinds == [thing : Things, due : Dates]

(* A run looks at societies and deadlines there are, and tells holders only *)
(* of what is held.                                                         *)
JobCalendar(j) ==
    /\ j.at # "idle" => j.terms \in [Things -> Days]
    /\ j.at \in Busy => j.society \in Societies
    /\ j.failed \subseteq Societies /\ j.holders \subseteq Held
    /\ j.before \subseteq Trainings /\ j.found \subseteq DatedFinds

(* Only trainings are ever marked, and every deadline is one that was set.  *)
CalendarInv ==
    /\ today \in 0..LastDay
    /\ dueOn \in [Things -> Days]
    /\ reminded \subseteq Trainings /\ misled \subseteq Trainings
    /\ JobCalendar(job)
    /\ saving.at # "none" => saving.due \in Dates
    /\ notices \subseteq [thing : Things, due : Dates, on : 0..LastDay, to : {"office", "holder"}]
    /\ deadlineBounds \in [edits : 0..MaxEdits, mishaps : 0..MaxMishaps]

LEMMA NoJobCalendar ==
    /\ JobCalendar(NoJob)
    /\ \A ran \in BOOLEAN : JobCalendar([NoJob EXCEPT !.ran = ran])
BY DEF NoJob, JobCalendar, Busy

LEMMA CalendarStarts == DeadlinesInit => CalendarInv
BY DeadlinesAssumption, NoJobCalendar DEF DeadlinesInit, CalendarInv, Days, NoSave

(* The run of a morning, one society and one kind after another. *)
LEMMA DoneWithCalendar ==
    ASSUME job \in JobRecords, JobCalendar(job), job.at \in Busy
    PROVE  JobCalendar(DoneWith)
<1> DEFINE old == job
<1>1. old \in JobRecords /\ JobCalendar(old) /\ old.at \in Busy
  OBVIOUS
<1>2. DoneWith = IF old.check = 5 THEN [old EXCEPT !.at = "next"]
                 ELSE [old EXCEPT !.at = "check", !.check = @ + 1]
  BY DEF DoneWith
<1> HIDE DEF old
<1>3. JobCalendar([old EXCEPT !.at = "next"])
  BY <1>1 DEF JobRecords, JobCalendar, Busy
<1>4. JobCalendar([old EXCEPT !.at = "check", !.check = @ + 1])
  BY <1>1 DEF JobRecords, JobCalendar, Busy
<1> QED BY <1>2, <1>3, <1>4

LEMMA NextMessageCalendar ==
    ASSUME job \in JobRecords, JobCalendar(job), job.at \in Busy
    PROVE  JobCalendar(NextMessage)
<1> DEFINE old == job
           rest == old.owed \ {Latest(old.owed)}
           new == [old EXCEPT !.at = "send", !.owed = rest, !.holders = {}]
<1>1. old \in JobRecords /\ JobCalendar(old) /\ old.at \in Busy
  OBVIOUS
<1>2. NextMessage = DoneWith \/ NextMessage = new
  BY DEF NextMessage
<1> HIDE DEF old, rest
<1>3. JobCalendar(new)
  BY <1>1 DEF JobRecords, JobCalendar, Busy
<1> QED BY <1>2, <1>3, DoneWithCalendar

LEMMA RunDailyChecksCalendar ==
    ASSUME CalendarInv, RunDailyChecks PROVE JobCalendar(job')
<1> DEFINE new == [NoJob EXCEPT !.at = "next", !.ran = TRUE, !.left = Societies,
                                !.terms = dueOn, !.before = reminded]
<1>1. job' = new /\ dueOn \in [Things -> Days] /\ reminded \subseteq Trainings
  BY DEF RunDailyChecks, CalendarInv
<1>2. new.at = "next" /\ new.terms = dueOn /\ new.before = reminded /\ new.failed = {}
      /\ new.holders = {} /\ new.found = {}
  BY DEF NoJob
<1> HIDE DEF new
<1> QED BY <1>1, <1>2 DEF JobCalendar, Busy

LEMMA NextSocietyCalendar ==
    ASSUME DeadlinesInv, CalendarInv, NextSociety PROVE JobCalendar(job')
<1> DEFINE old == job
<1>1. old \in JobRecords /\ JobCalendar(old) /\ old.at = "next" /\ old.left \subseteq Societies
  BY DEF NextSociety, DeadlinesInv, DeadlinesTypes, CalendarInv, JobRecords
<1>2. CASE job' = [NoJob EXCEPT !.ran = TRUE]
  BY <1>2, NoJobCalendar
<1>3. ASSUME NEW s \in old.left,
             job' = [old EXCEPT !.at = "check", !.check = 1, !.society = s, !.left = @ \ {s}]
      PROVE  JobCalendar(job')
  <2> HIDE DEF old
  <2> QED BY <1>1, <1>3 DEF JobRecords, JobCalendar, Busy
<1> QED BY <1>2, <1>3 DEF NextSociety

LEMMA FoundCalendar ==
    ASSUME CalendarInv, job.at = "check"
    PROVE  Found \subseteq DatedFinds
<1>1. job.terms \in [Things -> Days] /\ dueOn \in [Things -> Days]
  BY DEF CalendarInv, JobCalendar
<1>2. \A t \in Things : /\ dueOn[t] \in Nat => dueOn[t] \in Dates
                        /\ job.terms[t] \in Nat => job.terms[t] \in Dates
  BY <1>1, DeadlinesAssumption DEF Days
<1> QED BY <1>2 DEF Found, DatedFinds, Of

LEMMA FindDueCalendar ==
    ASSUME DeadlinesInv, CalendarInv, FindDue PROVE JobCalendar(job')
<1> DEFINE old == job
           found == Found
           owed == Owed(Found)
<1>1. old \in JobRecords /\ JobCalendar(old) /\ old.at = "check" /\ old.at \in Busy
      /\ found \subseteq DatedFinds
  BY FoundCalendar DEF FindDue, DeadlinesInv, DeadlinesTypes, CalendarInv, Busy
<1>2. job' = DoneWith \/ job' = [old EXCEPT !.at = "send", !.found = found, !.owed = owed]
  BY DEF FindDue
<1>3. JobCalendar(DoneWith)
  BY <1>1, DoneWithCalendar
<1> HIDE DEF old, found, owed
<1>4. JobCalendar([old EXCEPT !.at = "send", !.found = found, !.owed = owed])
  BY <1>1 DEF JobRecords, JobCalendar, Busy
<1> QED BY <1>2, <1>3, <1>4

LEMMA TellOfficeCalendar ==
    ASSUME DeadlinesInv, CalendarInv, TellOffice PROVE JobCalendar(job')
<1> DEFINE old == job
           holders == TellsOffice
<1>1. old \in JobRecords /\ JobCalendar(old) /\ old.at \in Busy /\ holders \subseteq Held
  BY DEF TellOffice, DeadlinesInv, DeadlinesTypes, CalendarInv, Busy, TellsOffice
<1>2. \/ job' = NextMessage
      \/ job' = [old EXCEPT !.at = "mark"]
      \/ job' = [old EXCEPT !.at = "holders", !.holders = holders]
  BY DEF TellOffice, TellsOffice
<1>3. JobCalendar(NextMessage)
  BY <1>1, NextMessageCalendar
<1> HIDE DEF old, holders
<1>4. JobCalendar([old EXCEPT !.at = "mark"])
  BY <1>1 DEF JobRecords, JobCalendar, Busy
<1>5. JobCalendar([old EXCEPT !.at = "holders", !.holders = holders])
  BY <1>1 DEF JobRecords, JobCalendar, Busy
<1> QED BY <1>2, <1>3, <1>4, <1>5

LEMMA TellHolderCalendar ==
    ASSUME DeadlinesInv, CalendarInv, NEW t \in Things, TellHolder(t) PROVE JobCalendar(job')
<1> DEFINE old == job
<1>1. old \in JobRecords /\ JobCalendar(old) /\ old.at \in Busy
  BY DEF TellHolder, DeadlinesInv, DeadlinesTypes, CalendarInv, Busy
<1>2. job' = NextMessage \/ job' = [old EXCEPT !.holders = @ \ {t}]
  BY DEF TellHolder
<1>3. JobCalendar(NextMessage)
  BY <1>1, NextMessageCalendar
<1> HIDE DEF old
<1>4. JobCalendar([old EXCEPT !.holders = @ \ {t}])
  BY <1>1 DEF JobRecords, JobCalendar, Busy
<1> QED BY <1>2, <1>3, <1>4

LEMMA CheckFailsCalendar ==
    ASSUME DeadlinesInv, CalendarInv, CheckFails PROVE JobCalendar(job')
<1> DEFINE old == job
<1>1. old \in JobRecords /\ JobCalendar(old) /\ old.at \in Busy
      /\ job' = [old EXCEPT !.at = "next", !.failed = @ \cup {old.society}]
  BY DEF CheckFails, DeadlinesInv, DeadlinesTypes, CalendarInv, Busy
<1> HIDE DEF old
<1> QED BY <1>1 DEF JobRecords, JobCalendar, Busy

LEMMA TouchedCalendar ==
    ASSUME DeadlinesInv, CalendarInv, NEW t \in Things, NEW due \in Days, Becomes(t, due)
    PROVE  JobCalendar(job') /\ dueOn' \in [Things -> Days]
<1>1. due \in DueDates
  BY DatesTyped DEF Days, DueDates
<1>2. SameJob /\ dueOn' = [dueOn EXCEPT ![t] = due]
  BY <1>1, BecomesIs DEF Becomes
<1>3. JobCalendar(job')
  BY <1>2 DEF CalendarInv, JobCalendar, SameJob
<1> QED BY <1>2, <1>3 DEF CalendarInv

(* What is announced, and what a broken-off run leaves unmarked. *)
LEMMA AnnouncedCalendar ==
    ASSUME DeadlinesInv, CalendarInv, job.at \in {"send", "holders"},
           NEW items \in SUBSET ThisTime, NEW to \in {"office", "holder"}, Announce(items, to)
    PROVE  notices' \subseteq [thing : Things, due : Dates, on : 0..LastDay, to : {"office", "holder"}]
<1>1. items \subseteq DatedFinds
  BY ThisTimeIs DEF CalendarInv, JobCalendar
<1>2. \A f \in items : f.thing \in Things /\ f.due \in Dates
  BY <1>1 DEF DatedFinds
<1> QED BY <1>2 DEF Announce, CalendarInv

LEMMA UnmarkedAreTrainings ==
    ASSUME DeadlinesInv PROVE Unmarked \subseteq Trainings
<1> SUFFICES ASSUME NEW f \in job.found, job.at \in {"send", "mark"}, Checked = "training"
             PROVE  f.thing \in Trainings
  BY DEF Unmarked
<1>1. job.found \subseteq Finds /\ KindOf[f.thing] = "training"
  BY DEF DeadlinesInv, DeadlinesTypes, JobRecords, JobOK
<1> QED BY <1>1 DEF Finds, Trainings

LEMMA CalendarStep ==
    ASSUME DeadlinesInv, CalendarInv, [DeadlinesNext]_deadlinesVars
    PROVE  CalendarInv'
<1>0. /\ today \in 0..LastDay /\ LastDay \in Nat /\ job \in JobRecords /\ saving \in SaveRecords
      /\ deadlineBounds.edits \in Nat /\ deadlineBounds.mishaps \in Nat
      /\ MaxEdits \in Nat /\ MaxMishaps \in Nat
  BY DeadlinesAssumption DEF CalendarInv, DeadlinesInv, DeadlinesTypes
<1>1. CASE UNCHANGED deadlinesVars
  BY <1>1 DEF deadlinesVars, CalendarInv, JobCalendar
<1>2. CASE RunDailyChecks \/ NextSociety \/ FindDue
  <2>1. JobCalendar(job')
    BY <1>2, RunDailyChecksCalendar, NextSocietyCalendar, FindDueCalendar
  <2>2. UNCHANGED <<today, dueOn, reminded, saving, notices, misled, deadlineBounds>>
    BY <1>2 DEF RunDailyChecks, NextSociety, FindDue
  <2> QED BY <2>1, <2>2 DEF CalendarInv, JobCalendar
<1>3. CASE TellOffice
  <2>1. JobCalendar(job')
    BY <1>3, TellOfficeCalendar
  <2>2. notices' \subseteq [thing : Things, due : Dates, on : 0..LastDay, to : {"office", "holder"}]
    BY <1>3, AnnouncedCalendar DEF TellOffice
  <2> QED BY <1>3, <2>1, <2>2 DEF TellOffice, CalendarInv, JobCalendar
<1>4. ASSUME NEW t \in Things, TellHolder(t) PROVE CalendarInv'
  <2>1. JobCalendar(job')
    BY <1>4, TellHolderCalendar
  <2>2. {f \in ThisTime : f.thing = t} \in SUBSET ThisTime
    OBVIOUS
  <2>3. notices' \subseteq [thing : Things, due : Dates, on : 0..LastDay, to : {"office", "holder"}]
    BY <1>4, <2>2, AnnouncedCalendar DEF TellHolder
  <2> QED BY <1>4, <2>1, <2>3 DEF TellHolder, CalendarInv, JobCalendar
<1>5. CASE MarkTrainings
  <2>1. JobCalendar(job')
    BY <1>0, <1>5, DoneWithCalendar DEF MarkTrainings, CalendarInv, Busy
  <2>2. {f.thing : f \in job.found} \subseteq Trainings
    BY <1>5, UnmarkedAreTrainings DEF MarkTrainings, Unmarked, DeadlinesInv, JobOK
  <2> QED BY <1>5, <2>1, <2>2 DEF MarkTrainings, CalendarInv, JobCalendar
<1>6. Mishap => deadlineBounds' \in [edits : 0..MaxEdits, mishaps : 0..MaxMishaps]
  BY <1>0 DEF Mishap, CalendarInv
<1>7. CASE CheckFails
  <2>1. JobCalendar(job')
    BY <1>7, CheckFailsCalendar
  <2>2. notices' \subseteq [thing : Things, due : Dates, on : 0..LastDay, to : {"office", "holder"}]
    BY <1>7, AnnouncedCalendar DEF CheckFails, CalendarInv
  <2> QED BY <1>6, <1>7, <2>1, <2>2, UnmarkedAreTrainings DEF CheckFails, CalendarInv, JobCalendar
<1>8. CASE Restart
  <2>1. JobCalendar(job') /\ saving'.at = "none"
    BY <1>0, <1>8, NoJobCalendar, NoSaveTyped DEF Restart, JobRecords
  <2> QED BY <1>6, <1>8, <2>1, UnmarkedAreTrainings DEF Restart, CalendarInv
<1>9. CASE NextDay
  <2>1. JobCalendar(job') /\ today' \in 0..LastDay
    BY <1>0, <1>9, NoJobCalendar DEF NextDay
  <2> QED BY <1>9, <2>1 DEF NextDay, CalendarInv
<1>10. Edit => deadlineBounds' \in [edits : 0..MaxEdits, mishaps : 0..MaxMishaps]
  BY <1>0 DEF Edit, CalendarInv
<1>11. ASSUME NEW t \in Things, NEW due \in Dates \cup {NoDeadline},
              ChangeDeadline(t, due) \/ CreateTraining(t, due) \/ RemoveTraining(t)
       PROVE  CalendarInv'
  <2>1. PICK day \in Days : Becomes(t, day)
    BY <1>11 DEF ChangeDeadline, CreateTraining, RemoveTraining, Days
  <2>2. JobCalendar(job') /\ dueOn' \in [Things -> Days]
    BY <2>1, TouchedCalendar
  <2> QED BY <1>10, <1>11, <2>2 DEF ChangeDeadline, CreateTraining, RemoveTraining, CalendarInv
<1>12. ASSUME NEW t \in Things, NEW due \in Dates, LoadTraining(t, due) PROVE CalendarInv'
  <2> DEFINE flag == t \in reminded
  <2>1. [NoSave EXCEPT !.at = "loaded", !.thing = t, !.due = due, !.flag = flag].due = due
    BY DEF NoSave
  <2> QED BY <1>10, <1>12, <2>1 DEF LoadTraining, CalendarInv, JobCalendar
<1>13. CASE ReloadTraining
  <2> DEFINE differs == saving.flag # (saving.thing \in reminded)
  <2>1. /\ [saving EXCEPT !.at = "update", !.marks = differs].due = saving.due
        /\ [saving EXCEPT !.at = "insert", !.marks = TRUE].due = saving.due
    BY <1>0 DEF SaveRecords
  <2> QED BY <1>13, <2>1 DEF ReloadTraining, CalendarInv, JobCalendar
<1>14. CASE WriteTraining
  <2>1. /\ saving.thing \in Trainings /\ saving.thing \in Things /\ saving.due \in Days
        /\ saving'.at = "none" /\ UNCHANGED <<today, notices, deadlineBounds>>
    BY <1>14, NoSaveTyped DEF WriteTraining, CalendarInv, DeadlinesInv, SaveOK, Trainings, Days
  <2>2. CASE UNCHANGED <<dueOn, reminded, job, misled>>
    BY <2>1, <2>2 DEF CalendarInv, JobCalendar
  <2>3. CASE Becomes(saving.thing, saving.due)
    <3>1. JobCalendar(job') /\ dueOn' \in [Things -> Days]
      BY <2>1, <2>3, TouchedCalendar
    <3>2. reminded' \subseteq Trainings /\ misled' \subseteq Trainings
      BY <1>14, <2>1 DEF WriteTraining, CalendarInv
    <3> QED BY <2>1, <3>1, <3>2 DEF CalendarInv
  <2> QED BY <1>14, <2>2, <2>3 DEF WriteTraining
<1> QED BY <1>1, <1>2, <1>3, <1>4, <1>5, <1>7, <1>8, <1>9, <1>11, <1>12, <1>13, <1>14
        DEF DeadlinesNext

(* Every variable of the daily checks keeps its type: what is announced is  *)
(* a deadline that was set, and only trainings are marked (reminder_sent).  *)
THEOREM DeadlinesTypeCorrect == DeadlinesSpec => []DeadlinesTypeOK
<1>1. DeadlinesInv /\ CalendarInv => DeadlinesTypeOK
  BY DEF DeadlinesInv, DeadlinesTypes, JobRecords, SaveRecords, Busy, CalendarInv, JobCalendar,
         Days, DatedFinds, DeadlinesTypeOK
<1> QED BY <1>1, CalendarStarts, CalendarStep, DeadlinesInvariance, PTL DEF DeadlinesSpec

=============================================================================
