---------------------------- MODULE EquipmentProofs ----------------------------
(***************************************************************************)
(* For any number of pieces, requests, edits and restarts: the assignments *)
(* implement Custody.  The index of open assignments is asked in the step  *)
(* that inserts one, so no invariant on overlaps is needed; what is needed *)
(* is what a request holds at each place, that it has not inserted its     *)
(* assignment before, and that the assignment it closes is there.  That    *)
(* the record of a return stays needs HistoryInv, that a piece is found by *)
(* its marks MarksInv and TagsInv, further below.                          *)
(***************************************************************************)
EXTENDS Equipment, TLAPS

\* What request r holds, by the place where it is.
RequestOK(r) ==
  /\ pc[r] \in {"new", "open", "give"} => assignment[r] = None
  /\ pc[r] \notin {"new", "done"} =>
       task[r] \in Task /\ task[r].piece \in Pieces /\ mem[r] \in Row
  /\ pc[r] \in {"tag", "reload", "update", "open", "give", "take"} =>
       task[r].op # "create" /\ piece[task[r].piece] # None
  /\ pc[r] = "number" /\ task[r].op # "create" => piece[task[r].piece] # None
  /\ pc[r] \in {"open", "give"} /\ task[r].op = "issue" => task[r].member \in Members
  /\ pc[r] = "give" => task[r].op = "issue"
  /\ pc[r] = "take" => open[r] \in Requests /\ assignment[open[r]] # None

ControlInv == \A r \in Requests : RequestOK(r)

IInv == TypeOK /\ ControlInv

\* A step of request r leaves the other requests where they are ...
OnlyOf(r) ==
  \A s \in Requests \ {r} :
    /\ pc'[s] = pc[s] /\ task'[s] = task[s] /\ mem'[s] = mem[s] /\ open'[s] = open[s]
    /\ assignment[s] = None => assignment'[s] = None

\* ... and no row disappears.
RowsStay ==
  /\ \A p \in Pieces : piece[p] # None => piece'[p] # None
  /\ \A a \in Requests : assignment[a] # None => assignment'[a] # None

LEMMA ControlKept ==
  ASSUME IInv, NEW r \in Requests, OnlyOf(r), RowsStay, RequestOK(r)'
  PROVE  ControlInv'
<1> SUFFICES ASSUME NEW s \in Requests, s # r PROVE RequestOK(s)'
  BY DEF ControlInv
<1>1. RequestOK(s)
  BY DEF IInv, ControlInv
<1> QED BY <1>1 DEF RequestOK, OnlyOf, RowsStay

\* The parts of TypeOK that concern requests.
ProcessTypes ==
  /\ pc \in [Requests -> PCs]
  /\ task \in [Requests -> Task \union {NoTask}]
  /\ mem \in [Requests -> Row \union {None}]
  /\ open \in [Requests -> Requests \union {None}]
  /\ dirty \in [Requests -> SUBSET Columns]

\* The rows a request makes are rows.
LEMMA RowTypes ==
  ASSUME NEW row \in Row
  PROVE  /\ \A edit \in Edits : Edited(row, edit) \in Row
         /\ [row EXCEPT !.active = FALSE] \in Row
         /\ \A entity \in Row, columns \in SUBSET Columns :
              Updated(row, entity, columns) \in Row
<1>1. ASSUME NEW edit \in Edits PROVE Edited(row, edit) \in Row
  <2>1. edit \in Edit
    BY EquipmentAssumption
  <2>2. edit.tag \notin {Keep, None} => Normalised(edit.tag) \in Uid
    BY <2>1, EquipmentAssumption DEF Edit, Uid, Normalised
  <2>3. Merged(row, edit) \in Row
    BY <2>1, <2>2 DEF Merged, Row, Edit
  <2>4. Renumbers(row, edit) => edit.number \in Numbers
    BY <2>1 DEF Renumbers, Edit
  <2> HIDE DEF Merged
  <2> QED BY <2>3, <2>4 DEF Edited, Row
<1>2. [row EXCEPT !.active = FALSE] \in Row
  BY DEF Row
<1>3. ASSUME NEW entity \in Row, NEW columns \in SUBSET Columns
      PROVE  Updated(row, entity, columns) \in Row
  <2>1. /\ entity.active \in BOOLEAN /\ row.active \in BOOLEAN
        /\ {entity.number, entity.qr, row.number, row.qr} \subseteq Numbers \union {None}
        /\ {entity.tag, row.tag} \subseteq Uid \union {None}
    BY DEF Row
  <2> QED BY <2>1 DEF Row, Updated
<1> QED BY <1>1, <1>2, <1>3

LEMMA Nothing == None \notin Row /\ None \notin Assignment /\ None \notin Pieces
                 /\ None \notin Members /\ None \notin Requests
  BY NoneAssumption

LEMMA InitOK == Init => IInv
<1> SUFFICES ASSUME Init PROVE IInv
  OBVIOUS
<1>1. piece \in [Pieces -> Row \union {None}]
  BY DEF Init, NewRow
<1>2. crashes \in Nat /\ contended \subseteq Pieces \union Requests
  BY DEF Init
<1>3. ProcessTypes
  BY DEF Init, ProcessTypes, PCs
<1>4. TypeOK
  BY <1>1, <1>2, <1>3 DEF Init, TypeOK, ProcessTypes
<1>5. ControlInv
  BY DEF Init, ControlInv, RequestOK
<1> QED BY <1>4, <1>5 DEF IInv

-----------------------------------------------------------------------------
(* Steps that several actions share *)

LEMMA FinishOK ==
  ASSUME IInv, NEW r \in Requests, Finish(r)
  PROVE  /\ ProcessTypes'
         /\ pc'[r] = "done" /\ RequestOK(r)'
         /\ (\A s \in Requests \ {r} : assignment[s] = None => assignment'[s] = None) => OnlyOf(r)
<1>1. ProcessTypes' /\ pc'[r] = "done"
  BY DEF IInv, TypeOK, Finish, GoTo, ProcessTypes, PCs
<1>2. RequestOK(r)'
  BY <1>1 DEF RequestOK
<1>3. (\A s \in Requests \ {r} : assignment[s] = None => assignment'[s] = None) => OnlyOf(r)
  BY DEF IInv, TypeOK, Finish, GoTo, OnlyOf
<1> QED BY <1>1, <1>2, <1>3

\* A step that moves r only and changes no table.
LEMMA MoveOK ==
  ASSUME IInv, NEW r \in Requests, NEW place \in PCs, GoTo(r, place),
         UNCHANGED <<piece, assignment, task, mem, open>>
  PROVE  /\ pc' \in [Requests -> PCs] /\ pc'[r] = place
         /\ OnlyOf(r) /\ RowsStay
  BY DEF IInv, TypeOK, GoTo, OnlyOf, RowsStay

LEMMA LoadOK ==
  ASSUME IInv, NEW r \in Requests, NEW p \in Pieces, NEW t \in Task, NEW entity \in Row,
         NEW place \in PCs \ {"new", "done", "insert", "give", "take"},
         Load(r, p, t, entity, place), pc[r] = "new", piece[p] # None,
         UNCHANGED <<piece, assignment, crashes>>, t.op # "create", t.piece = p,
         t.op = "issue" => t.member \in Members
  PROVE  IInv'
<1>1. ProcessTypes'
  BY DEF IInv, TypeOK, Load, GoTo, ProcessTypes
<1>2. contended' \in SUBSET (Pieces \union Requests)
  BY DEF IInv, TypeOK, Load
<1>3. OnlyOf(r) /\ RowsStay
  BY DEF IInv, TypeOK, Load, GoTo, OnlyOf, RowsStay
<1>4. pc'[r] = place /\ task'[r] = t /\ mem'[r] = entity
  BY DEF IInv, TypeOK, Load, GoTo
<1>5. RequestOK(r)'
  <2>1. assignment[r] = None
    BY DEF IInv, ControlInv, RequestOK
  <2> QED BY <1>4, <2>1 DEF RequestOK
<1>6. TypeOK'
  BY <1>1, <1>2 DEF IInv, TypeOK, ProcessTypes
<1> QED BY <1>3, <1>5, <1>6, ControlKept DEF IInv

\* The reply ends a request that has changed neither table.
LEMMA ReplyOK ==
  ASSUME IInv, NEW r \in Requests, Finish(r),
         UNCHANGED <<piece, assignment, crashes, contended>>
  PROVE  IInv'
<1>1. ProcessTypes' /\ RequestOK(r)' /\ OnlyOf(r) /\ RowsStay
  BY FinishOK DEF RowsStay
<1>2. TypeOK'
  BY <1>1 DEF IInv, TypeOK, ProcessTypes
<1> QED BY <1>1, <1>2, ControlKept DEF IInv

-----------------------------------------------------------------------------
(* create, update, deactivate and the save *)

LEMMA CreateOK ==
  ASSUME IInv, NEW r \in Requests, Create(r)
  PROVE  IInv'
<1>1. PICK p \in Pieces :
        task' = [task EXCEPT ![r] = [NoTask EXCEPT !.op = "create", !.piece = p]]
  BY DEF Create
<1>2. PICK row \in NewRow :
        /\ mem' = [mem EXCEPT ![r] = row]
        /\ GoTo(r, IF row.number = None THEN "insert" ELSE "number")
  BY DEF Create
<1>3. UNCHANGED <<piece, assignment, open, dirty, crashes, contended>>
  BY DEF Create
<1> DEFINE t == [NoTask EXCEPT !.op = "create", !.piece = p]
           place == IF row.number = None THEN "insert" ELSE "number"
<1>4. t \in Task /\ t.piece = p /\ t.op = "create"
  BY DEF Task, NoTask, AllOps
<1>5. row \in Row /\ place \in PCs /\ place \in {"insert", "number"}
  BY DEF NewRow, PCs
<1>6. task' = [task EXCEPT ![r] = t] /\ pc' = [pc EXCEPT ![r] = place]
  BY <1>1, <1>2 DEF GoTo
<1> HIDE DEF t, place
<1>7. TypeOK'
  BY <1>2, <1>3, <1>4, <1>5, <1>6 DEF IInv, TypeOK
<1>8. OnlyOf(r) /\ RowsStay
  BY <1>2, <1>3, <1>6 DEF IInv, TypeOK, OnlyOf, RowsStay
<1>9. pc'[r] = place /\ task'[r] = t /\ mem'[r] = row
  BY <1>2, <1>6 DEF IInv, TypeOK
<1>10. RequestOK(r)'
  BY <1>4, <1>5, <1>9 DEF RequestOK
<1> QED BY <1>7, <1>8, <1>10, ControlKept DEF IInv

LEMMA EditOK ==
  ASSUME IInv, NEW r \in Requests, EditPiece(r) \/ Deactivate(r)
  PROVE  IInv'
<1>1. CASE EditPiece(r)
  <2>1. PICK p \in Pieces, edit \in Edits :
          /\ piece[p] # None
          /\ LET tagged == edit.tag \notin {Keep, None}
             IN  Load(r, p, [NoTask EXCEPT !.op = "update", !.piece = p, !.tagged = tagged],
                      Edited(piece[p], edit),
                      IF Renumbers(piece[p], edit) THEN "number"
                      ELSE IF tagged THEN "tag" ELSE "reload")
    BY <1>1 DEF EditPiece
  <2> DEFINE tagged == edit.tag \notin {Keep, None}
             t == [NoTask EXCEPT !.op = "update", !.piece = p, !.tagged = tagged]
             place == IF Renumbers(piece[p], edit) THEN "number"
                      ELSE IF tagged THEN "tag" ELSE "reload"
  <2>2. t \in Task /\ t.piece = p /\ t.op = "update"
    BY DEF Task, NoTask, AllOps
  <2>3. Edited(piece[p], edit) \in Row
    BY <2>1, RowTypes DEF IInv, TypeOK
  <2>4. place \in PCs \ {"new", "done", "insert", "give", "take"}
    BY DEF PCs
  <2>5. Load(r, p, t, Edited(piece[p], edit), place)
    BY <2>1
  <2>6. pc[r] = "new" /\ UNCHANGED <<piece, assignment, crashes>>
    BY <1>1 DEF EditPiece, CanStart
  <2> HIDE DEF t, place
  <2> QED BY <2>1, <2>2, <2>3, <2>4, <2>5, <2>6, LoadOK
<1>2. CASE Deactivate(r)
  <2> DEFINE t(p) == [NoTask EXCEPT !.op = "deactivate", !.piece = p]
  <2>1. PICK p \in Pieces :
          piece[p] # None /\ Load(r, p, t(p), [piece[p] EXCEPT !.active = FALSE], "reload")
    BY <1>2 DEF Deactivate
  <2>2. t(p) \in Task /\ t(p).piece = p /\ t(p).op = "deactivate"
    BY DEF Task, NoTask, AllOps
  <2>3. [piece[p] EXCEPT !.active = FALSE] \in Row
    BY <2>1, RowTypes DEF IInv, TypeOK
  <2>4. pc[r] = "new" /\ UNCHANGED <<piece, assignment, crashes>>
    BY <1>2 DEF Deactivate, CanStart
  <2> HIDE DEF t
  <2> QED BY <2>1, <2>2, <2>3, <2>4, LoadOK DEF PCs
<1> QED BY <1>1, <1>2

LEMMA CheckOK ==
  ASSUME IInv, NEW r \in Requests, CheckNumber(r) \/ CheckTag(r) \/ CheckOpen(r)
  PROVE  IInv'
<1>0. UNCHANGED <<piece, assignment, crashes, contended>> /\ RequestOK(r)
  BY DEF CheckNumber, CheckTag, CheckOpen, IInv, ControlInv
<1>1. CASE Finish(r)
  BY <1>0, <1>1, ReplyOK
<1>2. ASSUME NEW place \in {"insert", "tag", "reload", "give"}, GoTo(r, place),
             UNCHANGED <<task, mem, open, dirty>>, (RequestOK(r) /\ pc'[r] = place) => RequestOK(r)'
      PROVE  IInv'
  <2>1. place \in PCs
    BY DEF PCs
  <2>2. pc' \in [Requests -> PCs] /\ pc'[r] = place /\ OnlyOf(r) /\ RowsStay
    BY <1>0, <1>2, <2>1, MoveOK
  <2>3. TypeOK'
    BY <1>0, <1>2, <2>2 DEF IInv, TypeOK
  <2> QED BY <1>0, <1>2, <2>2, <2>3, ControlKept DEF IInv
<1>3. CASE CheckNumber(r) /\ ~Finish(r)
  <2> DEFINE place == IF task[r].op = "create" THEN "insert"
                      ELSE IF task[r].tagged THEN "tag" ELSE "reload"
  <2>1. pc[r] = "number" /\ GoTo(r, place) /\ UNCHANGED <<task, mem, open, dirty>>
    BY <1>3 DEF CheckNumber
  <2>2. (RequestOK(r) /\ pc'[r] = place) => RequestOK(r)'
    BY <1>0, <2>1 DEF RequestOK
  <2> QED BY <1>2, <2>1, <2>2
<1>4. CASE CheckTag(r) /\ ~Finish(r)
  <2>1. pc[r] = "tag" /\ GoTo(r, "reload") /\ UNCHANGED <<task, mem, open, dirty>>
    BY <1>4 DEF CheckTag
  <2>2. (RequestOK(r) /\ pc'[r] = "reload") => RequestOK(r)'
    BY <1>0, <2>1 DEF RequestOK
  <2> QED BY <1>2, <2>1, <2>2
<1>5. CASE CheckOpen(r) /\ ~Finish(r)
  <2>1. /\ pc[r] = "open" /\ task[r].op = "issue"
        /\ GoTo(r, "give") /\ UNCHANGED <<task, mem, open, dirty>>
    BY <1>5 DEF CheckOpen
  <2>2. (RequestOK(r) /\ pc'[r] = "give") => RequestOK(r)'
    BY <1>0, <2>1 DEF RequestOK
  <2> QED BY <1>2, <2>1, <2>2
<1> QED BY <1>1, <1>3, <1>4, <1>5

LEMMA InsertOK ==
  ASSUME IInv, NEW r \in Requests, Insert(r) \/ Update(r)
  PROVE  IInv'
<1>0. RequestOK(r) /\ pc[r] \in {"insert", "update"}
  BY DEF Insert, Update, IInv, ControlInv
<1>1. /\ Finish(r) /\ UNCHANGED <<assignment, crashes, contended>>
      /\ task[r].piece \in Pieces /\ mem[r] \in Row
  BY <1>0 DEF Insert, Update, RequestOK
<1>2. PICK row \in Row : piece' = [piece EXCEPT ![task[r].piece] = row] \/ piece' = piece
  <2>1. CASE Insert(r)
    BY <1>1, <2>1 DEF Insert
  <2>2. CASE Update(r)
    <3>1. piece[task[r].piece] \in Row
      BY <1>0, <1>1, <2>2 DEF Update, RequestOK, IInv, TypeOK
    <3>2. Updated(piece[task[r].piece], mem[r], dirty[r]) \in Row
      BY <1>1, <3>1, RowTypes DEF IInv, TypeOK
    <3> QED BY <2>2, <3>2 DEF Update
  <2> QED BY <2>1, <2>2
<1>3. ProcessTypes' /\ RequestOK(r)' /\ OnlyOf(r)
  BY <1>1, FinishOK
<1>4. piece' \in [Pieces -> Row \union {None}] /\ RowsStay
  BY <1>1, <1>2, Nothing DEF IInv, TypeOK, RowsStay
<1>5. TypeOK'
  BY <1>1, <1>3, <1>4 DEF IInv, TypeOK, ProcessTypes
<1> QED BY <1>3, <1>4, <1>5, ControlKept DEF IInv

LEMMA ReloadOK ==
  ASSUME IInv, NEW r \in Requests, Reload(r)
  PROVE  IInv'
<1>0. /\ pc[r] = "reload" /\ RequestOK(r)
      /\ UNCHANGED <<piece, assignment, crashes, contended>>
  BY DEF Reload, IInv, ControlInv
<1>1. CASE Finish(r)
  BY <1>0, <1>1, ReplyOK
<1>2. CASE ~Finish(r)
  <2> DEFINE differing == {k \in Columns : piece[task[r].piece][k] # mem[r][k]}
  <2>1. /\ dirty' = [dirty EXCEPT ![r] = differing]
        /\ GoTo(r, "update") /\ UNCHANGED <<task, mem, open>>
    BY <1>2 DEF Reload
  <2>2. differing \in SUBSET Columns
    OBVIOUS
  <2> HIDE DEF differing
  <2>3. pc' \in [Requests -> PCs] /\ pc'[r] = "update" /\ OnlyOf(r) /\ RowsStay
    BY <1>0, <2>1, MoveOK DEF PCs
  <2>4. TypeOK'
    BY <1>0, <2>1, <2>2, <2>3 DEF IInv, TypeOK
  <2>5. RequestOK(r)'
    BY <1>0, <2>1, <2>3 DEF RequestOK
  <2> QED BY <2>3, <2>4, <2>5, ControlKept DEF IInv
<1> QED BY <1>1, <1>2

-----------------------------------------------------------------------------
(* issue and returnItem *)

LEMMA StartOK ==
  ASSUME IInv, NEW r \in Requests, Issue(r) \/ Return(r)
  PROVE  IInv'
<1>0. pc[r] = "new" /\ UNCHANGED <<piece, assignment, crashes>>
  BY DEF Issue, Return, CanStart
<1>1. CASE Finish(r) /\ UNCHANGED contended
  BY <1>0, <1>1, ReplyOK
<1>2. CASE Issue(r) /\ ~(Finish(r) /\ UNCHANGED contended)
  <2> DEFINE t(p, m, recorded) == [op |-> "issue", piece |-> p, member |-> m,
                                   tagged |-> FALSE, recorded |-> recorded]
  <2>1. PICK p \in Pieces, m \in Members, recorded \in BOOLEAN :
          piece[p] # None /\ Load(r, p, t(p, m, recorded), piece[p], "open")
    BY <1>2 DEF Issue, Refuse
  <2>2. /\ t(p, m, recorded) \in Task /\ t(p, m, recorded).piece = p
        /\ t(p, m, recorded).op = "issue" /\ t(p, m, recorded).member = m
    BY DEF Task, AllOps
  <2>3. piece[p] \in Row
    BY <2>1 DEF IInv, TypeOK
  <2> HIDE DEF t
  <2> QED BY <1>0, <2>1, <2>2, <2>3, LoadOK DEF PCs
<1>3. CASE Return(r)
  <2> DEFINE t(p, recorded) == [NoTask EXCEPT !.op = "return", !.piece = p, !.recorded = recorded]
  <2>1. PICK p \in Pieces, recorded \in BOOLEAN :
          piece[p] # None /\ Load(r, p, t(p, recorded), piece[p], "open")
    BY <1>3 DEF Return
  <2>2. /\ t(p, recorded) \in Task /\ t(p, recorded).piece = p
        /\ t(p, recorded).op = "return"
    BY DEF Task, NoTask, AllOps
  <2>3. piece[p] \in Row
    BY <2>1 DEF IInv, TypeOK
  <2> HIDE DEF t
  <2> QED BY <1>0, <2>1, <2>2, <2>3, LoadOK DEF PCs
<1> QED BY <1>1, <1>2, <1>3

LEMMA FindOpenOK ==
  ASSUME IInv, NEW r \in Requests, FindOpen(r)
  PROVE  IInv'
<1>0. /\ pc[r] = "open" /\ task[r].op = "return" /\ RequestOK(r)
      /\ UNCHANGED <<piece, assignment, crashes>>
  BY DEF FindOpen, IInv, ControlInv
<1>1. CASE Finish(r) /\ UNCHANGED contended
  BY <1>0, <1>1, ReplyOK
<1>2. CASE ~(Finish(r) /\ UNCHANGED contended)
  <2>1. PICK a \in Found(task[r].piece) :
          /\ open' = [open EXCEPT ![r] = a]
          /\ contended' = IF \E s \in Requests \ {r} : open[s] = a
                          THEN contended \union {a} ELSE contended
    BY <1>2 DEF FindOpen, Refuse
  <2>2. GoTo(r, "take") /\ UNCHANGED <<task, mem, dirty>>
    BY <1>2 DEF FindOpen, Refuse
  <2>3. a \in Requests /\ assignment[a] # None
    BY DEF Found, OpenOf, IsOpen
  <2>4. TypeOK'
    BY <1>0, <2>1, <2>2, <2>3 DEF IInv, TypeOK, GoTo, PCs
  <2>5. OnlyOf(r) /\ RowsStay /\ pc'[r] = "take" /\ open'[r] = a
    BY <1>0, <2>1, <2>2 DEF IInv, TypeOK, GoTo, OnlyOf, RowsStay
  <2>6. RequestOK(r)'
    BY <1>0, <2>2, <2>3, <2>5 DEF RequestOK
  <2> QED BY <2>4, <2>5, <2>6, ControlKept DEF IInv
<1> QED BY <1>1, <1>2

\* What follows the save of an assignment.
LEMMA RecordOK ==
  ASSUME IInv, NEW r \in Requests, RecordCondition(r), pc[r] \in {"give", "take"},
         UNCHANGED <<piece, crashes, contended>>,
         assignment' \in [Requests -> Assignment \union {None}], RowsStay,
         \A s \in Requests \ {r} : assignment[s] = None => assignment'[s] = None
  PROVE  IInv'
<1>0. RequestOK(r)
  BY DEF IInv, ControlInv
<1>1. CASE Finish(r)
  <2>1. ProcessTypes' /\ RequestOK(r)' /\ OnlyOf(r)
    BY <1>1, FinishOK
  <2>2. TypeOK'
    BY <2>1 DEF IInv, TypeOK, ProcessTypes
  <2> QED BY <2>1, <2>2, ControlKept DEF IInv
<1>2. CASE GoTo(r, "reload") /\ UNCHANGED <<task, mem, open, dirty>>
  <2>1. TypeOK'
    BY <1>2 DEF IInv, TypeOK, GoTo, PCs
  <2>2. OnlyOf(r) /\ pc'[r] = "reload"
    BY <1>2 DEF IInv, TypeOK, GoTo, OnlyOf
  <2>3. RequestOK(r)'
    BY <1>0, <1>2, <2>2 DEF RequestOK
  <2> QED BY <2>1, <2>2, <2>3, ControlKept DEF IInv
<1> QED BY <1>1, <1>2 DEF RecordCondition

\* The two steps that change assignments, as steps of Custody see them.
LEMMA GiveStep ==
  ASSUME IInv, NEW r \in Requests, Give(r), Admitted(task[r].piece)
  PROVE  LET new == [piece |-> task[r].piece, member |-> task[r].member, closedBy |-> None]
         IN  /\ new \in Assignment /\ assignment[r] = None
             /\ assignment' = [assignment EXCEPT ![r] = new]
             /\ RecordCondition(r)
<1>1. pc[r] = "give" /\ RequestOK(r)
  BY DEF Give, IInv, ControlInv
<1>2. task[r].piece \in Pieces /\ task[r].member \in Members /\ assignment[r] = None
  BY <1>1 DEF RequestOK
<1> QED BY <1>2 DEF Give, Assignment

LEMMA TakeStep ==
  ASSUME IInv, NEW r \in Requests, Take(r)
  PROVE  LET a == open[r]
             closed == [assignment[a] EXCEPT !.closedBy = r]
         IN  /\ a \in Requests /\ assignment[a] \in Assignment
             /\ closed \in Assignment /\ closed.closedBy = r
             /\ closed.piece = assignment[a].piece /\ closed.member = assignment[a].member
             /\ assignment' = [assignment EXCEPT ![a] = closed]
             /\ RecordCondition(r)
<1>1. pc[r] = "take" /\ RequestOK(r)
  BY DEF Take, IInv, ControlInv
<1>2. open[r] \in Requests /\ assignment[open[r]] \in Assignment
  BY <1>1 DEF RequestOK, IInv, TypeOK
<1>3. assignment' = [assignment EXCEPT ![open[r]] = [assignment[open[r]] EXCEPT !.closedBy = r]]
  BY <1>2 DEF Take, IInv, TypeOK
<1> QED BY <1>2, <1>3 DEF Take, Assignment

LEMMA GiveOK ==
  ASSUME IInv, NEW r \in Requests, Give(r) \/ Take(r)
  PROVE  IInv'
<1>0. pc[r] \in {"give", "take"} /\ UNCHANGED <<piece, crashes, contended>>
  BY DEF Give, Take
<1>1. CASE Give(r) /\ Admitted(task[r].piece)
  <2> DEFINE new == [piece |-> task[r].piece, member |-> task[r].member, closedBy |-> None]
  <2>1. /\ new \in Assignment /\ assignment' = [assignment EXCEPT ![r] = new]
        /\ RecordCondition(r)
    BY <1>1, GiveStep
  <2> HIDE DEF new
  <2>2. /\ assignment' \in [Requests -> Assignment \union {None}] /\ RowsStay
        /\ \A s \in Requests \ {r} : assignment[s] = None => assignment'[s] = None
    BY <1>0, <2>1, Nothing DEF IInv, TypeOK, RowsStay
  <2> QED BY <1>0, <2>1, <2>2, RecordOK
<1>2. CASE Give(r) /\ ~Admitted(task[r].piece)
  BY <1>0, <1>2, ReplyOK DEF Give
<1>3. CASE Take(r)
  <2> DEFINE closed == [assignment[open[r]] EXCEPT !.closedBy = r]
  <2>1. /\ open[r] \in Requests /\ assignment[open[r]] \in Assignment /\ closed \in Assignment
        /\ assignment' = [assignment EXCEPT ![open[r]] = closed]
        /\ RecordCondition(r)
    BY <1>3, TakeStep
  <2> HIDE DEF closed
  <2>2. /\ assignment' \in [Requests -> Assignment \union {None}] /\ RowsStay
        /\ \A s \in Requests \ {r} : assignment[s] = None => assignment'[s] = None
    BY <1>0, <2>1, Nothing DEF IInv, TypeOK, RowsStay
  <2> QED BY <1>0, <2>1, <2>2, RecordOK
<1> QED BY <1>1, <1>2, <1>3

LEMMA CrashOK ==
  ASSUME IInv, Crash
  PROVE  IInv'
<1>1. TypeOK'
  BY DEF IInv, TypeOK, Crash, PCs
<1>2. ASSUME NEW r \in Requests PROVE RequestOK(r)'
  <2>1. RequestOK(r) /\ UNCHANGED <<piece, assignment>>
    BY DEF IInv, ControlInv, Crash
  <2>2. pc'[r] = IF pc[r] = "new" THEN "new" ELSE "done"
    BY DEF Crash
  <2> QED BY <2>1, <2>2 DEF RequestOK
<1> QED BY <1>1, <1>2 DEF IInv, ControlInv

LEMMA StepOK ==
  ASSUME IInv, [Next]_vars
  PROVE  IInv'
<1>1. CASE UNCHANGED vars
  BY <1>1 DEF IInv, TypeOK, ControlInv, RequestOK, vars, processVars
<1>2. CASE \E r \in Requests : Arrive(r) \/ Serve(r)
  BY <1>2, CreateOK, EditOK, CheckOK, InsertOK, ReloadOK, StartOK, FindOpenOK, GiveOK
     DEF Arrive, Serve
<1> QED BY <1>1, <1>2, CrashOK DEF Next

LEMMA Invariance == Spec => []IInv
<1>1. IInv /\ [Next]_vars => IInv'
  BY StepOK
<1> QED BY <1>1, InitOK, PTL DEF Spec

\* Every variable keeps its type, for all bounds.
THEOREM TypeCorrect == Spec => []TypeOK
  BY Invariance, PTL DEF IInv

-----------------------------------------------------------------------------
(* The assignments implement Custody *)

\* A step that leaves the assignments alone is a stutter of Custody.
LEMMA Quiet ==
  ASSUME UNCHANGED assignment
  PROVE  Of' = Of /\ Out' = Out
  BY DEF Of, Out, IsOpen

LEMMA GiveRefines ==
  ASSUME IInv, NEW r \in Requests, Give(r)
  PROVE  [CustodyOf!Next]_<<Of, Out>>
<1>1. CASE ~Admitted(task[r].piece)
  BY <1>1, Quiet DEF Give
<1>2. CASE Admitted(task[r].piece)
  <2> DEFINE p == task[r].piece
             m == task[r].member
             new == [piece |-> p, member |-> m, closedBy |-> None]
  <2>1. /\ new \in Assignment /\ assignment[r] = None
        /\ assignment' = [assignment EXCEPT ![r] = new]
    BY <1>2, GiveStep
  <2>2. new.piece = p /\ new.member = m /\ new.closedBy = None /\ p \in Pieces /\ m \in Members
    BY <2>1 DEF Assignment
  <2>3. new # None
    BY <2>1, Nothing
  <2> HIDE DEF new
  <2>4. Of[r] = None
    BY <2>1 DEF Of
  <2>5. \A b \in Out : Of[b].piece # p
    BY <1>2 DEF Admitted, OpenOf, Out, Of, IsOpen
  <2>6. Of' = [Of EXCEPT ![r] = [piece |-> p, member |-> m]]
    BY <2>1, <2>2, <2>3 DEF Of, IInv, TypeOK
  <2>7. Out' = Out \union {r}
    BY <2>1, <2>2, <2>3 DEF Out, IsOpen, IInv, TypeOK
  <2>8. CustodyOf!Give(r, p, m)
    BY <2>4, <2>5, <2>6, <2>7 DEF CustodyOf!Give
  <2> QED BY <2>2, <2>8 DEF CustodyOf!Next
<1> QED BY <1>1, <1>2

LEMMA TakeRefines ==
  ASSUME IInv, NEW r \in Requests, Take(r)
  PROVE  [CustodyOf!Next]_<<Of, Out>>
<1> DEFINE a == open[r]
           closed == [assignment[a] EXCEPT !.closedBy = r]
<1>1. /\ a \in Requests /\ assignment[a] \in Assignment
      /\ closed \in Assignment /\ closed.closedBy = r
      /\ closed.piece = assignment[a].piece /\ closed.member = assignment[a].member
      /\ assignment' = [assignment EXCEPT ![a] = closed]
  BY TakeStep
<1>2. closed # None /\ assignment[a] # None /\ r # None
  BY <1>1, Nothing
<1> HIDE DEF closed, a
<1>3. assignment'[a] = closed /\ \A b \in Requests \ {a} : assignment'[b] = assignment[b]
  BY <1>1 DEF IInv, TypeOK
<1>4. Of' = Of
  <2>1. ASSUME NEW b \in Requests
        PROVE  (IF assignment'[b] = None THEN None
                ELSE [piece |-> assignment'[b].piece, member |-> assignment'[b].member])
               = (IF assignment[b] = None THEN None
                  ELSE [piece |-> assignment[b].piece, member |-> assignment[b].member])
    BY <1>1, <1>2, <1>3
  <2> QED BY <2>1 DEF Of
<1>5. Out' = Out \ {a}
  BY <1>1, <1>2, <1>3 DEF Out, IsOpen
<1>6. CASE a \in Out
  BY <1>1, <1>4, <1>5, <1>6 DEF CustodyOf!Next, CustodyOf!TakeBack
<1>7. CASE a \notin Out
  BY <1>4, <1>5, <1>7
<1> QED BY <1>6, <1>7

LEMMA StepRefines ==
  ASSUME IInv, [Next]_vars
  PROVE  [CustodyOf!Next]_<<Of, Out>>
<1>1. CASE \E r \in Requests : Give(r) \/ Take(r)
  BY <1>1, GiveRefines, TakeRefines
<1>2. CASE ~ \E r \in Requests : Give(r) \/ Take(r)
  <2>1. UNCHANGED assignment
    BY <1>2 DEF Next, Arrive, Serve, Create, EditPiece, Deactivate, Issue, Return, CheckNumber,
       CheckTag, Insert, Reload, Update, CheckOpen, FindOpen, Crash, vars
  <2> QED BY <2>1, Quiet
<1> QED BY <1>1, <1>2

\* Whatever overlaps and wherever a restart falls, each piece is with one
\* member at most and an assignment is closed for good (issue, returnItem).
THEOREM ImplementsCustody == Spec => CustodySpec
<1>1. Init => CustodyOf!Init
  BY DEF Init, CustodyOf!Init, Of, Out, IsOpen
<1>2. IInv /\ [Next]_vars => [CustodyOf!Next]_<<Of, Out>>
  BY StepRefines
<1> QED BY <1>1, <1>2, Invariance, PTL DEF Spec, CustodySpec, CustodyOf!Spec

-----------------------------------------------------------------------------
(* The history of assignments *)

\* A return that is about to close an assignment finds it open, and no two
\* returns hold the same one, unless it is marked.
HistoryInv ==
  /\ \A s \in Requests : pc[s] = "take" => IsOpen(open[s]) \/ open[s] \in contended
  /\ \A s, u \in Requests : s # u /\ open[s] # None /\ open[s] = open[u] => open[s] \in contended

\* A step that takes or closes no assignment.
LEMMA HistoryQuiet ==
  ASSUME IInv, HistoryInv, NEW r \in Requests, NEW place \in PCs \ {"take"}, GoTo(r, place),
         UNCHANGED open \/ open' = [open EXCEPT ![r] = None], contended \subseteq contended',
         \A a \in Requests : IsOpen(a) => IsOpen(a)'
  PROVE  HistoryInv'
<1>1. /\ \A s \in Requests : open'[s] \in {None, open[s]}
      /\ \A s \in Requests \ {r} : pc'[s] = pc[s] /\ open'[s] = open[s]
      /\ pc'[r] # "take"
  BY DEF GoTo, IInv, TypeOK
<1>2. ASSUME NEW s \in Requests, pc'[s] = "take"
      PROVE  IsOpen(open[s])' \/ open'[s] \in contended'
  <2>1. s # r /\ pc[s] = "take" /\ open'[s] = open[s]
    BY <1>1, <1>2
  <2>2. open[s] \in Requests
    BY <2>1 DEF IInv, ControlInv, RequestOK
  <2> QED BY <2>1, <2>2 DEF HistoryInv, IsOpen
<1> QED BY <1>1, <1>2 DEF HistoryInv

LEMMA HistoryKept ==
  ASSUME IInv, HistoryInv, [Next]_vars
  PROVE  HistoryInv'
<1>1. CASE UNCHANGED vars
  BY <1>1 DEF HistoryInv, IsOpen, vars, processVars
<1>2. CASE Crash
  BY <1>2 DEF HistoryInv, Crash
<1>3. ASSUME NEW r \in Requests, Arrive(r) \/ Serve(r)
      PROVE  HistoryInv'
  <2>1. CASE FindOpen(r) /\ ~Refuse(r)
    <3>1. PICK a \in Found(task[r].piece) :
            /\ open' = [open EXCEPT ![r] = a]
            /\ contended' = IF \E s \in Requests \ {r} : open[s] = a
                            THEN contended \union {a} ELSE contended
      BY <2>1 DEF FindOpen
    <3>2. /\ pc' = [pc EXCEPT ![r] = "take"] /\ UNCHANGED assignment
          /\ a \in Requests /\ IsOpen(a)
      BY <2>1 DEF FindOpen, GoTo, Found, OpenOf
    <3>3. \A s \in Requests \ {r} : pc'[s] = pc[s] /\ open'[s] = open[s]
      BY <3>1, <3>2 DEF IInv, TypeOK
    <3>4. open'[r] = a /\ contended \subseteq contended'
      BY <3>1 DEF IInv, TypeOK
    <3>5. ASSUME NEW s \in Requests, pc'[s] = "take"
          PROVE  IsOpen(open[s])' \/ open'[s] \in contended'
      BY <3>2, <3>3, <3>4, <3>5 DEF HistoryInv, IsOpen
    <3>6. ASSUME NEW s \in Requests, NEW u \in Requests, s # u, open'[s] # None,
                 open'[s] = open'[u]
          PROVE  open'[s] \in contended'
      BY <3>1, <3>3, <3>4, <3>6 DEF HistoryInv
    <3> QED BY <3>5, <3>6 DEF HistoryInv
  <2>2. CASE Take(r)
    <3> DEFINE a == open[r]
               closed == [assignment[a] EXCEPT !.closedBy = r]
    <3>1. /\ a \in Requests
          /\ assignment' = [assignment EXCEPT ![a] = closed]
          /\ RecordCondition(r)
      BY <2>2, TakeStep
    <3> HIDE DEF closed
    <3>2. /\ UNCHANGED contended /\ pc'[r] # "take"
          /\ \A s \in Requests : open'[s] \in {None, open[s]}
          /\ \A s \in Requests \ {r} : pc'[s] = pc[s] /\ open'[s] = open[s]
      BY <2>2, <3>1 DEF Take, RecordCondition, Finish, GoTo, IInv, TypeOK
    <3>3. ASSUME NEW s \in Requests, pc'[s] = "take"
          PROVE  IsOpen(open[s])' \/ open'[s] \in contended'
      <4>1. s # r /\ pc[s] = "take" /\ open'[s] = open[s]
        BY <3>2, <3>3
      <4>2. open[s] \in Requests
        BY <4>1 DEF IInv, ControlInv, RequestOK
      <4>3. CASE open[s] = a
        BY <3>1, <3>2, <4>1, <4>3, Nothing DEF HistoryInv
      <4>4. CASE open[s] # a
        <5>1. assignment'[open[s]] = assignment[open[s]]
          BY <3>1, <4>2, <4>4 DEF IInv, TypeOK
        <5> QED BY <3>2, <4>1, <5>1 DEF HistoryInv, IsOpen
      <4> QED BY <4>3, <4>4
    <3> QED BY <3>2, <3>3 DEF HistoryInv
  <2>3. CASE Give(r)
    <3>1. \A b \in Requests : IsOpen(b) => IsOpen(b)'
      <4>1. CASE Admitted(task[r].piece)
        <5> DEFINE new == [piece |-> task[r].piece, member |-> task[r].member, closedBy |-> None]
        <5>1. assignment[r] = None /\ assignment' = [assignment EXCEPT ![r] = new]
          BY <2>3, <4>1, GiveStep
        <5> HIDE DEF new
        <5> QED BY <5>1 DEF IsOpen, IInv, TypeOK
      <4> QED BY <2>3, <4>1 DEF Give, IsOpen
    <3>2. /\ GoTo(r, "done") \/ GoTo(r, "reload")
          /\ UNCHANGED open \/ open' = [open EXCEPT ![r] = None]
          /\ UNCHANGED contended
      BY <2>3 DEF Give, RecordCondition, Finish
    <3> QED BY <3>1, <3>2, HistoryQuiet DEF PCs
  <2>4. CASE ~Take(r) /\ ~Give(r) /\ ~(FindOpen(r) /\ ~Refuse(r))
    <3>1. UNCHANGED assignment /\ contended \subseteq contended'
      BY <1>3, <2>4 DEF Arrive, Serve, Create, EditPiece, Deactivate, Issue, Return, CheckNumber,
         CheckTag, Insert, Reload, Update, CheckOpen, FindOpen, Refuse, Load
    <3>2. \E place \in PCs \ {"take"} : GoTo(r, place)
      BY <1>3, <2>4 DEF Arrive, Serve, Create, EditPiece, Deactivate, Issue, Return, CheckNumber,
         CheckTag, Insert, Reload, Update, CheckOpen, FindOpen, Refuse, Load, Finish, PCs
    <3>3. UNCHANGED open \/ open' = [open EXCEPT ![r] = None]
      BY <1>3, <2>4 DEF Arrive, Serve, Create, EditPiece, Deactivate, Issue, Return, CheckNumber,
         CheckTag, Insert, Reload, Update, CheckOpen, FindOpen, Refuse, Load, Finish
    <3>4. PICK place \in PCs \ {"take"} : GoTo(r, place)
      BY <3>2
    <3>5. \A a \in Requests : IsOpen(a) => IsOpen(a)'
      BY <3>1 DEF IsOpen
    <3> QED BY <3>1, <3>3, <3>4, <3>5, HistoryQuiet
  <2> QED BY <2>1, <2>2, <2>3, <2>4
<1> QED BY <1>1, <1>2, <1>3 DEF Next

\* Who took a piece back stays on record, unless two returns found the same
\* assignment open (returnItem).
THEOREM HistoryPermanent == Spec => HistoryStays
<1> DEFINE Stays == \A a \in Requests \ contended :
                      assignment[a] # None /\ ~IsOpen(a) => assignment'[a] = assignment[a]
<1>1. Init => HistoryInv
  BY DEF Init, HistoryInv
<1>2. ASSUME IInv, HistoryInv, [Next]_vars PROVE Stays
  <2>1. CASE UNCHANGED assignment
    BY <2>1
  <2>2. ASSUME NEW r \in Requests, Give(r), Admitted(task[r].piece) PROVE Stays
    <3> DEFINE new == [piece |-> task[r].piece, member |-> task[r].member, closedBy |-> None]
    <3>1. assignment[r] = None /\ assignment' = [assignment EXCEPT ![r] = new]
      BY <1>2, <2>2, GiveStep
    <3> HIDE DEF new
    <3> QED BY <1>2, <3>1 DEF IInv, TypeOK
  <2>3. ASSUME NEW r \in Requests, Take(r) PROVE Stays
    <3> DEFINE closed == [assignment[open[r]] EXCEPT !.closedBy = r]
    <3>1. assignment' = [assignment EXCEPT ![open[r]] = closed] /\ pc[r] = "take"
      BY <1>2, <2>3, TakeStep DEF Take
    <3> HIDE DEF closed
    <3> QED BY <1>2, <3>1 DEF HistoryInv, IInv, TypeOK
  <2>4. UNCHANGED assignment
        \/ \E r \in Requests : (Give(r) /\ Admitted(task[r].piece)) \/ Take(r)
    BY <1>2 DEF Next, Arrive, Serve, Create, EditPiece, Deactivate, Issue, Return, CheckNumber,
       CheckTag, Insert, Reload, Update, CheckOpen, FindOpen, Give, Crash, vars
  <2> QED BY <2>1, <2>2, <2>3, <2>4
<1>3. IInv /\ HistoryInv /\ [Next]_vars => HistoryInv' /\ [Stays]_vars
  BY <1>2, HistoryKept
<1> QED BY <1>1, <1>3, Invariance, PTL DEF Spec, HistoryStays

-----------------------------------------------------------------------------
(* The marks of a piece *)

\* The QR code of a row is that of its number.
Marked(row) == row.number # None => row.qr = row.number

\* What holds of a piece that was never contended: one request holds it at
\* most, the row and the entity are marked, and a save is about to write all
\* that they differ in.
MarksOne(p) ==
  /\ \A r, s \in Requests : task[r].piece = p /\ task[s].piece = p => r = s
  /\ piece[p] # None => Marked(piece[p])
  /\ \A r \in Requests : task[r].piece = p =>
       /\ Marked(mem[r])
       /\ pc[r] = "update" => dirty[r] = {k \in Columns : piece[p][k] # mem[r][k]}

MarksInv ==
  /\ \A r \in Requests : pc[r] \in {"new", "done"} => task[r] = NoTask
  /\ \A p \in Pieces \ contended : MarksOne(p)

\* A request that holds nothing asks for no piece.
LEMMA NoPiece == \A p \in Pieces : NoTask.piece # p
  BY Nothing DEF NoTask

\* r is the only request that moves.
Moves(r) ==
  /\ \A s \in Requests \ {r} :
       pc'[s] = pc[s] /\ task'[s] = task[s] /\ mem'[s] = mem[s] /\ dirty'[s] = dirty[s]
  /\ pc'[r] \in {"new", "done"} => task'[r] = NoTask

LEMMA FinishMoves ==
  ASSUME IInv, NEW r \in Requests, Finish(r)
  PROVE  Moves(r) /\ task'[r] = NoTask /\ \A p \in Pieces : task'[r].piece # p
  BY NoPiece DEF Finish, GoTo, Moves, IInv, TypeOK

\* A piece that r does not hold is left as it was.
LEMMA MarksAway ==
  ASSUME NEW r \in Requests, Moves(r), NEW p \in Pieces, MarksOne(p),
         task[r].piece # p, task'[r].piece # p, piece'[p] = piece[p]
  PROVE  MarksOne(p)'
  BY DEF Moves, MarksOne

\* A piece that nobody but r holds.
LEMMA MarksHeld ==
  ASSUME NEW r \in Requests, Moves(r), NEW p \in Pieces,
         \A s \in Requests \ {r} : task[s].piece # p,
         piece'[p] # None => Marked(piece'[p]),
         task'[r].piece = p =>
           /\ Marked(mem'[r])
           /\ pc'[r] = "update" => dirty'[r] = {k \in Columns : piece'[p][k] # mem'[r][k]}
  PROVE  MarksOne(p)'
  BY DEF Moves, MarksOne

LEMMA MarksMoved ==
  ASSUME MarksInv, NEW r \in Requests, Moves(r), contended \subseteq contended',
         \A p \in Pieces \ contended' : MarksOne(p) => MarksOne(p)'
  PROVE  MarksInv'
  BY DEF MarksInv, Moves

\* A request on its way that changes no row and lets go of no other piece.
LEMMA MarksQuiet ==
  ASSUME IInv, MarksInv, NEW r \in Requests, Moves(r), contended \subseteq contended',
         UNCHANGED piece, task'[r] \in {task[r], NoTask},
         task'[r] # NoTask => mem'[r] = mem[r] /\ pc'[r] # "update"
  PROVE  MarksInv'
<1>1. ASSUME NEW p \in Pieces, MarksOne(p) PROVE MarksOne(p)'
  <2>1. CASE task[r].piece # p
    BY <1>1, <2>1, MarksAway, NoPiece
  <2>2. CASE task[r].piece = p
    <3>1. \A s \in Requests \ {r} : task[s].piece # p
      BY <1>1, <2>2 DEF MarksOne
    <3> QED BY <1>1, <2>2, <3>1, MarksHeld, NoPiece DEF MarksOne
  <2> QED BY <2>1, <2>2
<1> QED BY <1>1, MarksMoved

\* Edits of a marked row are marked.
LEMMA EditedMarked ==
  ASSUME NEW row \in Row, Marked(row), NEW edit \in Edits
  PROVE  Marked(Edited(row, edit))
<1>1. edit \in Edit
  BY EquipmentAssumption
<1>2. /\ Merged(row, edit).number = IF edit.number = Keep THEN row.number ELSE edit.number
      /\ Merged(row, edit).qr = row.qr
      /\ Merged(row, edit) \in [{"active", "number", "qr", "tag"} ->
           {Merged(row, edit).active, Merged(row, edit).number, Merged(row, edit).qr, Merged(row, edit).tag}]
  BY <1>1 DEF Merged, Row
<1> HIDE DEF Merged
<1>3. /\ Edited(row, edit).number = Merged(row, edit).number
      /\ Edited(row, edit).qr = IF Renumbers(row, edit) THEN edit.number ELSE row.qr
  BY <1>2 DEF Edited
<1> QED BY <1>1, <1>2, <1>3 DEF Marked, Renumbers

\* A save of all that differs writes the entity.
LEMMA UpdatedIsEntity ==
  ASSUME NEW row \in Row, NEW entity \in Row
  PROVE  Updated(row, entity, {k \in Columns : row[k] # entity[k]}) = entity
  BY DEF Row, Updated, Columns

LEMMA LoadMarks ==
  ASSUME IInv, MarksInv, NEW r \in Requests, NEW p \in Pieces, NEW t, NEW entity,
         NEW place \in PCs \ {"new", "done", "update"},
         Load(r, p, t, entity, place), pc[r] = "new", t.piece = p, piece[p] # None,
         UNCHANGED piece, Marked(piece[p]) => Marked(entity)
  PROVE  MarksInv'
<1>1. task[r] = NoTask /\ contended \subseteq contended'
  BY DEF MarksInv, Load
<1>2. Moves(r) /\ task'[r] = t /\ mem'[r] = entity /\ pc'[r] = place
  BY DEF Moves, Load, GoTo, IInv, TypeOK
<1>3. ASSUME NEW q \in Pieces \ contended', MarksOne(q) PROVE MarksOne(q)'
  <2>1. CASE q # p
    BY <1>1, <1>2, <1>3, <2>1, MarksAway, NoPiece
  <2>2. CASE q = p
    <3>1. \A s \in Requests \ {r} : task[s].piece # p
      BY <1>3, <2>2 DEF Load
    <3> QED BY <1>2, <1>3, <2>2, <3>1, MarksHeld DEF MarksOne
  <2> QED BY <2>1, <2>2
<1> QED BY <1>1, <1>2, <1>3, MarksMoved

\* A save or an INSERT of a marked entity leaves a marked row.
LEMMA WriteMarks ==
  ASSUME IInv, MarksInv, NEW r \in Requests, Insert(r) \/ Update(r)
  PROVE  MarksInv'
<1>0. RequestOK(r) /\ pc[r] \in {"insert", "update"}
  BY DEF Insert, Update, IInv, ControlInv
<1>1. PICK p \in Pieces : task[r].piece = p
  BY <1>0 DEF RequestOK
<1>2. mem[r] \in Row /\ Finish(r) /\ UNCHANGED contended
  BY <1>0 DEF RequestOK, Insert, Update
<1>3. Moves(r) /\ task'[r] = NoTask
  BY <1>2, FinishMoves
<1>4. \A q \in Pieces \ {p} : piece'[q] = piece[q]
  BY <1>1 DEF Insert, Update, IInv, TypeOK
<1>5. ASSUME MarksOne(p) PROVE MarksOne(p)'
  <2>1. \A s \in Requests \ {r} : task[s].piece # p
    BY <1>1, <1>5 DEF MarksOne
  <2>2. piece'[p] \in {piece[p], mem[r]}
    <3>1. CASE Insert(r)
      BY <1>1, <3>1 DEF Insert, IInv, TypeOK
    <3>2. CASE Update(r)
      <4>1. piece[p] \in Row /\ dirty[r] = {k \in Columns : piece[p][k] # mem[r][k]}
        BY <1>0, <1>1, <1>5, <3>2 DEF Update, RequestOK, MarksOne, IInv, TypeOK
      <4>2. Updated(piece[p], mem[r], dirty[r]) = mem[r]
        BY <1>2, <4>1, UpdatedIsEntity
      <4> QED BY <1>1, <3>2, <4>2 DEF Update, IInv, TypeOK
    <3> QED BY <3>1, <3>2
  <2>3. piece'[p] # None => Marked(piece'[p])
    BY <1>1, <1>5, <2>2 DEF MarksOne
  <2> QED BY <1>3, <2>1, <2>3, MarksHeld, NoPiece
<1>6. ASSUME NEW q \in Pieces, q # p, MarksOne(q) PROVE MarksOne(q)'
  BY <1>1, <1>3, <1>4, <1>6, MarksAway, NoPiece
<1> QED BY <1>2, <1>3, <1>5, <1>6, MarksMoved

LEMMA CreateMarks ==
  ASSUME IInv, MarksInv, NEW r \in Requests, Create(r)
  PROVE  MarksInv'
<1>1. PICK p \in Pieces :
        /\ piece[p] = None /\ \A s \in Requests : task[s].piece # p
        /\ task' = [task EXCEPT ![r] = [NoTask EXCEPT !.op = "create", !.piece = p]]
  BY DEF Create
<1>2. PICK row \in NewRow :
        /\ mem' = [mem EXCEPT ![r] = row]
        /\ GoTo(r, IF row.number = None THEN "insert" ELSE "number")
  BY DEF Create
<1>3. pc[r] = "new" /\ UNCHANGED <<piece, assignment, open, dirty, crashes, contended>>
  BY DEF Create, CanStart
<1>4. /\ task'[r].piece = p /\ mem'[r] = row /\ pc'[r] \in {"insert", "number"}
      /\ Moves(r) /\ task[r] = NoTask
  BY <1>1, <1>2, <1>3 DEF GoTo, Moves, NoTask, MarksInv, IInv, TypeOK
<1>5. Marked(row)
  BY DEF NewRow, Marked
<1>6. MarksOne(p)'
  BY <1>1, <1>3, <1>4, <1>5, MarksHeld
<1>7. ASSUME NEW q \in Pieces, q # p, MarksOne(q) PROVE MarksOne(q)'
  BY <1>3, <1>4, <1>7, MarksAway, NoPiece
<1> QED BY <1>3, <1>4, <1>6, <1>7, MarksMoved

LEMMA ReloadMarks ==
  ASSUME IInv, MarksInv, NEW r \in Requests, Reload(r)
  PROVE  MarksInv'
<1>0. /\ pc[r] = "reload" /\ RequestOK(r)
      /\ UNCHANGED <<piece, assignment, crashes, contended>>
  BY DEF Reload, IInv, ControlInv
<1>1. PICK p \in Pieces : task[r].piece = p
  BY <1>0 DEF RequestOK
<1>2. CASE Finish(r)
  BY <1>0, <1>2, FinishMoves, MarksQuiet
<1>3. CASE /\ dirty' = [dirty EXCEPT ![r] = {k \in Columns : piece[p][k] # mem[r][k]}]
           /\ GoTo(r, "update") /\ UNCHANGED <<task, mem, open>>
  <2>1. /\ Moves(r) /\ pc'[r] = "update" /\ task'[r] = task[r] /\ mem'[r] = mem[r]
        /\ dirty'[r] = {k \in Columns : piece[p][k] # mem[r][k]}
    BY <1>3 DEF Moves, GoTo, IInv, TypeOK
  <2>2. ASSUME MarksOne(p) PROVE MarksOne(p)'
    <3>1. \A s \in Requests \ {r} : task[s].piece # p
      BY <1>1, <2>2 DEF MarksOne
    <3>2. Marked(mem'[r]) /\ (piece'[p] # None => Marked(piece'[p])) /\ piece'[p] = piece[p]
      BY <1>0, <1>1, <2>1, <2>2 DEF MarksOne
    <3> QED BY <2>1, <3>1, <3>2, MarksHeld
  <2>3. ASSUME NEW q \in Pieces, q # p, MarksOne(q) PROVE MarksOne(q)'
    BY <1>0, <1>1, <2>1, <2>3, MarksAway
  <2> QED BY <1>0, <2>1, <2>2, <2>3, MarksMoved
<1> QED BY <1>1, <1>2, <1>3 DEF Reload

\* The checks, and the two saves of assignments.
LEMMA OnwardMarks ==
  ASSUME IInv, MarksInv, NEW r \in Requests,
         CheckNumber(r) \/ CheckTag(r) \/ CheckOpen(r) \/ Give(r) \/ FindOpen(r) \/ Take(r)
  PROVE  MarksInv'
<1>1. UNCHANGED piece /\ contended \subseteq contended'
  BY DEF CheckNumber, CheckTag, CheckOpen, Give, FindOpen, Take, Refuse
<1>2. CASE Finish(r)
  BY <1>1, <1>2, FinishMoves, MarksQuiet
<1>3. CASE \E place \in {"insert", "tag", "reload", "give", "take"} :
             GoTo(r, place) /\ UNCHANGED <<task, mem, dirty>>
  <2>1. Moves(r) /\ task'[r] = task[r] /\ mem'[r] = mem[r] /\ pc'[r] # "update"
    BY <1>3 DEF Moves, GoTo, IInv, TypeOK
  <2> QED BY <1>1, <2>1, MarksQuiet
<1>4. Finish(r) \/ \E place \in {"insert", "tag", "reload", "give", "take"} :
        GoTo(r, place) /\ UNCHANGED <<task, mem, dirty>>
  BY DEF CheckNumber, CheckTag, CheckOpen, Give, FindOpen, Take, Refuse, RecordCondition
<1> QED BY <1>2, <1>3, <1>4

LEMMA ArriveMarks ==
  ASSUME IInv, MarksInv, NEW r \in Requests,
         EditPiece(r) \/ Deactivate(r) \/ Issue(r) \/ Return(r)
  PROVE  MarksInv'
<1>0. pc[r] = "new" /\ UNCHANGED <<piece, assignment, crashes>>
  BY DEF EditPiece, Deactivate, Issue, Return, CanStart
<1>1. \A p \in Pieces : piece[p] # None => piece[p] \in Row
  BY DEF IInv, TypeOK
<1>2. CASE Finish(r) /\ UNCHANGED contended
  BY <1>0, <1>2, FinishMoves, MarksQuiet
<1>3. CASE EditPiece(r)
  <2>1. PICK p \in Pieces, edit \in Edits :
          /\ piece[p] # None
          /\ LET tagged == edit.tag \notin {Keep, None}
             IN  Load(r, p, [NoTask EXCEPT !.op = "update", !.piece = p, !.tagged = tagged],
                      Edited(piece[p], edit),
                      IF Renumbers(piece[p], edit) THEN "number"
                      ELSE IF tagged THEN "tag" ELSE "reload")
    BY <1>3 DEF EditPiece
  <2> DEFINE t == [NoTask EXCEPT !.op = "update", !.piece = p,
                                 !.tagged = edit.tag \notin {Keep, None}]
             place == IF Renumbers(piece[p], edit) THEN "number"
                      ELSE IF edit.tag \notin {Keep, None} THEN "tag" ELSE "reload"
  <2>2. t.piece = p /\ place \in PCs \ {"new", "done", "update"}
    BY DEF NoTask, PCs
  <2>3. Load(r, p, t, Edited(piece[p], edit), place)
    BY <2>1
  <2>4. Marked(piece[p]) => Marked(Edited(piece[p], edit))
    BY <1>1, <2>1, EditedMarked
  <2> HIDE DEF t, place
  <2> QED BY <1>0, <2>1, <2>2, <2>3, <2>4, LoadMarks
<1>4. CASE Deactivate(r)
  <2> DEFINE t(p) == [NoTask EXCEPT !.op = "deactivate", !.piece = p]
  <2>1. PICK p \in Pieces :
          piece[p] # None /\ Load(r, p, t(p), [piece[p] EXCEPT !.active = FALSE], "reload")
    BY <1>4 DEF Deactivate
  <2>2. t(p).piece = p
    BY DEF NoTask
  <2>3. Marked(piece[p]) => Marked([piece[p] EXCEPT !.active = FALSE])
    BY <1>1, <2>1 DEF Marked, Row
  <2> HIDE DEF t
  <2> QED BY <1>0, <2>1, <2>2, <2>3, LoadMarks DEF PCs
<1>5. CASE Issue(r) /\ ~(Finish(r) /\ UNCHANGED contended)
  <2> DEFINE t(p, m, recorded) == [op |-> "issue", piece |-> p, member |-> m,
                                   tagged |-> FALSE, recorded |-> recorded]
  <2>1. PICK p \in Pieces, m \in Members, recorded \in BOOLEAN :
          piece[p] # None /\ Load(r, p, t(p, m, recorded), piece[p], "open")
    BY <1>5 DEF Issue, Refuse
  <2>2. t(p, m, recorded).piece = p
    OBVIOUS
  <2> HIDE DEF t
  <2> QED BY <1>0, <2>1, <2>2, LoadMarks DEF PCs
<1>6. CASE Return(r)
  <2> DEFINE t(p, recorded) == [NoTask EXCEPT !.op = "return", !.piece = p, !.recorded = recorded]
  <2>1. PICK p \in Pieces, recorded \in BOOLEAN :
          piece[p] # None /\ Load(r, p, t(p, recorded), piece[p], "open")
    BY <1>6 DEF Return
  <2>2. t(p, recorded).piece = p
    BY DEF NoTask
  <2> HIDE DEF t
  <2> QED BY <1>0, <2>1, <2>2, LoadMarks DEF PCs
<1> QED BY <1>2, <1>3, <1>4, <1>5, <1>6

LEMMA MarksStep ==
  ASSUME IInv, MarksInv, [Next]_vars
  PROVE  MarksInv'
<1>1. CASE UNCHANGED vars
  BY <1>1 DEF MarksInv, MarksOne, vars, processVars
<1>2. CASE Crash
  <2>1. \A r \in Requests : task'[r] = NoTask
    BY <1>2 DEF Crash
  <2>2. UNCHANGED <<piece, contended>>
    BY <1>2 DEF Crash
  <2> QED BY <2>1, <2>2, NoPiece DEF MarksInv, MarksOne
<1>3. CASE \E r \in Requests : Arrive(r) \/ Serve(r)
  BY <1>3, CreateMarks, ArriveMarks, OnwardMarks, WriteMarks, ReloadMarks DEF Arrive, Serve
<1> QED BY <1>1, <1>2, <1>3 DEF Next

LEMMA MarksInit == Init => MarksInv
<1> SUFFICES ASSUME Init PROVE MarksInv
  OBVIOUS
<1>1. \A r \in Requests : task[r] = NoTask
  BY DEF Init
<1>2. \A p \in Pieces : piece[p] # None => piece[p] \in NewRow
  BY DEF Init
<1> QED BY <1>1, <1>2, NoPiece DEF MarksInv, MarksOne, NewRow, Marked

LEMMA MarksAlways == Spec => [](IInv /\ MarksInv)
<1>1. IInv /\ MarksInv /\ [Next]_vars => (IInv /\ MarksInv)'
  BY StepOK, MarksStep
<1> QED BY <1>1, InitOK, MarksInit, PTL DEF Spec

\* A tag is stored as every scan reads it, or as create entered it.
StandingTag(row) ==
  row.tag # None => row.tag = Normalised(row.tag) \/ row.tag \in AsEntered

\* No two rows share a code or a tag, and no edit leaves a tag unnormalised.
TagsInv ==
  /\ \A p \in Pieces : piece[p] # None => ~Clashes(p, piece[p]) /\ StandingTag(piece[p])
  /\ \A r \in Requests : mem[r] # None => StandingTag(mem[r])

\* The rows a request makes of rows with tags that stand.
LEMMA StandingRows ==
  ASSUME NEW row \in Row, StandingTag(row)
  PROVE  /\ \A edit \in Edits : StandingTag(Edited(row, edit))
         /\ StandingTag([row EXCEPT !.active = FALSE])
         /\ \A entity \in Row, columns \in SUBSET Columns :
              StandingTag(entity) => StandingTag(Updated(row, entity, columns))
<1>1. ASSUME NEW edit \in Edits PROVE StandingTag(Edited(row, edit))
  <2>1. edit \in Edit
    BY EquipmentAssumption
  <2>2. Edited(row, edit).tag = IF edit.tag = Keep THEN row.tag
                                ELSE IF edit.tag = None THEN None ELSE Normalised(edit.tag)
    BY DEF Edited, Merged, Row
  <2>3. Normalised(Normalised(edit.tag)) = Normalised(edit.tag)
    BY DEF Normalised
  <2> QED BY <2>2, <2>3 DEF StandingTag
<1>2. StandingTag([row EXCEPT !.active = FALSE])
  BY DEF StandingTag, Row
<1>3. ASSUME NEW entity \in Row, NEW columns \in SUBSET Columns, StandingTag(entity)
      PROVE  StandingTag(Updated(row, entity, columns))
  <2>1. Updated(row, entity, columns).tag = IF "tag" \in columns THEN entity.tag ELSE row.tag
    BY DEF Updated, Row
  <2> QED BY <1>3, <2>1 DEF StandingTag
<1> QED BY <1>1, <1>2, <1>3

\* A row that clashes with none may be written.
LEMMA RowsApart ==
  ASSUME IInv, TagsInv, NEW p \in Pieces, NEW row \in Row, ~Clashes(p, row), StandingTag(row),
         piece' = [piece EXCEPT ![p] = row], \A r \in Requests : mem'[r] \in {mem[r], None}
  PROVE  TagsInv'
<1>1. piece'[p] = row /\ \A q \in Pieces \ {p} : piece'[q] = piece[q]
  BY DEF IInv, TypeOK
<1>2. ASSUME NEW q \in Pieces, piece'[q] # None
      PROVE  ~Clashes(q, piece[q])' /\ StandingTag(piece[q])'
  <2>1. StandingTag(piece[q])'
    BY <1>1, <1>2 DEF TagsInv, StandingTag, AsEntered, Normalised
  <2>2. ~Clashes(q, piece[q])'
    BY <1>1, <1>2 DEF TagsInv, Clashes
  <2> QED BY <2>1, <2>2
<1>3. \A r \in Requests : mem'[r] # None => StandingTag(mem[r])'
  BY DEF TagsInv, StandingTag, AsEntered, Normalised
<1> QED BY <1>2, <1>3 DEF TagsInv

\* A step that changes no row and puts an entity with such a tag into memory, or none.
LEMMA TagsQuiet ==
  ASSUME TagsInv, UNCHANGED piece,
         \A r \in Requests : mem'[r] \in {mem[r], None} \/ StandingTag(mem'[r])
  PROVE  TagsInv'
<1>1. \A p \in Pieces : piece'[p] # None => ~Clashes(p, piece[p])' /\ StandingTag(piece[p])'
  BY DEF TagsInv, Clashes, StandingTag, AsEntered, Normalised
<1>2. \A r \in Requests : mem'[r] # None => StandingTag(mem[r])'
  BY DEF TagsInv, StandingTag, AsEntered, Normalised
<1> QED BY <1>1, <1>2 DEF TagsInv

LEMMA TagsStep ==
  ASSUME IInv, TagsInv, [Next]_vars
  PROVE  TagsInv'
<1>0. \A p \in Pieces : piece[p] # None => piece[p] \in Row /\ StandingTag(piece[p])
  BY DEF TagsInv, IInv, TypeOK
<1>1. CASE UNCHANGED vars \/ Crash
  BY <1>1, TagsQuiet DEF vars, processVars, Crash
<1>2. ASSUME NEW r \in Requests, NEW p \in Pieces, NEW t, NEW entity, NEW place,
             Load(r, p, t, entity, place), UNCHANGED piece, StandingTag(entity)
      PROVE  TagsInv'
  BY <1>2, TagsQuiet DEF Load, IInv, TypeOK
<1>3. ASSUME NEW r \in Requests, Insert(r) \/ Update(r) PROVE TagsInv'
  <2>0. RequestOK(r) /\ pc[r] \in {"insert", "update"}
    BY <1>3 DEF Insert, Update, IInv, ControlInv
  <2>1. PICK p \in Pieces : task[r].piece = p
    BY <2>0 DEF RequestOK
  <2>2. /\ mem[r] \in Row /\ StandingTag(mem[r])
        /\ \A s \in Requests : mem'[s] \in {mem[s], None}
    BY <1>3, <2>0, Nothing DEF RequestOK, TagsInv, Insert, Update, Finish, IInv, TypeOK
  <2>3. PICK row \in Row : /\ StandingTag(row)
                           /\ piece' = IF Clashes(p, row) THEN piece ELSE [piece EXCEPT ![p] = row]
    <3>1. CASE Insert(r)
      BY <2>1, <2>2, <3>1 DEF Insert
    <3>2. CASE Update(r)
      <4>1. piece[p] # None /\ dirty[r] \in SUBSET Columns
        BY <2>1, <2>0, <3>2 DEF Update, RequestOK, IInv, TypeOK
      <4> DEFINE row == Updated(piece[p], mem[r], dirty[r])
      <4>2. row \in Row /\ StandingTag(row)
        BY <1>0, <2>2, <4>1, RowTypes, StandingRows
      <4>3. piece' = IF Clashes(p, row) THEN piece ELSE [piece EXCEPT ![p] = row]
        BY <2>1, <3>2 DEF Update
      <4> HIDE DEF row
      <4> QED BY <4>2, <4>3
    <3> QED BY <1>3, <3>1, <3>2
  <2>4. CASE Clashes(p, row)
    BY <2>2, <2>3, <2>4, TagsQuiet
  <2>5. CASE ~Clashes(p, row)
    BY <2>2, <2>3, <2>5, RowsApart
  <2> QED BY <2>4, <2>5
<1>4. ASSUME NEW r \in Requests, Create(r) PROVE TagsInv'
  <2>1. PICK row \in NewRow : mem' = [mem EXCEPT ![r] = row]
    BY <1>4 DEF Create
  <2>2. StandingTag(row)
    BY DEF NewRow, StandingTag, AsEntered
  <2> QED BY <1>4, <2>1, <2>2, TagsQuiet DEF Create, IInv, TypeOK
<1>5. ASSUME NEW r \in Requests,
             \/ Reload(r) \/ CheckNumber(r) \/ CheckTag(r) \/ CheckOpen(r)
             \/ Give(r) \/ FindOpen(r) \/ Take(r) \/ (Issue(r) /\ Refuse(r))
      PROVE  TagsInv'
  <2>1. UNCHANGED piece /\ (UNCHANGED mem \/ Finish(r))
    BY <1>5 DEF Reload, CheckNumber, CheckTag, CheckOpen, Give, FindOpen, Take, Issue, Refuse,
                RecordCondition
  <2> QED BY <2>1, TagsQuiet DEF Finish, IInv, TypeOK
<1>6. ASSUME NEW r \in Requests, Issue(r) \/ Return(r), ~(Issue(r) /\ Refuse(r)) PROVE TagsInv'
  <2>1. PICK p \in Pieces : piece[p] # None /\ \E t, place : Load(r, p, t, piece[p], place)
    BY <1>6 DEF Issue, Return
  <2> QED BY <1>0, <1>2, <1>6, <2>1 DEF Issue, Return
<1>7. ASSUME NEW r \in Requests, EditPiece(r) PROVE TagsInv'
  <2>1. PICK p \in Pieces, edit \in Edits :
          piece[p] # None /\ \E t, place : Load(r, p, t, Edited(piece[p], edit), place)
    BY <1>7 DEF EditPiece
  <2>2. StandingTag(Edited(piece[p], edit)) /\ UNCHANGED piece
    BY <1>0, <1>7, <2>1, StandingRows DEF EditPiece
  <2> QED BY <1>2, <2>1, <2>2
<1>8. ASSUME NEW r \in Requests, Deactivate(r) PROVE TagsInv'
  <2>1. PICK p \in Pieces :
          piece[p] # None /\ \E t, place : Load(r, p, t, [piece[p] EXCEPT !.active = FALSE], place)
    BY <1>8 DEF Deactivate
  <2>2. StandingTag([piece[p] EXCEPT !.active = FALSE]) /\ UNCHANGED piece
    BY <1>0, <1>8, <2>1, StandingRows DEF Deactivate
  <2> QED BY <1>2, <2>1, <2>2
<1> QED BY <1>1, <1>3, <1>4, <1>5, <1>6, <1>7, <1>8 DEF Next, Arrive, Serve

LEMMA TagsInit ==
  ASSUME Init
  PROVE  TagsInv
<1>1. ASSUME NEW p \in Pieces, piece[p] # None PROVE ~Clashes(p, piece[p]) /\ StandingTag(piece[p])
  <2>1. piece[p] \in NewRow
    BY <1>1 DEF Init
  <2> QED BY <1>1, <2>1 DEF Init, Clashes, NewRow, StandingTag, AsEntered
<1>2. \A r \in Requests : mem[r] = None
  BY DEF Init
<1> QED BY <1>1, <1>2 DEF TagsInv

\* A piece with a number carries the QR code of that number, for any edits
\* one after the other and however other pieces are worked on meanwhile.
THEOREM QrKept == Spec => []QrFollowsNumber
<1>1. MarksInv => QrFollowsNumber
  BY DEF MarksInv, MarksOne, Marked, QrFollowsNumber
<1> QED BY <1>1, MarksAlways, PTL

\* A piece is found by its code and, unless its tag stands as create entered
\* it, by its tag, and no other is, whatever was edited and however requests
\* overlap (update, findByNfcUid).
THEOREM FoundByMarks == Spec => []FoundByItsMarks
<1>1. IInv /\ MarksInv /\ TagsInv => FoundByItsMarks
  <2> SUFFICES ASSUME IInv, MarksInv, TagsInv PROVE FoundByItsMarks
    OBVIOUS
  <2>1. QrFollowsNumber
    BY DEF MarksInv, MarksOne, Marked, QrFollowsNumber
  <2>2. ASSUME NEW p \in Pieces, NEW spelling \in Spellings, Active(p),
               piece[p].tag \notin AsEntered \union {None}
        PROVE  Scanned(<<piece[p].tag[1], spelling>>) = {p}
    <3>1. /\ piece[p] # None /\ piece[p].tag = Normalised(piece[p].tag)
          /\ ~Clashes(p, piece[p])
      BY <2>2 DEF Active, TagsInv, StandingTag
    <3>2. Normalised(<<piece[p].tag[1], spelling>>) = piece[p].tag
      BY <3>1 DEF Normalised
    <3>3. \A q \in Pieces \ {p} : piece[q] # None => piece[q].tag # piece[p].tag
      BY <2>2, <3>1 DEF Clashes
    <3> QED BY <2>2, <3>2, <3>3 DEF Scanned, Active
  <2> QED BY <2>1, <2>2 DEF FoundByItsMarks, ScanFindsThePiece
<1>2. Init => IInv /\ MarksInv /\ TagsInv
  BY InitOK, MarksInit, TagsInit
<1>3. IInv /\ MarksInv /\ TagsInv /\ [Next]_vars => (IInv /\ MarksInv /\ TagsInv)'
  BY StepOK, MarksStep, TagsStep
<1> QED BY <1>1, <1>2, <1>3, PTL DEF Spec
=============================================================================
