------------------------------- MODULE Equipment -------------------------------
(***************************************************************************)
(* Equipment of one brigade and its assignments to members                 *)
(* (EquipmentService).  One action per database round trip; save = reload  *)
(* + UPDATE of the columns that differ.  A piece is deactivated, never     *)
(* deleted.  A QR code is named by the inventory number it was made from;  *)
(* of the other columns of a piece, condition included, none decides       *)
(* anything, so an issue or a return either records a condition or not.    *)
(***************************************************************************)
EXTENDS Naturals, FiniteSets

CONSTANTS
  Pieces,       \* identities of the pieces that may ever be created
  Stocked,      \* how many of them there are at the start
  Members,      \* active members of the brigade
  Numbers,      \* inventory numbers
  Tags,         \* NFC tags
  Spellings,    \* ways to enter the UID of a tag
  Normal,       \* the spelling in capitals, without separators
  NewTags,      \* what is entered as the tag of a new piece
  Edits,        \* what is entered when a piece is edited
  Requests,     \* requests; each is served once, and makes one assignment at
                \* most: they are also the identities of the assignments
  Ops,          \* the operations a run explores
  MaxCrashes,   \* bound on restarts of the server
  Keep,         \* a field an edit does not mention
  None          \* NULL; no row; nothing held

AllOps == {"create", "update", "deactivate", "issue", "return"}
Uid == Tags \X Spellings
Row == [active: BOOLEAN, number: Numbers \union {None}, qr: Numbers \union {None},
        tag: Uid \union {None}]
Columns == {"active", "number", "qr", "tag"}
Edit == [active: BOOLEAN \union {Keep}, number: Numbers \union {Keep, None},
         tag: Uid \union {Keep, None}]
Assignment == [piece: Pieces, member: Members, closedBy: Requests \union {None}]

ASSUME EquipmentAssumption ==
  /\ Normal \in Spellings
  /\ NewTags \subseteq Uid \union {None}
  /\ Edits \subseteq Edit
  /\ Ops \subseteq AllOps
  /\ Stocked \in Nat /\ MaxCrashes \in Nat

ASSUME NoneAssumption ==
  /\ None \notin Numbers \union Members \union Requests \union Pieces
  /\ None \notin Row \union Assignment \union Uid \union BOOLEAN
  /\ Keep \notin Numbers \union Uid \union BOOLEAN \union {None}

VARIABLES
  piece,       \* table equipment
  assignment,  \* table equipment_assignments; closedBy stands for returned_at,
               \* returned_by and the notes and condition of the return
  pc,          \* where each request is
  task,        \* what it has been asked for
  mem,         \* the Equipment entity it holds
  open,        \* the EquipmentAssignment entity it holds
  dirty,       \* the columns its save is about to UPDATE
  crashes,     \* restarts so far
  contended    \* history: pieces and assignments two requests held at once

processVars == <<pc, task, mem, open, dirty>>
vars == <<piece, assignment, processVars, crashes, contended>>

Task == [op: AllOps, piece: Pieces \union {None}, member: Members \union {None},
         tagged: BOOLEAN, recorded: BOOLEAN]
NoTask == [op |-> "none", piece |-> None, member |-> None, tagged |-> FALSE,
           recorded |-> FALSE]
PCs == {"new", "number", "tag", "insert", "reload", "update", "open", "give", "take", "done"}

\* Every variable keeps its type.
TypeOK ==
  /\ piece \in [Pieces -> Row \union {None}]
  /\ assignment \in [Requests -> Assignment \union {None}]
  /\ pc \in [Requests -> PCs]
  /\ task \in [Requests -> Task \union {NoTask}]
  /\ mem \in [Requests -> Row \union {None}]
  /\ open \in [Requests -> Requests \union {None}]
  /\ dirty \in [Requests -> SUBSET Columns]
  /\ crashes \in Nat
  /\ contended \subseteq Pieces \union Requests

\* A new piece: active, with the QR code of its number.
NewRow == {row \in Row : row.active /\ row.qr = row.number /\ row.tag \in NewTags}

Init ==
  /\ piece \in [Pieces -> NewRow \union {None}]
  /\ \A p, q \in Pieces : piece[p] # None /\ piece[q] # None /\ p # q =>
       /\ piece[p].qr = piece[q].qr => piece[p].qr = None
       /\ piece[p].tag = piece[q].tag => piece[p].tag = None
  /\ Cardinality({p \in Pieces : piece[p] # None}) = Stocked
  /\ assignment = [a \in Requests |-> None]
  /\ pc = [r \in Requests |-> "new"]
  /\ task = [r \in Requests |-> NoTask]
  /\ mem = [r \in Requests |-> None]
  /\ open = [r \in Requests |-> None]
  /\ dirty = [r \in Requests |-> {}]
  /\ crashes = 0
  /\ contended = {}

-----------------------------------------------------------------------------
(* Requests and what they hold *)

CanStart(r, op) == pc[r] = "new" /\ op \in Ops

GoTo(r, place) == pc' = [pc EXCEPT ![r] = place]

\* The handler replies or throws.
Finish(r) ==
  /\ GoTo(r, "done")
  /\ task' = [task EXCEPT ![r] = NoTask]
  /\ mem' = [mem EXCEPT ![r] = None]
  /\ open' = [open EXCEPT ![r] = None]
  /\ dirty' = [dirty EXCEPT ![r] = {}]

\* findOne: request r goes on at place with the row of p as the handler left
\* it in the entity.
Load(r, p, t, entity, place) ==
  /\ task' = [task EXCEPT ![r] = t]
  /\ mem' = [mem EXCEPT ![r] = entity]
  /\ contended' = IF \E s \in Requests \ {r} : task[s].piece = p
                  THEN contended \union {p} ELSE contended
  /\ GoTo(r, place)
  /\ UNCHANGED <<open, dirty>>

\* The reply at once: not found, or refused.
Refuse(r) == Finish(r) /\ UNCHANGED contended

Active(p) == piece[p] # None /\ piece[p].active

IsOpen(a) == assignment[a] # None /\ assignment[a].closedBy = None

\* openAssignment; the partial unique index leaves at most one.
OpenOf(p) == {a \in Requests : IsOpen(a) /\ assignment[a].piece = p}

\* The unique indexes on qr_code and nfc_uid would refuse this row of p.
Clashes(p, row) ==
  \E q \in Pieces \ {p} :
    /\ piece[q] # None
    /\ \/ row.qr # None /\ piece[q].qr = row.qr
       \/ row.tag # None /\ piece[q].tag = row.tag

-----------------------------------------------------------------------------
(* equipmentRepo.save(equipment) *)

\* SELECT: which columns differ.
Reload(r) ==
  /\ pc[r] = "reload"
  /\ LET differing == {k \in Columns : piece[task[r].piece][k] # mem[r][k]}
     IN  \/ /\ differing = {}
            /\ Finish(r)
         \/ /\ differing # {}
            /\ dirty' = [dirty EXCEPT ![r] = differing]
            /\ GoTo(r, "update")
            /\ UNCHANGED <<task, mem, open>>
  /\ UNCHANGED <<piece, assignment, crashes, contended>>

\* A row with the given columns of an entity.
Updated(row, entity, columns) ==
  [row EXCEPT !.active = IF "active" \in columns THEN entity.active ELSE @,
              !.number = IF "number" \in columns THEN entity.number ELSE @,
              !.qr = IF "qr" \in columns THEN entity.qr ELSE @,
              !.tag = IF "tag" \in columns THEN entity.tag ELSE @]

\* UPDATE; what a unique index refuses is an error, 409 or 500.
Update(r) ==
  /\ pc[r] = "update"
  /\ LET p == task[r].piece
         row == Updated(piece[p], mem[r], dirty[r])
     IN  piece' = IF Clashes(p, row) THEN piece ELSE [piece EXCEPT ![p] = row]
  /\ Finish(r)
  /\ UNCHANGED <<assignment, crashes, contended>>

-----------------------------------------------------------------------------
(* create, update, deactivate *)

\* create: a new piece gets the QR code of its number, and the tag as entered.
Create(r) ==
  /\ CanStart(r, "create")
  /\ \E p \in Pieces :
       /\ piece[p] = None /\ \A s \in Requests : task[s].piece # p
       /\ task' = [task EXCEPT ![r] = [NoTask EXCEPT !.op = "create", !.piece = p]]
  /\ \E row \in NewRow :
       /\ mem' = [mem EXCEPT ![r] = row]
       /\ GoTo(r, IF row.number = None THEN "insert" ELSE "number")
  /\ UNCHANGED <<piece, assignment, open, dirty, crashes, contended>>

\* The INSERT of the new piece.
Insert(r) ==
  /\ pc[r] = "insert"
  /\ LET p == task[r].piece
     IN  piece' = IF Clashes(p, mem[r]) THEN piece ELSE [piece EXCEPT ![p] = mem[r]]
  /\ Finish(r)
  /\ UNCHANGED <<assignment, crashes, contended>>

\* normalizeNfcUid
Normalised(uid) == <<uid[1], Normal>>

\* Does the edit make the QR code anew?
Renumbers(row, edit) == edit.number \notin {Keep, None, row.number}

\* Object.assign: the fields the edit mentions.
Merged(row, edit) ==
  [row EXCEPT !.active = IF edit.active = Keep THEN @ ELSE edit.active,
              !.number = IF edit.number = Keep THEN @ ELSE edit.number,
              !.tag = IF edit.tag = Keep THEN @
                      ELSE IF edit.tag = None THEN None ELSE Normalised(edit.tag)]

\* Mutant: the QR code of the old number stays.
EditedKeepsQr(row, edit) == Merged(row, edit)

\* Mutant: fields the edit does not mention are blanked.
EditedBlanks(row, edit) == [Merged(row, edit) EXCEPT !.number = edit.number]

\* The entity after an edit; a piece without a number keeps its QR code.
Edited(row, edit) ==
  [Merged(row, edit) EXCEPT !.qr = IF Renumbers(row, edit) THEN edit.number ELSE @]

\* update: findOne, then the queries the entered fields call for.
EditPiece(r) ==
  /\ CanStart(r, "update")
  /\ \E p \in Pieces, edit \in Edits :
       /\ piece[p] # None
       /\ LET tagged == edit.tag \notin {Keep, None}
          IN  Load(r, p, [NoTask EXCEPT !.op = "update", !.piece = p, !.tagged = tagged],
                   Edited(piece[p], edit),
                   IF Renumbers(piece[p], edit) THEN "number"
                   ELSE IF tagged THEN "tag" ELSE "reload")
  /\ UNCHANGED <<piece, assignment, crashes>>

\* Does another piece have the QR code of the entity?
CheckNumber(r) ==
  /\ pc[r] = "number"
  /\ IF \E q \in Pieces \ {task[r].piece} : piece[q] # None /\ piece[q].qr = mem[r].qr
     THEN Finish(r)
     ELSE /\ GoTo(r, IF task[r].op = "create" THEN "insert"
                     ELSE IF task[r].tagged THEN "tag" ELSE "reload")
          /\ UNCHANGED <<task, mem, open, dirty>>
  /\ UNCHANGED <<piece, assignment, crashes, contended>>

\* Does another piece have its tag?
CheckTag(r) ==
  /\ pc[r] = "tag"
  /\ IF \E q \in Pieces \ {task[r].piece} : piece[q] # None /\ piece[q].tag = mem[r].tag
     THEN Finish(r)
     ELSE GoTo(r, "reload") /\ UNCHANGED <<task, mem, open, dirty>>
  /\ UNCHANGED <<piece, assignment, crashes, contended>>

\* deactivate: also a piece that is given out.
Deactivate(r) ==
  /\ CanStart(r, "deactivate")
  /\ \E p \in Pieces :
       /\ piece[p] # None
       /\ Load(r, p, [NoTask EXCEPT !.op = "deactivate", !.piece = p],
               [piece[p] EXCEPT !.active = FALSE], "reload")
  /\ UNCHANGED <<piece, assignment, crashes>>

-----------------------------------------------------------------------------
(* issue, returnItem *)

\* Only an active piece may be given out.
MayBeGiven(p) == piece[p].active

\* issue: the piece, then the member, who may be of another brigade or not active.
Issue(r) ==
  /\ CanStart(r, "issue")
  /\ \E p \in Pieces, m \in Members, recorded \in BOOLEAN :
       /\ piece[p] # None
       /\ \/ /\ MayBeGiven(p)
             /\ Load(r, p, [op |-> "issue", piece |-> p, member |-> m, tagged |-> FALSE,
                            recorded |-> recorded],
                     piece[p], "open")
          \/ Refuse(r)
  /\ UNCHANGED <<piece, assignment, crashes>>

\* Is it given out already?
CheckOpen(r) ==
  /\ pc[r] = "open" /\ task[r].op = "issue"
  /\ IF OpenOf(task[r].piece) # {} THEN Finish(r)
     ELSE GoTo(r, "give") /\ UNCHANGED <<task, mem, open, dirty>>
  /\ UNCHANGED <<piece, assignment, crashes, contended>>

\* Mutant: no index, the check has been made.
AdmittedWithoutIndex(p) == TRUE

\* idx_eq_assign_open
Admitted(p) == OpenOf(p) = {}

\* What issue and returnItem do last: the condition goes into the entity they
\* loaded first, and the whole of it is saved.
RecordCondition(r) ==
  IF task[r].recorded THEN GoTo(r, "reload") /\ UNCHANGED <<task, mem, open, dirty>>
  ELSE Finish(r)

\* The INSERT of the assignment.
Give(r) ==
  /\ pc[r] = "give"
  /\ LET p == task[r].piece
     IN  IF Admitted(p)
         THEN /\ assignment' = [assignment EXCEPT
                   ![r] = [piece |-> p, member |-> task[r].member, closedBy |-> None]]
              /\ RecordCondition(r)
         ELSE Finish(r) /\ UNCHANGED assignment
  /\ UNCHANGED <<piece, crashes, contended>>

\* returnItem: the piece ...
Return(r) ==
  /\ CanStart(r, "return")
  /\ \E p \in Pieces, recorded \in BOOLEAN :
       /\ piece[p] # None
       /\ Load(r, p, [NoTask EXCEPT !.op = "return", !.piece = p, !.recorded = recorded],
               piece[p], "open")
  /\ UNCHANGED <<piece, assignment, crashes>>

\* Mutant: the latest assignment, open or not.
FoundAny(p) == {a \in Requests : assignment[a] # None /\ assignment[a].piece = p}

\* The assignment a return finds.
Found(p) == OpenOf(p)

\* ... its open assignment, if there is one and the date entered is not
\* before its issue ...
FindOpen(r) ==
  /\ pc[r] = "open" /\ task[r].op = "return"
  /\ \/ /\ \E a \in Found(task[r].piece) :
             /\ open' = [open EXCEPT ![r] = a]
             /\ contended' = IF \E s \in Requests \ {r} : open[s] = a
                             THEN contended \union {a} ELSE contended
        /\ GoTo(r, "take")
        /\ UNCHANGED <<task, mem, dirty>>
     \/ Refuse(r)
  /\ UNCHANGED <<piece, assignment, crashes>>

\* ... and its save, one step since nobody else changes the columns it leaves.
Take(r) ==
  /\ pc[r] = "take"
  /\ assignment' = [assignment EXCEPT ![open[r]] = [@ EXCEPT !.closedBy = r]]
  /\ RecordCondition(r)
  /\ UNCHANGED <<piece, crashes, contended>>

-----------------------------------------------------------------------------
(* The system *)

\* A restart cuts off every request; what was saved stays.
Crash ==
  /\ crashes < MaxCrashes
  /\ \E r \in Requests : pc[r] \notin {"new", "done"}
  /\ crashes' = crashes + 1
  /\ pc' = [r \in Requests |-> IF pc[r] = "new" THEN "new" ELSE "done"]
  /\ task' = [r \in Requests |-> NoTask]
  /\ mem' = [r \in Requests |-> None]
  /\ open' = [r \in Requests |-> None]
  /\ dirty' = [r \in Requests |-> {}]
  /\ UNCHANGED <<piece, assignment, contended>>

Arrive(r) == Create(r) \/ EditPiece(r) \/ Deactivate(r) \/ Issue(r) \/ Return(r)

Serve(r) ==
  \/ CheckNumber(r) \/ CheckTag(r) \/ Insert(r) \/ Reload(r) \/ Update(r)
  \/ CheckOpen(r) \/ Give(r) \/ FindOpen(r) \/ Take(r)

Next == (\E r \in Requests : Arrive(r) \/ Serve(r)) \/ Crash

Spec == Init /\ [][Next]_vars

-----------------------------------------------------------------------------
(* Properties *)

\* A piece is with one member at most, each assignment is closed once and for
\* all (ADR-009; "a piece has one open assignment at most",
\* equipment-assignment.entity.ts:16-20), however requests overlap.
Of == [a \in Requests |->
         IF assignment[a] = None THEN None
         ELSE [piece |-> assignment[a].piece, member |-> assignment[a].member]]
Out == {a \in Requests : IsOpen(a)}
CustodyOf == INSTANCE Custody WITH Assignments <- Requests, of <- Of, out <- Out
CustodySpec == CustodyOf!Spec

\* The history of assignments is permanent (equipment-assignment.entity.ts):
\* who took a piece back, and how, changes only under two returns that found
\* the same assignment open.
HistoryStays ==
  [][\A a \in Requests \ contended :
       assignment[a] # None /\ ~IsOpen(a) => assignment'[a] = assignment[a]]_vars

\* "The QR code is made anew when the number changes" (update): a piece with a
\* number carries the code of that number, unless two requests held it at once.
QrFollowsNumber ==
  \A p \in Pieces \ contended :
    piece[p] # None /\ piece[p].number # None => piece[p].qr = piece[p].number

\* What a scan with this UID finds: findByNfcUid.
Scanned(uid) == {p \in Pieces : Active(p) /\ piece[p].tag = Normalised(uid)}

\* What create stores as it was entered, and no scan asks for.
AsEntered == {uid \in NewTags \ {None} : uid # Normalised(uid)}

\* "Stored normalised; globally unique, since one physical tag is one only"
\* (docs/API.md:245): a scan of the tag of an active piece finds that piece
\* and no other, in whatever spelling its UID was entered or is read.  A tag
\* that stands as create entered it is the exception: create does not
\* normalise, no scan finds it, and the index lets the same tag stand with
\* another piece in another spelling.
ScanFindsThePiece ==
  \A p \in Pieces, spelling \in Spellings :
    Active(p) /\ piece[p].tag \notin AsEntered \union {None}
      => Scanned(<<piece[p].tag[1], spelling>>) = {p}

\* A piece is found by what is printed on it and, unless it is tagged as
\* create entered it, by what is fixed to it, whatever was edited in which
\* order.
FoundByItsMarks == QrFollowsNumber /\ ScanFindsThePiece
=============================================================================
