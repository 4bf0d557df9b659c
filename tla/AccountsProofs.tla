----------------------------- MODULE AccountsProofs -----------------------------
(***************************************************************************)
(* For any number of overlapping requests, saves and revocations.  The     *)
(* properties follow from one inductive invariant: while no save has put   *)
(* back an older version, token_version is the number of revocations, so   *)
(* that a request knows from the version it has read whether the second    *)
(* factor has changed since (VersionInv); links are never generated twice  *)
(* (MintedInv).                                                            *)
(***************************************************************************)
EXTENDS Accounts, TLAPS

\* What is in use was generated before.
MintedInv ==
  /\ row.link <= minted.link
  /\ \A l \in used : l <= minted.link
  /\ \A r \in Requests : seen[r].row.link <= minted.link

\* What a request has checked in the row it read.
ReadOK(r) ==
  /\ pc[r] # "idle" => seen[r].row.version <= epoch

ReadInv == \A r \in Requests : ReadOK(r)

\* The version counts the revocations, and tells whether the second factor
\* has changed: a save that is to put totp_enabled_at back will put back an
\* older version, too.
VersionOK(r) ==
  pc[r] # "idle" =>
    /\ seen[r].row.version = seen[r].epoch
    /\ seen[r].epoch <= epoch
    /\ seen[r].epoch = epoch => seen[r].row.enabled = row.enabled
    /\ pc[r] = "update" /\ "enabled" \in dirty[r] =>
         "version" \in dirty[r] /\ seen[r].row.version # row.version

VersionInv ==
  ~undone =>
    /\ row.version = epoch
    /\ \A t \in tokens : t.v = t.epoch /\ t.epoch <= epoch
    /\ \A r \in Requests : VersionOK(r)

\* The second factor that is in force, so that login asks for it, and the
\* sessions open or being opened.
FactorInv ==
  ~undone /\ ~bare =>
    /\ row.enabled => row.secret # 0
    /\ row.enabled => \A t \in tokens : t.epoch = epoch => t.factor
    /\ \A r \in Requests : pc[r] = "login" /\ seen[r].epoch = epoch => ~row.enabled

IInv == TypeOK /\ MintedInv /\ ReadInv /\ VersionInv /\ FactorInv /\ LinkResetsOnce

\* Step r leaves the other requests where they are.
OnlyOf(r) ==
  \A s \in Requests \ {r} : pc'[s] = pc[s] /\ seen'[s] = seen[s] /\ dirty'[s] = dirty[s]

RequestTypes ==
  /\ pc \in [Requests -> Places]
  /\ seen \in [Requests -> [row : Rows, epoch : Nat]]
  /\ dirty \in [Requests -> SUBSET Columns]
  /\ begun \in Nat

LEMMA FreshTyped == FreshRow \in Rows /\ Nothing \in [row : Rows, epoch : Nat]
  BY DEF FreshRow, Nothing, Rows

LEMMA InitOK == Init => IInv
<1> SUFFICES ASSUME Init PROVE IInv
  OBVIOUS
<1>1. TypeOK
  <2>1. RequestTypes
    BY FreshTyped DEF Init, RequestTypes, Places
  <2>2. row \in Rows /\ row.version <= epoch
    BY FreshTyped DEF Init, FreshRow
  <2>3. minted \in [secret : Nat, link : Nat, codes : Nat]
    BY DEF Init
  <2> QED BY <2>1, <2>2, <2>3 DEF Init, TypeOK, RequestTypes
<1>2. MintedInv
  BY DEF Init, MintedInv, FreshRow, Nothing
<1>3. ReadInv /\ VersionInv /\ FactorInv /\ LinkResetsOnce
  BY DEF Init, ReadInv, ReadOK, VersionInv, VersionOK, FactorInv, LinkResetsOnce, FreshRow
<1> QED BY <1>1, <1>2, <1>3 DEF IInv

-----------------------------------------------------------------------------
(* Reading the row *)

LEMMA LoadOK ==
  ASSUME IInv, NEW r \in Requests, NEW place \in Places \ {"idle", "update"}, Load(r, place),
         place = "login" => ~TwoFactor(row)
  PROVE  IInv'
<1>1. [row |-> row, epoch |-> epoch] \in [row : Rows, epoch : Nat]
  BY DEF IInv, TypeOK
<1>2. /\ RequestTypes'
      /\ pc'[r] = place /\ seen'[r] = [row |-> row, epoch |-> epoch]
      /\ OnlyOf(r)
  BY <1>1 DEF IInv, TypeOK, Load, RequestTypes, OnlyOf
<1>3. UNCHANGED <<row, pending, tokens, epoch, minted, accepted, used, undone, bare>>
  BY DEF Load, history
<1>4. TypeOK'
  BY <1>2, <1>3 DEF IInv, TypeOK, RequestTypes
<1>5. seen'[r].row = row /\ seen'[r].epoch = epoch
  BY <1>2
<1>6. MintedInv'
  <2>1. \A s \in Requests : seen'[s].row = row \/ seen'[s] = seen[s]
    BY <1>2, <1>5 DEF OnlyOf
  <2> QED BY <1>3, <2>1 DEF IInv, MintedInv
<1>7. ReadInv'
  <2>1. ReadOK(r)'
    BY <1>2, <1>3, <1>5 DEF IInv, TypeOK, ReadOK
  <2>2. ASSUME NEW s \in Requests \ {r} PROVE ReadOK(s)'
    BY <1>2, <1>3 DEF IInv, ReadInv, ReadOK, OnlyOf
  <2> QED BY <2>1, <2>2 DEF ReadInv
<1>8. VersionInv'
  <2> SUFFICES ASSUME ~undone PROVE \A s \in Requests : VersionOK(s)'
    BY <1>3 DEF IInv, VersionInv
  <2>1. VersionOK(r)'
    BY <1>2, <1>3, <1>5 DEF IInv, TypeOK, VersionInv, VersionOK
  <2>2. ASSUME NEW s \in Requests \ {r} PROVE VersionOK(s)'
    BY <1>2, <1>3 DEF IInv, VersionInv, VersionOK, OnlyOf
  <2> QED BY <2>1, <2>2
<1>9. FactorInv'
  <2> SUFFICES ASSUME ~undone, ~bare, NEW s \in Requests, pc'[s] = "login", seen'[s].epoch = epoch
               PROVE  ~row.enabled
    BY <1>3 DEF IInv, FactorInv
  <2>1. CASE s = r
    BY <1>2, <2>1 DEF IInv, FactorInv, TwoFactor
  <2>2. CASE s # r
    BY <1>2, <2>2 DEF IInv, FactorInv, OnlyOf
  <2> QED BY <2>1, <2>2
<1> QED BY <1>3, <1>4, <1>6, <1>7, <1>8, <1>9 DEF IInv, LinkResetsOnce

-----------------------------------------------------------------------------
(* Writing it *)

\* Every request is where it was, or has answered.
RequestsLeft ==
  \A s \in Requests : \/ pc'[s] = "idle" /\ seen'[s] = Nothing
                      \/ pc'[s] = pc[s] /\ seen'[s] = seen[s] /\ dirty'[s] = dirty[s]

LEMMA AnswerLeaves ==
  ASSUME IInv, NEW r \in Requests, Answer(r)
  PROVE  RequestTypes' /\ RequestsLeft
  BY FreshTyped DEF IInv, TypeOK, Answer, RequestTypes, RequestsLeft, Places

LEMMA UnchangedLeaves ==
  ASSUME IInv, UNCHANGED requestVars
  PROVE  RequestTypes' /\ RequestsLeft
  BY DEF IInv, TypeOK, requestVars, RequestTypes, RequestsLeft

LEMMA ReadKept ==
  ASSUME IInv, RequestsLeft, epoch' \in {epoch, epoch + 1}
  PROVE  ReadInv'
<1> SUFFICES ASSUME NEW s \in Requests, pc'[s] = pc[s], seen'[s] = seen[s] PROVE ReadOK(s)'
  BY DEF RequestsLeft, ReadInv, ReadOK
<1>1. seen[s].row.version \in Nat /\ epoch \in Nat
  BY DEF IInv, TypeOK, Rows
<1> QED BY <1>1 DEF IInv, ReadInv, ReadOK

\* Nothing that VersionInv is about changes.
LEMMA VersionKept ==
  ASSUME IInv, RequestsLeft, UNCHANGED <<epoch, undone>>,
         row'.version = row.version, row'.enabled = row.enabled,
         \A t \in tokens' \ tokens : ~undone => t.v = t.epoch /\ t.epoch <= epoch
  PROVE  VersionInv'
<1> SUFFICES ASSUME ~undone PROVE \A s \in Requests : VersionOK(s)'
  BY DEF IInv, VersionInv
<1> QED BY DEF IInv, VersionInv, VersionOK, RequestsLeft

\* A revocation makes every version that was read or signed an old one.
LEMMA VersionRevoked ==
  ASSUME IInv, RequestsLeft, UNCHANGED <<tokens, undone>>,
         row'.version = row.version + 1, epoch' = epoch + 1
  PROVE  VersionInv'
<1> SUFFICES ASSUME ~undone
             PROVE  /\ row'.version = epoch'
                    /\ \A t \in tokens : t.v = t.epoch /\ t.epoch <= epoch'
                    /\ \A s \in Requests : VersionOK(s)'
  BY DEF VersionInv
<1>1. \A t \in tokens : t.v = t.epoch /\ t.epoch <= epoch /\ t.epoch \in Nat
  BY DEF IInv, TypeOK, VersionInv
<1>2. ASSUME NEW s \in Requests PROVE VersionOK(s)'
  <2>1. CASE pc'[s] = "idle"
    BY <2>1 DEF VersionOK
  <2>2. CASE pc'[s] = pc[s] /\ seen'[s] = seen[s] /\ dirty'[s] = dirty[s]
    <3>1. pc[s] # "idle" => /\ seen[s].row.version = seen[s].epoch /\ seen[s].epoch <= epoch
                            /\ seen[s].epoch \in Nat /\ epoch \in Nat
                            /\ "enabled" \in dirty[s] /\ pc[s] = "update" => "version" \in dirty[s]
      BY DEF IInv, TypeOK, VersionInv, VersionOK
    <3>2. epoch' = epoch + 1 /\ row'.version = epoch + 1
      BY DEF IInv, VersionInv
    <3> QED BY <2>2, <3>1, <3>2 DEF VersionOK
  <2> QED BY <2>1, <2>2 DEF RequestsLeft
<1> QED BY <1>1, <1>2 DEF IInv, TypeOK, VersionInv

\* After a revocation, what is in force is all that matters: no session is
\* open, and none is being opened.
LEMMA FactorRevoked ==
  ASSUME IInv, RequestsLeft, UNCHANGED <<tokens, undone>>, epoch' = epoch + 1,
         bare' \in BOOLEAN, ~bare' => ~bare,
         ~undone /\ ~bare' /\ row'.enabled => row'.secret # 0
  PROVE  FactorInv'
<1> SUFFICES ASSUME ~undone, ~bare'
             PROVE  /\ \A t \in tokens : t.epoch # epoch'
                    /\ \A s \in Requests : pc'[s] = "login" => seen'[s].epoch # epoch'
  BY DEF FactorInv
<1>1. \A t \in tokens : t.epoch <= epoch /\ t.epoch \in Nat
  BY DEF IInv, TypeOK, VersionInv
<1>2. ASSUME NEW s \in Requests, pc'[s] = "login" PROVE seen'[s].epoch # epoch'
  <2>1. pc[s] = "login" /\ seen'[s] = seen[s]
    BY <1>2 DEF RequestsLeft
  <2>2. seen[s].epoch <= epoch /\ seen[s].epoch \in Nat /\ epoch \in Nat
    BY <2>1 DEF IInv, TypeOK, VersionInv, VersionOK
  <2> QED BY <2>1, <2>2
<1>3. epoch \in Nat
  BY DEF IInv, TypeOK
<1> QED BY <1>1, <1>2, <1>3

\* Nothing that FactorInv is about changes.
LEMMA FactorKept ==
  ASSUME IInv, RequestsLeft,
         UNCHANGED <<tokens, epoch, undone, bare>>,
         row'.enabled = row.enabled, row.secret # 0 => row'.secret # 0
  PROVE  FactorInv'
<1>1. \A s \in Requests : pc'[s] = "login" => pc[s] = "login" /\ seen'[s] = seen[s]
  BY DEF RequestsLeft
<1> QED BY <1>1 DEF IInv, FactorInv

LEMMA MintedKept ==
  ASSUME IInv, RequestsLeft, UNCHANGED minted,
         row'.link \in {row.link, 0},
         \A l \in used' \ used : l <= minted.link
  PROVE  MintedInv'
<1>1. minted.link \in Nat
  BY DEF IInv, TypeOK
<1>2. \A s \in Requests : seen'[s].row.link <= minted.link
  BY <1>1 DEF IInv, MintedInv, RequestsLeft, Nothing, FreshRow
<1> QED BY <1>1, <1>2 DEF IInv, MintedInv

-----------------------------------------------------------------------------
(* The actions that write *)

LEMMA SignInOK ==
  ASSUME IInv, NEW r \in Requests, SignIn(r) PROVE IInv'
<1> DEFINE t == [v |-> seen[r].row.version, epoch |-> seen[r].epoch, factor |-> pc[r] # "login"]
<1>1. /\ UNCHANGED <<row, pending, epoch, minted, accepted, used, undone, bare>>
      /\ tokens' = tokens \union {t} /\ Answer(r) /\ pc[r] \in {"login", "verify", "verified"}
  BY DEF SignIn, history
<1>2. RequestTypes' /\ RequestsLeft
  BY <1>1, AnswerLeaves
<1>3. t \in [v : Nat, epoch : Nat, factor : BOOLEAN]
  BY DEF IInv, TypeOK, Rows
<1>4. TypeOK'
  BY <1>1, <1>2, <1>3 DEF IInv, TypeOK, RequestTypes
<1>5. ~undone => /\ t.v = t.epoch /\ t.epoch <= epoch
                 /\ t.epoch = epoch => seen[r].row.enabled = row.enabled
  BY <1>1 DEF IInv, VersionInv, VersionOK
<1>6. VersionInv'
  BY <1>1, <1>2, <1>5, VersionKept
<1>7. FactorInv'
  <2>1. \A s \in Requests : pc'[s] = "login" => pc[s] = "login" /\ seen'[s] = seen[s]
    BY <1>2 DEF RequestsLeft
  <2>2. ~undone /\ ~bare /\ row.enabled /\ t.epoch = epoch => t.factor
    BY <1>1 DEF IInv, FactorInv
  <2> HIDE DEF t
  <2> QED BY <1>1, <2>1, <2>2 DEF IInv, FactorInv
<1>8. MintedInv' /\ ReadInv'
  BY <1>1, <1>2, MintedKept, ReadKept
<1> QED BY <1>1, <1>4, <1>6, <1>7, <1>8 DEF IInv, LinkResetsOnce

LEMMA RefuseOK ==
  ASSUME IInv, NEW r \in Requests, Refuse(r) PROVE IInv'
<1>1. /\ UNCHANGED <<row, pending, tokens, epoch, minted, accepted, used, undone, bare>>
      /\ Answer(r)
  BY DEF Refuse, history
<1>2. RequestTypes' /\ RequestsLeft
  BY <1>1, AnswerLeaves
<1>3. TypeOK'
  BY <1>1, <1>2 DEF IInv, TypeOK, RequestTypes
<1>4. VersionInv' /\ FactorInv' /\ MintedInv' /\ ReadInv'
  BY <1>1, <1>2, VersionKept, FactorKept, MintedKept, ReadKept
<1> QED BY <1>1, <1>3, <1>4 DEF IInv, LinkResetsOnce

\* What a list of codes that was read, and a new one, hold.
LEMMA RowTypes ==
  ASSUME IInv
  PROVE  /\ row.version \in Nat /\ row.enabled \in BOOLEAN /\ row.secret \in Nat
         /\ row.codes \subseteq Codes /\ row.active \in BOOLEAN /\ row.link \in Nat
         /\ \A r \in Requests :
              /\ seen[r].row.version \in Nat /\ seen[r].row.enabled \in BOOLEAN
              /\ seen[r].row.secret \in Nat /\ seen[r].row.codes \subseteq Codes
              /\ seen[r].row.active \in BOOLEAN /\ seen[r].row.link \in Nat
              /\ seen[r].epoch \in Nat
         /\ minted.secret \in Nat /\ minted.link \in Nat /\ minted.codes \in Nat
         /\ epoch \in Nat
  BY DEF IInv, TypeOK, Rows

LEMMA RevokeOK ==
  ASSUME IInv, NEW written \in Rows, Revoke(written)
  PROVE  /\ row' \in Rows /\ row'.version = row.version + 1 /\ epoch' = epoch + 1
         /\ row'.enabled = written.enabled /\ row'.secret = written.secret
         /\ row'.codes = written.codes /\ row'.link = written.link
  BY RowTypes DEF Revoke, Rows

LEMMA SetupOK ==
  ASSUME IInv, NEW r \in Requests, Setup(r) PROVE IInv'
<1>1. /\ UNCHANGED <<pending, tokens, epoch, accepted, used, undone, bare>>
      /\ row' = [row EXCEPT !.secret = minted.secret + 1]
      /\ minted' = [minted EXCEPT !.secret = @ + 1]
      /\ Answer(r) /\ pc[r] = "setup"
  BY DEF Setup
<1>2. RequestTypes' /\ RequestsLeft
  BY <1>1, AnswerLeaves
<1>3. row' \in Rows /\ row'.version = row.version /\ row'.enabled = row.enabled
      /\ row'.codes = row.codes /\ row'.link = row.link
  BY <1>1, RowTypes DEF IInv, TypeOK, Rows
<1>4. minted' \in [secret : Nat, link : Nat, codes : Nat]
      /\ minted'.link = minted.link /\ minted'.codes = minted.codes
  BY <1>1 DEF IInv, TypeOK
<1>5. TypeOK'
  BY <1>1, <1>2, <1>3, <1>4 DEF IInv, TypeOK, RequestTypes
<1>6. VersionInv' /\ ReadInv'
  BY <1>1, <1>2, <1>3, VersionKept, ReadKept
<1>7. FactorInv'
  <2>1. row'.secret # 0
    BY <1>1, RowTypes DEF IInv, TypeOK, Rows
  <2> QED BY <1>1, <1>2, <1>3, <2>1, FactorKept
<1>8. MintedInv'
  <2>1. \A s \in Requests : seen'[s].row.link <= minted.link
    BY <1>2, RowTypes DEF IInv, MintedInv, RequestsLeft, Nothing, FreshRow
  <2> QED BY <1>1, <1>3, <1>4, <2>1 DEF IInv, MintedInv
<1> QED BY <1>1, <1>3, <1>5, <1>6, <1>7, <1>8 DEF IInv, LinkResetsOnce

LEMMA SpendOK ==
  ASSUME IInv, NEW r \in Requests, Spend(r) PROVE IInv'
<1> DEFINE place == IF pc[r] = "verify" THEN "verified" ELSE "disabling"
<1>1. /\ UNCHANGED <<seen, dirty, begun, pending, tokens, epoch, minted, used, undone, bare>>
      /\ pc' = [pc EXCEPT ![r] = place] /\ pc[r] \in {"verify", "disable"}
  BY DEF Spend
<1>2. PICK c \in seen[r].row.codes :
        /\ row' = [row EXCEPT !.codes = seen[r].row.codes \ {c}]
        /\ accepted' = accepted \union {c}
  BY DEF Spend
<1>3. c \in Codes
  BY RowTypes
<1>4. /\ row' \in Rows /\ row'.version = row.version /\ row'.enabled = row.enabled
      /\ row'.link = row.link /\ row'.secret = row.secret
  BY <1>2, RowTypes DEF IInv, TypeOK, Rows
<1>5. /\ RequestTypes' /\ \A s \in Requests \ {r} : pc'[s] = pc[s]
      /\ pc[r] # "idle" /\ pc[r] # "update" /\ pc'[r] = place
      /\ place \in {"verified", "disabling"}
  BY <1>1 DEF IInv, TypeOK, RequestTypes, Places
<1>6. TypeOK'
  BY <1>1, <1>2, <1>3, <1>4, <1>5 DEF IInv, TypeOK, RequestTypes
<1>7. MintedInv' /\ LinkResetsOnce'
  BY <1>1, <1>4 DEF IInv, MintedInv, LinkResetsOnce
<1>8. ReadInv'
  BY <1>1, <1>5 DEF IInv, ReadInv, ReadOK
<1>9. VersionInv'
  BY <1>1, <1>4, <1>5 DEF IInv, VersionInv, VersionOK
<1>10. FactorInv'
  BY <1>1, <1>4, <1>5 DEF IInv, FactorInv
<1> QED BY <1>6, <1>7, <1>8, <1>9, <1>10 DEF IInv

LEMMA EnableOK ==
  ASSUME IInv, NEW r \in Requests, Enable(r) PROVE IInv'
<1> DEFINE list == {minted.codes + 1} \X Indices
           written == [row EXCEPT !.enabled = TRUE, !.codes = list]
<1>1. /\ UNCHANGED <<pending, tokens, accepted, used, undone>>
      /\ minted' = [minted EXCEPT !.codes = @ + 1]
      /\ bare' = (bare \/ row.secret = 0)
      /\ Answer(r) /\ pc[r] = "enable" /\ epoch' = epoch + 1
      /\ Revoke(written)
  BY DEF Enable, Revoke
<1>2. list \subseteq Codes
  BY RowTypes DEF Codes
<1>3. RequestTypes' /\ RequestsLeft
  BY <1>1, AnswerLeaves
<1>4. written \in Rows /\ written.link = row.link /\ written.secret = row.secret
  <2> HIDE DEF list
  <2> QED BY <1>2, RowTypes DEF IInv, TypeOK, Rows
<1> HIDE DEF written
<1>5. /\ row' \in Rows /\ row'.version = row.version + 1
      /\ row'.link = row.link /\ row'.secret = row.secret
  BY <1>1, <1>4, RevokeOK
<1>6. minted' \in [secret : Nat, link : Nat, codes : Nat] /\ minted'.link = minted.link
  BY <1>1 DEF IInv, TypeOK
<1>7. TypeOK'
  BY <1>1, <1>3, <1>5, <1>6, RowTypes DEF IInv, TypeOK, RequestTypes
<1>8. VersionInv' /\ ReadInv'
  BY <1>1, <1>3, <1>5, VersionRevoked, ReadKept
<1>9. FactorInv'
  <2>1. bare' \in BOOLEAN /\ (~bare' => ~bare /\ row'.secret # 0)
    BY <1>1, <1>5 DEF IInv, TypeOK
  <2> QED BY <1>1, <1>3, <2>1, FactorRevoked
<1>10. MintedInv'
  <2>1. \A s \in Requests : seen'[s].row.link <= minted.link
    BY <1>3, RowTypes DEF IInv, MintedInv, RequestsLeft, Nothing, FreshRow
  <2> QED BY <1>1, <1>5, <1>6, <2>1 DEF IInv, MintedInv
<1> QED BY <1>1, <1>5, <1>7, <1>8, <1>9, <1>10 DEF IInv, LinkResetsOnce

LEMMA DisableOK ==
  ASSUME IInv, NEW r \in Requests, Disable(r) PROVE IInv'
<1> DEFINE written == [row EXCEPT !.enabled = FALSE, !.secret = 0, !.codes = {}]
<1>1. /\ UNCHANGED <<pending, tokens, minted, accepted, used, undone, bare>>
      /\ Answer(r) /\ Revoke(written)
  BY DEF Disable
<1>2. written \in Rows /\ ~written.enabled /\ written.codes = {} /\ written.link = row.link
  BY RowTypes DEF IInv, TypeOK, Rows
<1> HIDE DEF written
<1>3. /\ row' \in Rows /\ row'.version = row.version + 1 /\ epoch' = epoch + 1
      /\ ~row'.enabled /\ row'.codes = {} /\ row'.link = row.link
  BY <1>1, <1>2, RevokeOK
<1>4. RequestTypes' /\ RequestsLeft
  BY <1>1, AnswerLeaves
<1>5. TypeOK'
  BY <1>1, <1>3, <1>4, RowTypes DEF IInv, TypeOK, RequestTypes
<1>6. FactorInv'
  BY <1>1, <1>3, <1>4, FactorRevoked DEF IInv, TypeOK
<1>7. VersionInv' /\ ReadInv' /\ MintedInv'
  BY <1>1, <1>3, <1>4, VersionRevoked, ReadKept, MintedKept
<1> QED BY <1>1, <1>3, <1>5, <1>6, <1>7 DEF IInv, LinkResetsOnce

LEMMA ResetOK ==
  ASSUME IInv, NEW r \in Requests, Reset(r) PROVE IInv'
<1> DEFINE written == [row EXCEPT !.link = 0]
<1>1. /\ UNCHANGED <<pending, tokens, minted, accepted, undone, bare>>
      /\ used' = used \union {seen[r].row.link}
      /\ Answer(r) /\ Revoke(written)
  BY DEF Reset
<1>2. /\ written \in Rows /\ written.enabled = row.enabled /\ written.secret = row.secret
      /\ written.codes = row.codes /\ written.link = 0
  BY RowTypes DEF IInv, TypeOK, Rows
<1> HIDE DEF written
<1>3. /\ row' \in Rows /\ row'.version = row.version + 1 /\ epoch' = epoch + 1
      /\ row'.enabled = row.enabled /\ row'.secret = row.secret
      /\ row'.codes = row.codes /\ row'.link = 0
  BY <1>1, <1>2, RevokeOK
<1>4. RequestTypes' /\ RequestsLeft
  BY <1>1, AnswerLeaves
<1>5. seen[r].row.link \in Nat /\ seen[r].row.link <= minted.link
  BY RowTypes DEF IInv, MintedInv
<1>6. TypeOK'
  <2>1. used' \subseteq Nat
    BY <1>1, <1>5 DEF IInv, TypeOK
  <2>2. epoch' \in Nat /\ row'.version <= epoch'
    BY <1>3, RowTypes DEF IInv, TypeOK
  <2> QED BY <1>1, <1>3, <1>4, <2>1, <2>2 DEF IInv, TypeOK, RequestTypes
<1>7. FactorInv'
  <2>1. bare' \in BOOLEAN
    BY <1>1 DEF IInv, TypeOK
  <2>2. ~undone /\ ~bare /\ row'.enabled => row'.secret # 0
    BY <1>1, <1>3 DEF IInv, FactorInv
  <2> QED BY <1>1, <1>3, <1>4, <2>1, <2>2, FactorRevoked
<1>8. VersionInv' /\ ReadInv' /\ MintedInv'
  BY <1>1, <1>3, <1>4, <1>5, VersionRevoked, ReadKept, MintedKept
<1> QED BY <1>3, <1>6, <1>7, <1>8 DEF IInv, LinkResetsOnce

LEMMA ChangePasswordOK ==
  ASSUME IInv, ChangePassword PROVE IInv'
<1>1. /\ UNCHANGED <<requestVars, pending, tokens, minted, accepted, used, undone, bare>>
      /\ Revoke(row) /\ row \in Rows
  BY DEF ChangePassword, IInv, TypeOK
<1>2. /\ row' \in Rows /\ row'.version = row.version + 1 /\ epoch' = epoch + 1
      /\ row'.enabled = row.enabled /\ row'.secret = row.secret
      /\ row'.codes = row.codes /\ row'.link = row.link
  BY <1>1, RevokeOK
<1>3. RequestTypes' /\ RequestsLeft
  BY <1>1, UnchangedLeaves
<1>4. TypeOK'
  BY <1>1, <1>2, <1>3, RowTypes DEF IInv, TypeOK, RequestTypes
<1>5. FactorInv'
  <2>1. bare' \in BOOLEAN
    BY <1>1 DEF IInv, TypeOK
  <2>2. ~undone /\ ~bare /\ row'.enabled => row'.secret # 0
    BY <1>1, <1>2 DEF IInv, FactorInv
  <2> QED BY <1>1, <1>2, <1>3, <2>1, <2>2, FactorRevoked
<1>6. VersionInv' /\ ReadInv' /\ MintedInv'
  BY <1>1, <1>2, <1>3, VersionRevoked, ReadKept, MintedKept
<1> QED BY <1>1, <1>2, <1>4, <1>5, <1>6 DEF IInv, LinkResetsOnce

\* A new link is none of those that were used.
LEMMA ForgotPasswordOK ==
  ASSUME IInv, ForgotPassword PROVE IInv'
<1>1. /\ UNCHANGED <<requestVars, pending, tokens, epoch, accepted, used, undone, bare>>
      /\ row' = [row EXCEPT !.link = minted.link + 1]
      /\ minted' = [minted EXCEPT !.link = @ + 1]
  BY DEF ForgotPassword
<1>2. row' \in Rows /\ row'.version = row.version /\ row'.enabled = row.enabled
      /\ row'.secret = row.secret /\ row'.codes = row.codes /\ row'.link = minted.link + 1
  BY <1>1, RowTypes DEF IInv, TypeOK, Rows
<1>3. minted' \in [secret : Nat, link : Nat, codes : Nat]
      /\ minted'.link = minted.link + 1 /\ minted'.codes = minted.codes
  BY <1>1 DEF IInv, TypeOK
<1>4. RequestTypes' /\ RequestsLeft
  BY <1>1, UnchangedLeaves
<1>5. TypeOK'
  BY <1>1, <1>2, <1>3, <1>4 DEF IInv, TypeOK, RequestTypes
<1>6. VersionInv' /\ FactorInv' /\ ReadInv'
  BY <1>1, <1>2, <1>4, VersionKept, FactorKept, ReadKept
<1>7. MintedInv' /\ LinkResetsOnce'
  <2>1. seen' = seen /\ (\A l \in used : l \in Nat)
    BY <1>1 DEF requestVars, IInv, TypeOK
  <2> QED BY <1>1, <1>2, <1>3, <2>1, RowTypes DEF IInv, MintedInv, LinkResetsOnce
<1> QED BY <1>5, <1>6, <1>7 DEF IInv

LEMMA ReloadOK ==
  ASSUME IInv, NEW r \in Requests, Reload(r) PROVE IInv'
<1>1. /\ UNCHANGED <<row, begun, pending, tokens, epoch, minted, accepted,
                     used, undone, bare>>
      /\ pc[r] = "save" /\ pc' = [pc EXCEPT ![r] = "update"]
  BY DEF Reload, history
<1>2. PICK active \in BOOLEAN :
        LET entity == [seen[r].row EXCEPT !.active = active]
        IN  /\ seen' = [seen EXCEPT ![r] = [row |-> entity, epoch |-> seen[r].epoch]]
            /\ dirty' = [dirty EXCEPT ![r] = {c \in Columns : entity[c] # row[c]}]
  BY DEF Reload
<1> DEFINE entity == [seen[r].row EXCEPT !.active = active]
           columns == {c \in Columns : entity[c] # row[c]}
<1>3. /\ entity \in Rows /\ entity.version = seen[r].row.version
      /\ entity.enabled = seen[r].row.enabled
      /\ entity.codes = seen[r].row.codes /\ entity.link = seen[r].row.link
  BY RowTypes DEF IInv, TypeOK, Rows
<1>4. /\ "version" \in columns <=> entity.version # row.version
      /\ "enabled" \in columns <=> entity.enabled # row.enabled
      /\ columns \subseteq Columns
  BY DEF Columns
<1>5. /\ seen' = [seen EXCEPT ![r] = [row |-> entity, epoch |-> seen[r].epoch]]
      /\ dirty' = [dirty EXCEPT ![r] = columns]
  BY <1>2
<1> HIDE DEF entity, columns
<1>6. /\ RequestTypes' /\ OnlyOf(r)
      /\ pc'[r] = "update" /\ dirty'[r] = columns
      /\ seen'[r] = [row |-> entity, epoch |-> seen[r].epoch]
  BY <1>1, <1>3, <1>4, <1>5, RowTypes DEF IInv, TypeOK, RequestTypes, OnlyOf, Places
<1>7. seen'[r].row = entity /\ seen'[r].epoch = seen[r].epoch
  BY <1>6
<1>8. TypeOK'
  BY <1>1, <1>6 DEF IInv, TypeOK, RequestTypes
<1>9. MintedInv'
  BY <1>1, <1>3, <1>6, <1>7 DEF IInv, MintedInv, OnlyOf
<1>10. ReadInv'
  <2>1. ReadOK(r)'
    BY <1>1, <1>3, <1>6, <1>7 DEF IInv, ReadInv, ReadOK
  <2>2. ASSUME NEW s \in Requests \ {r} PROVE ReadOK(s)'
    BY <1>1, <1>6 DEF IInv, ReadInv, ReadOK, OnlyOf
  <2> QED BY <2>1, <2>2 DEF ReadInv
<1>11. VersionInv'
  <2> SUFFICES ASSUME ~undone PROVE \A s \in Requests : VersionOK(s)'
    BY <1>1 DEF IInv, VersionInv
  <2>1. VersionOK(r)'
    BY <1>1, <1>3, <1>4, <1>6, <1>7 DEF IInv, VersionInv, VersionOK
  <2>2. ASSUME NEW s \in Requests \ {r} PROVE VersionOK(s)'
    BY <1>1, <1>6 DEF IInv, VersionInv, VersionOK, OnlyOf
  <2> QED BY <2>1, <2>2
<1>12. FactorInv'
  <2>1. \A s \in Requests : pc'[s] = "login" => pc[s] = "login" /\ seen'[s] = seen[s]
    BY <1>6 DEF OnlyOf
  <2> QED BY <1>1, <2>1 DEF IInv, FactorInv
<1> QED BY <1>1, <1>8, <1>9, <1>10, <1>11, <1>12 DEF IInv, LinkResetsOnce

LEMMA UpdateOK ==
  ASSUME IInv, NEW r \in Requests, Update(r) PROVE IInv'
<1>1. /\ UNCHANGED <<pending, tokens, epoch, minted, accepted, used, bare>>
      /\ undone' = (undone \/ ("version" \in dirty[r] /\ row.version # seen[r].row.version))
      /\ row' = Updated(seen[r].row, dirty[r])
      /\ Answer(r) /\ pc[r] = "update"
  BY DEF Update
<1>2. /\ row' \in Rows
      /\ row'.version = IF "version" \in dirty[r] THEN seen[r].row.version ELSE row.version
      /\ row'.enabled = IF "enabled" \in dirty[r] THEN seen[r].row.enabled ELSE row.enabled
      /\ row'.secret = row.secret /\ row'.codes = row.codes /\ row'.link = row.link
  BY <1>1, RowTypes DEF IInv, TypeOK, Rows, Updated
<1>3. RequestTypes' /\ RequestsLeft
  BY <1>1, AnswerLeaves
<1>4. TypeOK'
  <2>1. row'.version <= epoch /\ undone' \in BOOLEAN
    BY <1>1, <1>2 DEF IInv, TypeOK, ReadInv, ReadOK
  <2> QED BY <1>1, <1>2, <1>3, <2>1 DEF IInv, TypeOK, RequestTypes
<1>5. ReadInv' /\ MintedInv'
  BY <1>1, <1>2, <1>3, ReadKept, MintedKept DEF IInv, TypeOK
<1>6. VersionInv' /\ FactorInv'
  <2>1. CASE undone'
    BY <2>1 DEF VersionInv, FactorInv
  <2>2. CASE ~undone'
    <3>1. ~undone /\ row'.version = row.version /\ undone' = undone
      BY <1>1, <1>2, <2>2 DEF IInv, TypeOK
    <3>2. row'.enabled = row.enabled
      BY <1>1, <1>2, <2>2, <3>1 DEF IInv, VersionInv, VersionOK
    <3> QED BY <1>1, <1>2, <1>3, <3>1, <3>2, VersionKept, FactorKept
  <2> QED BY <2>1, <2>2
<1> QED BY <1>1, <1>2, <1>4, <1>5, <1>6 DEF IInv, LinkResetsOnce

-----------------------------------------------------------------------------
(* The theorems *)

LEMMA StepOK ==
  ASSUME IInv, [Next]_vars PROVE IInv'
<1>1. CASE UNCHANGED vars
  BY <1>1 DEF IInv, TypeOK, MintedInv, ReadInv, ReadOK, VersionInv, VersionOK, FactorInv,
              LinkResetsOnce, vars, requestVars, history
<1>2. CASE LoginPending
  <2>1. UNCHANGED <<row, pc, seen, dirty, begun, tokens, epoch, minted,
                    accepted, used, undone, bare>> /\ pending' = TRUE
    BY <1>2 DEF LoginPending, requestVars, history
  <2>2. TypeOK'
    BY <2>1 DEF IInv, TypeOK
  <2> QED BY <2>1, <2>2 DEF IInv, MintedInv, ReadInv, ReadOK, VersionInv, VersionOK, FactorInv,
                            LinkResetsOnce
<1>3. CASE ForgotPassword
  BY <1>3, ForgotPasswordOK
<1>4. CASE ChangePassword
  BY <1>4, ChangePasswordOK
<1>5. ASSUME NEW r \in Requests, Step(r) PROVE IInv'
  <2>1. CASE LoginLoad(r)
    BY <2>1, LoadOK DEF LoginLoad, Places
  <2>2. CASE VerifyLoad(r)
    BY <2>2, LoadOK DEF VerifyLoad, Places
  <2>3. CASE SetupLoad(r)
    BY <2>3, LoadOK DEF SetupLoad, Places
  <2>4. CASE EnableLoad(r)
    BY <2>4, LoadOK DEF EnableLoad, Places
  <2>5. CASE DisableLoad(r)
    BY <2>5, LoadOK DEF DisableLoad, Places
  <2>6. CASE ResetLoad(r)
    BY <2>6, LoadOK DEF ResetLoad, Places
  <2>7. CASE SaveLoad(r)
    BY <2>7, LoadOK DEF SaveLoad, Places
  <2> QED BY <1>5, <2>1, <2>2, <2>3, <2>4, <2>5, <2>6, <2>7, SignInOK, SpendOK, RefuseOK,
             SetupOK, EnableOK, DisableOK, ResetOK, ReloadOK, UpdateOK DEF Step
<1> QED BY <1>1, <1>2, <1>3, <1>4, <1>5 DEF Next

LEMMA Invariance == Spec => []IInv
<1>1. IInv /\ [Next]_vars => IInv'
  BY StepOK
<1> QED BY InitOK, <1>1, PTL DEF Spec

\* Every variable keeps its type, and token_version never runs ahead of the
\* revocations, whatever saves the row.
THEOREM TypeCorrect == Spec => []TypeOK
<1>1. IInv => TypeOK
  BY DEF IInv
<1> QED BY Invariance, <1>1, PTL

\* refresh accepts no token from before the last revocation, unless a save
\* put back an older version.
THEOREM RevokedForGood == Spec => []RevokedStayRevoked
<1>1. IInv => RevokedStayRevoked
  BY DEF IInv, VersionInv, RevokedStayRevoked, Usable
<1> QED BY Invariance, <1>1, PTL

\* With the second factor in force, every session refresh accepts has gone
\* through it, whatever setups, enablements and sign-ins overlap, unless a save
\* put back an older version or it was enabled with no secret in the row.
THEOREM FactorPassed == Spec => []SecondFactorInForce
<1>1. IInv => SecondFactorInForce
  BY DEF IInv, VersionInv, FactorInv, SecondFactorInForce, Usable
<1> QED BY Invariance, <1>1, PTL

\* A link that has reset a password never does so for a request that reads
\* the row later, whatever overlaps.
THEOREM LinkUsedUp == Spec => []LinkResetsOnce
<1>1. IInv => LinkResetsOnce
  BY DEF IInv
<1> QED BY Invariance, <1>1, PTL
===============================================================================
