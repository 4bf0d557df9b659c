-------------------------------- MODULE Accounts --------------------------------
(***************************************************************************)
(* The account of one member: sign-in in one or two steps, the codes of    *)
(* the second factor, the links that reset a password, and token_version,  *)
(* which revokes every refresh token at once (AuthService, and the writers *)
(* of the users table in UsersService).                                    *)
(*                                                                         *)
(* A request reads the row in one statement and writes in a later one;     *)
(* requests overlap.  The writes of AuthService name their columns, those  *)
(* of UsersService save the row they read: whatever findEntity selects and *)
(* others have changed since is put back (passwordHash, totpSecret,        *)
(* totpBackupCodes and passwordResetToken are select: false and stay out   *)
(* of it).  A password is right or wrong; its value, the profile and the   *)
(* roles are left out.                                                     *)
(***************************************************************************)
EXTENDS Naturals, FiniteSets

CONSTANTS
  Requests,    \* requests on the account that are under way at a time
  Indices,     \* the backup codes of one enablement (eight in the code)
  MaxEpochs,   \* bound on revocations
  MaxSecrets,  \* bound on setups
  MaxLinks,    \* bound on reset links
  MaxBegun     \* bound on requests that read the row

ASSUME AccountsAssumption == {MaxEpochs, MaxSecrets, MaxLinks, MaxBegun} \subseteq Nat

VARIABLES
  row,        \* the row of users
  pc,         \* where each request is
  seen,       \* the row each request has read, and the epoch it was read in
  dirty,      \* the columns the save of each request will write
  pending,    \* a pending token has been signed
  tokens,     \* refresh tokens that were ever signed
  begun,      \* requests that have read the row
  epoch,      \* history: revocations so far
  minted,     \* history: secrets, links and lists of codes generated so far
  accepted,   \* history: backup codes that were accepted
  used,       \* history: links a password was reset with
  undone,     \* history: a save has put back an older token_version
  bare        \* history: enable2fa has put a factor without a secret in force

requestVars == <<pc, seen, dirty, begun>>
history == <<epoch, minted, accepted, used, undone, bare>>
vars == <<row, requestVars, pending, tokens, history>>

\* A backup code is one of a list; 0 stands for a NULL secret or link.
Codes == Nat \X Indices
Rows == [version : Nat, enabled : BOOLEAN, secret : Nat, codes : SUBSET Codes,
         active : BOOLEAN, link : Nat]

FreshRow == [version |-> 0, enabled |-> FALSE, secret |-> 0, codes |-> {},
             active |-> TRUE, link |-> 0]

Places == {"idle", "login", "verify", "verified", "setup", "enable",
           "disable", "disabling", "reset", "save", "update"}

\* What a save can put back: selected, and written by others.
Columns == {"version", "enabled", "active"}

Nothing == [row |-> FreshRow, epoch |-> 0]

\* Every variable keeps its type, and token_version counts nothing but
\* revocations.
TypeOK ==
  /\ row \in Rows /\ row.version <= epoch
  /\ pc \in [Requests -> Places]
  /\ seen \in [Requests -> [row : Rows, epoch : Nat]]
  /\ dirty \in [Requests -> SUBSET Columns]
  /\ pending \in BOOLEAN
  /\ tokens \subseteq [v : Nat, epoch : Nat, factor : BOOLEAN]
  /\ begun \in Nat /\ epoch \in Nat
  /\ minted \in [secret : Nat, link : Nat, codes : Nat]
  /\ accepted \subseteq Codes /\ used \subseteq Nat
  /\ undone \in BOOLEAN /\ bare \in BOOLEAN

Init ==
  /\ row = FreshRow
  /\ pc = [r \in Requests |-> "idle"]
  /\ seen = [r \in Requests |-> Nothing]
  /\ dirty = [r \in Requests |-> {}]
  /\ pending = FALSE /\ tokens = {}
  /\ begun = 0 /\ epoch = 0
  /\ minted = [secret |-> 0, link |-> 0, codes |-> 0]
  /\ accepted = {} /\ used = {}
  /\ undone = FALSE /\ bare = FALSE

\* A request reads the row and goes on to its next statement.
Load(r, place) ==
  /\ pc[r] = "idle" /\ begun < MaxBegun
  /\ pc' = [pc EXCEPT ![r] = place]
  /\ seen' = [seen EXCEPT ![r] = [row |-> row, epoch |-> epoch]]
  /\ begun' = begun + 1
  /\ UNCHANGED <<row, dirty, pending, tokens, history>>

\* A request answers.
Answer(r) ==
  /\ pc' = [pc EXCEPT ![r] = "idle"]
  /\ seen' = [seen EXCEPT ![r] = Nothing]
  /\ dirty' = [dirty EXCEPT ![r] = {}]
  /\ UNCHANGED begun

\* token_version = token_version + 1, together with other columns.
Revoke(written) ==
  /\ epoch < MaxEpochs
  /\ epoch' = epoch + 1
  /\ row' = [written EXCEPT !.version = row.version + 1]

\* refresh: the token is exchanged for one with the same version.
Usable(t) == row.active /\ t.v = row.version

TwoFactor(account) == account.enabled /\ account.secret # 0

-----------------------------------------------------------------------------
(* login and verify2fa *)

\* The password is right; with a second factor that is in force, a pending
\* token is the answer.
LoginLoad(r) ==
  /\ row.active /\ ~TwoFactor(row)
  /\ Load(r, "login")

LoginPending ==
  /\ row.active /\ TwoFactor(row)
  /\ pending' = TRUE
  /\ UNCHANGED <<row, requestVars, tokens, history>>

VerifyLoad(r) ==
  /\ pending
  /\ row.active /\ TwoFactor(row)
  /\ Load(r, "verify")

\* last_login_at is set, then the tokens are signed from the row that was
\* read; verify2fa comes here with a TOTP code or a spent backup code.
SignIn(r) ==
  /\ pc[r] \in {"login", "verify", "verified"}
  /\ tokens' = tokens \union
       {[v |-> seen[r].row.version, epoch |-> seen[r].epoch, factor |-> pc[r] # "login"]}
  /\ Answer(r)
  /\ UNCHANGED <<row, pending, history>>

\* consumeSecondFactor with a backup code: the list that was read is written
\* back without it.
Spend(r) ==
  /\ pc[r] \in {"verify", "disable"}
  /\ \E c \in seen[r].row.codes :
       /\ row' = [row EXCEPT !.codes = seen[r].row.codes \ {c}]
       /\ accepted' = accepted \union {c}
  /\ pc' = [pc EXCEPT ![r] = IF pc[r] = "verify" THEN "verified" ELSE "disabling"]
  /\ UNCHANGED <<seen, dirty, begun, pending, tokens, epoch, minted, used, undone, bare>>

\* A wrong code is refused; a server that stops leaves a request here, too.
Refuse(r) ==
  /\ pc[r] # "idle"
  /\ Answer(r)
  /\ UNCHANGED <<row, pending, tokens, history>>

-----------------------------------------------------------------------------
(* setup2fa, enable2fa and disable2fa *)

SetupLoad(r) == ~row.enabled /\ Load(r, "setup")

Setup(r) ==
  /\ pc[r] = "setup"
  /\ minted.secret < MaxSecrets
  /\ minted' = [minted EXCEPT !.secret = @ + 1]
  /\ row' = [row EXCEPT !.secret = minted.secret + 1]
  /\ Answer(r)
  /\ UNCHANGED <<pending, tokens, epoch, accepted, used, undone, bare>>

\* The code was one of the secret that was read.
EnableLoad(r) == row.secret # 0 /\ ~row.enabled /\ Load(r, "enable")

\* Mutant: enable2fa leaves token_version as it is.
EnableKeepsTokens(r) ==
  /\ pc[r] = "enable"
  /\ epoch < MaxEpochs /\ epoch' = epoch + 1
  /\ minted' = [minted EXCEPT !.codes = @ + 1]
  /\ row' = [row EXCEPT !.enabled = TRUE, !.codes = {minted.codes + 1} \X Indices]
  /\ bare' = (bare \/ row.secret = 0)
  /\ Answer(r)
  /\ UNCHANGED <<pending, tokens, accepted, used, undone>>

Enable(r) ==
  /\ pc[r] = "enable"
  /\ minted' = [minted EXCEPT !.codes = @ + 1]
  /\ Revoke([row EXCEPT !.enabled = TRUE, !.codes = {minted.codes + 1} \X Indices])
  /\ bare' = (bare \/ row.secret = 0)
  /\ Answer(r)
  /\ UNCHANGED <<pending, tokens, accepted, used, undone>>

DisableLoad(r) == row.enabled /\ Load(r, "disable")

\* Password and code are right: a TOTP code needs the secret that was read.
Disable(r) ==
  /\ \/ pc[r] = "disable" /\ seen[r].row.secret # 0
     \/ pc[r] = "disabling"
  /\ Revoke([row EXCEPT !.enabled = FALSE, !.secret = 0, !.codes = {}])
  /\ Answer(r)
  /\ UNCHANGED <<pending, tokens, minted, accepted, used, undone, bare>>

-----------------------------------------------------------------------------
(* forgotPassword, resetPassword and changePassword *)

\* A new link takes the place of the one before.
ForgotPassword ==
  /\ minted.link < MaxLinks
  /\ minted' = [minted EXCEPT !.link = @ + 1]
  /\ row' = [row EXCEPT !.link = minted.link + 1]
  /\ UNCHANGED <<requestVars, pending, tokens, epoch, accepted, used, undone, bare>>

\* The row is found by the link; an hour after it was sent it is refused.
ResetLoad(r) == row.link # 0 /\ Load(r, "reset")

\* Mutant: a new password by a link leaves token_version as it is.
ResetKeepsTokens(r) ==
  /\ pc[r] = "reset"
  /\ epoch < MaxEpochs /\ epoch' = epoch + 1
  /\ row' = [row EXCEPT !.link = 0]
  /\ used' = used \union {seen[r].row.link}
  /\ Answer(r)
  /\ UNCHANGED <<pending, tokens, minted, accepted, undone, bare>>

Reset(r) ==
  /\ pc[r] = "reset"
  /\ Revoke([row EXCEPT !.link = 0])
  /\ used' = used \union {seen[r].row.link}
  /\ Answer(r)
  /\ UNCHANGED <<pending, tokens, minted, accepted, undone, bare>>

\* The current password was right; nothing else that was read is written.
ChangePassword ==
  /\ Revoke(row)
  /\ UNCHANGED <<requestVars, pending, tokens, minted, accepted, used, undone, bare>>

-----------------------------------------------------------------------------
(* update, updateAvailability, updateSpinNotifications and deactivate *)

SaveLoad(r) == Load(r, "save")

\* The request sets is_active (update, deactivate) or profile data, and the
\* row is read again: what differs will be written.
Reload(r) ==
  /\ pc[r] = "save"
  /\ pc' = [pc EXCEPT ![r] = "update"]
  /\ \E active \in BOOLEAN :
       LET entity == [seen[r].row EXCEPT !.active = active]
       IN  /\ seen' = [seen EXCEPT ![r] = [row |-> entity, epoch |-> seen[r].epoch]]
           /\ dirty' = [dirty EXCEPT ![r] = {c \in Columns : entity[c] # row[c]}]
  /\ UNCHANGED <<row, begun, pending, tokens, history>>

\* Mutant: passwordResetToken is selected with the row, so that it is put
\* back with the rest.
UpdatedWithLink(entity, columns) ==
  [row EXCEPT !.version = entity.version, !.enabled = entity.enabled,
              !.active = entity.active, !.link = entity.link]

\* Mutant: token_version is counted up by every save.
UpdatedCounts(entity, columns) ==
  [row EXCEPT !.version = @ + 1,
              !.active = IF "active" \in columns THEN entity.active ELSE @]

Updated(entity, columns) ==
  [row EXCEPT !.version = IF "version" \in columns THEN entity.version ELSE @,
              !.enabled = IF "enabled" \in columns THEN entity.enabled ELSE @,
              !.active = IF "active" \in columns THEN entity.active ELSE @]

\* UPDATE of the columns that differed.
Update(r) ==
  /\ pc[r] = "update"
  /\ row' = Updated(seen[r].row, dirty[r])
  /\ undone' = (undone \/ ("version" \in dirty[r] /\ row.version # seen[r].row.version))
  /\ Answer(r)
  /\ UNCHANGED <<pending, tokens, epoch, minted, accepted, used, bare>>

-----------------------------------------------------------------------------

Step(r) ==
  \/ LoginLoad(r) \/ VerifyLoad(r) \/ SignIn(r) \/ Spend(r) \/ Refuse(r)
  \/ SetupLoad(r) \/ Setup(r) \/ EnableLoad(r) \/ Enable(r) \/ DisableLoad(r) \/ Disable(r)
  \/ ResetLoad(r) \/ Reset(r) \/ SaveLoad(r) \/ Reload(r) \/ Update(r)

Next ==
  \/ LoginPending \/ ForgotPassword \/ ChangePassword
  \/ \E r \in Requests : Step(r)

Spec == Init /\ [][Next]_vars

-----------------------------------------------------------------------------
(* Properties *)

\* A password reset or changed by the member, and each change of the second
\* factor, ends every session that is open or being opened: no token whose
\* sign-in read the row before it is ever accepted again, unless a save put
\* back an older token_version (AuthService.refresh, signRefreshToken).
RevokedStayRevoked ==
  ~undone => \A t \in tokens : Usable(t) => t.epoch = epoch

\* While the second factor is in force, every session that is accepted has
\* gone through it, also one whose sign-in began before it was enabled, and
\* whatever setups and enablements write over one another: unless a save put
\* back an older token_version, or enable2fa put it in force after a
\* disablement had removed the secret, when login does not ask for it.  Which
\* secret is in force is not promised: setup2fa, or another enablement, may
\* replace the one whose code was checked (AuthService.login, enable2fa).
SecondFactorInForce ==
  ~undone /\ ~bare /\ row.enabled => \A t \in tokens : Usable(t) => t.factor

\* A backup code that was accepted is deleted (the comment of
\* AuthService.consumeSecondFactor, "porabljena se izbrise").
SpentCodesGone == row.codes \cap accepted = {}

\* A link that has reset a password is refused from then on, whatever else is
\* written to the row meanwhile (AuthService.resetPassword, and the writers
\* that save the whole row).
LinkResetsOnce == row.link = 0 \/ row.link \notin used
===============================================================================
