------------------------------- MODULE Notices -------------------------------
(***************************************************************************)
(* How a notification goes out: NotificationsService.create, createForRoles *)
(* and sendSpinPush over FirebaseService.sendToTokens, while the members'   *)
(* devices register, sign out and disappear, and members change their       *)
(* status, their roles or are deactivated.  A notification is saved, its    *)
(* recipients looked up, the push sent in batches, the tokens that FCM has  *)
(* rejected cleared, and the time of sending saved.  FCM is external: it    *)
(* rejects the token of an app that has been removed, and every token when  *)
(* the message is too long.                                                *)
(***************************************************************************)
EXTENDS FiniteSets, Naturals

CONSTANTS
    Recipients,   \* the members of one society
    FirstGroups,  \* the groups of each member at the start
    Groupings,    \* sets of groups a member may be moved to
    Aimed,        \* the audiences a run writes to
    Muted,        \* those who have switched SPIN off
    Devices,      \* push tokens
    NoDevice,
    FcmBatch,     \* tokens per call (500 in the code)
    ListLength,   \* the newest notifications the list is made from (100)
    MaxNotices,   \* bound on notifications
    MaxMemberNews \* bound on changes of devices and of members

Groups == {"operative", "youth", "leadership", "inactive"}
Audiences == {"all", "operative", "youth", "leadership", "specific"}

ASSUME NoticesAssumption ==
    /\ FirstGroups \in [Recipients -> SUBSET Groups] /\ Groupings \subseteq SUBSET Groups
    /\ Aimed \subseteq Audiences /\ Muted \subseteq Recipients /\ NoDevice \notin Devices
    /\ FcmBatch \in Nat \ {0} /\ ListLength \in Nat \ {0}
    /\ MaxNotices \in Nat /\ MaxMemberNews \in Nat

VARIABLES
    groups,     \* users.membership_status, is_active, and the leading roles
    deviceOf,   \* users.fcm_token
    retired,    \* the tokens that FCM no longer knows
    mailings,   \* the notifications
    memberNews

noticesVars == <<groups, deviceOf, retired, mailings, memberNews>>

Mailings == 1..MaxNotices
\* History: whom a mailing reached, and who of them has changed groups since.
NoMailing == [at |-> "none", for |-> "all", ids |-> {}, spin |-> FALSE, long |-> FALSE,
              reached |-> {}, moved |-> {}, left |-> {}, rejected |-> {}]
NewMailing(for, ids, spin, long) ==
    [at |-> "saved", for |-> for, ids |-> ids, spin |-> spin, long |-> long,
     reached |-> {}, moved |-> {}, left |-> {}, rejected |-> {}]

NoticesInit ==
    /\ groups = FirstGroups
    /\ deviceOf = [m \in Recipients |-> NoDevice]
    /\ retired = {}
    /\ mailings = [n \in Mailings |-> NoMailing]
    /\ memberNews = 0

(* Whom a notification is sent to. *)
Addressed(n) ==
    {m \in Recipients :
        /\ "inactive" \notin groups[m]
        /\ mailings[n].spin => m \notin Muted
        /\ CASE mailings[n].for = "all" -> TRUE
             [] mailings[n].for = "specific" -> m \in mailings[n].ids
             [] OTHER -> mailings[n].for \in groups[m]}

Stored(n) == mailings[n].at # "none" /\ ~mailings[n].spin
StoredSince(n) == {k \in Mailings : k > n /\ Stored(k)}

(* Who finds it in the list of notifications, which findMine picks from the *)
(* newest of the society; a push of SPIN is not stored.                     *)
Listed(n, m) ==
    /\ Stored(n) /\ Cardinality(StoredSince(n)) < ListLength
    /\ \/ mailings[n].for = "all"
       \/ mailings[n].for \in {"operative", "youth", "leadership"} \cap groups[m]
       \/ mailings[n].for = "specific" /\ m \in mailings[n].ids

Mails(n, mailing) ==
    /\ mailings' = [mailings EXCEPT ![n] = mailing]
    /\ UNCHANGED <<groups, retired, memberNews>>

Writes(n, for, ids, long) ==
    /\ mailings[n].at = "none"
    /\ \A k \in 1..(n - 1) : mailings[k].at # "none"
    /\ Mails(n, NewMailing(for, ids, FALSE, long))
    /\ UNCHANGED deviceOf

(* create, for a group or for some members; createForRoles for the active   *)
(* ones with a role, if there are any.                                      *)
Create(n, for, ids, long) ==
    (for # "specific" => ids = {}) /\ Writes(n, for, ids, long)

CreateForRoles(n, ids, long) ==
    LET users == {m \in ids : "inactive" \notin groups[m]}
    IN users # {} /\ Writes(n, "specific", users, long)

SendSpinPush(n) ==
    /\ mailings[n].at = "none"
    /\ \A k \in 1..(n - 1) : mailings[k].at # "none"
    /\ Mails(n, NewMailing("operative", {}, TRUE, FALSE))
    /\ UNCHANGED deviceOf

(* The recipients are looked up, with their tokens; SQL refuses to look for *)
(* none of the members.                                                     *)
Resolve(n) ==
    /\ mailings[n].at = "saved"
    /\ ~(mailings[n].for = "specific" /\ mailings[n].ids = {})
    /\ LET tokens == {deviceOf[m] : m \in Addressed(n)} \ {NoDevice} IN
       Mails(n, [mailings[n] EXCEPT !.at = IF tokens = {} THEN "clean" ELSE "send",
                                    !.reached = Addressed(n), !.left = tokens])
    /\ UNCHANGED deviceOf

\* Mutant: a batch that is lost ends the mailing.
SendBatchUntilLost(n) ==
    /\ mailings[n].at = "send"
    /\ \E batch \in SUBSET mailings[n].left, answered \in BOOLEAN :
          LET left == mailings[n].left \ batch
              rejected == IF ~answered THEN {}
                          ELSE IF mailings[n].long THEN batch ELSE batch \cap retired
          IN  /\ batch # {} /\ (Cardinality(batch) = FcmBatch \/ left = {})
              /\ Cardinality(batch) <= FcmBatch
              /\ Mails(n, [mailings[n] EXCEPT !.at = IF answered /\ left # {}
                                                     THEN "send" ELSE "clean",
                                !.left = left,
                                !.rejected = @ \cup rejected])
    /\ UNCHANGED deviceOf

(* One batch: answered token by token, or lost as a whole. *)
SendBatch(n) ==
    /\ mailings[n].at = "send"
    /\ \E batch \in SUBSET mailings[n].left, answered \in BOOLEAN :
          LET left == mailings[n].left \ batch
              rejected == IF ~answered THEN {}
                          ELSE IF mailings[n].long THEN batch ELSE batch \cap retired
          IN  /\ batch # {} /\ (Cardinality(batch) = FcmBatch \/ left = {})
              /\ Cardinality(batch) <= FcmBatch
              /\ Mails(n, [mailings[n] EXCEPT !.at = IF left = {} THEN "clean" ELSE "send",
                                !.left = left,
                                !.rejected = @ \cup rejected])
    /\ UNCHANGED deviceOf

\* Mutant: the tokens of all recipients are cleared.
CleanedByMember(n) == [m \in Recipients |->
    IF m \in mailings[n].reached /\ mailings[n].rejected # {} THEN NoDevice ELSE deviceOf[m]]

(* The rejected tokens are cleared, whoever has them by now. *)
Cleaned(n) == [m \in Recipients |->
                  IF deviceOf[m] \in mailings[n].rejected THEN NoDevice ELSE deviceOf[m]]

CleanUp(n) ==
    /\ mailings[n].at = "clean"
    /\ deviceOf' = Cleaned(n)
    /\ Mails(n, [mailings[n] EXCEPT !.at = IF mailings[n].spin THEN "sent" ELSE "stamp"])

Stamp(n) ==
    /\ mailings[n].at = "stamp"
    /\ Mails(n, [mailings[n] EXCEPT !.at = "sent"])
    /\ UNCHANGED deviceOf

(* The database fails, or the server stops: the notification stays as it is. *)
MailingFails(n) ==
    /\ mailings[n].at \notin {"none", "sent", "failed"}
    /\ Mails(n, [mailings[n] EXCEPT !.at = "failed"])
    /\ UNCHANGED deviceOf

-----------------------------------------------------------------------------
MemberNews == memberNews < MaxMemberNews /\ memberNews' = memberNews + 1

(* updateFcmToken: at a sign-in, or empty at a sign-out. *)
UpdateFcmToken(m, d) ==
    /\ d \in (Devices \ retired) \cup {NoDevice}
    /\ deviceOf[m] # d
    /\ deviceOf' = [deviceOf EXCEPT ![m] = d]
    /\ MemberNews
    /\ UNCHANGED <<groups, retired, mailings>>

(* The app is removed, or the token replaced by another one. *)
Retire(d) ==
    /\ d \notin retired
    /\ retired' = retired \cup {d}
    /\ MemberNews
    /\ UNCHANGED <<groups, deviceOf, mailings>>

(* update or deactivate of a member. *)
Regroup(m, grouping) ==
    /\ groups[m] # grouping
    /\ groups' = [groups EXCEPT ![m] = grouping]
    /\ mailings' = [n \in Mailings |-> [mailings[n] EXCEPT
                       !.moved = IF m \in mailings[n].reached THEN @ \cup {m} ELSE @]]
    /\ MemberNews
    /\ UNCHANGED <<deviceOf, retired>>

NoticesNext ==
    \/ \E n \in Mailings, long \in BOOLEAN, ids \in SUBSET Recipients :
          \/ \E for \in Aimed : Create(n, for, ids, long)
          \/ CreateForRoles(n, ids, long)
    \/ \E n \in Mailings : SendSpinPush(n) \/ Resolve(n) \/ SendBatch(n) \/ CleanUp(n)
                           \/ Stamp(n) \/ MailingFails(n)
    \/ \E m \in Recipients, d \in Devices \cup {NoDevice} : UpdateFcmToken(m, d)
    \/ \E d \in Devices : Retire(d)
    \/ \E m \in Recipients, grouping \in Groupings : Regroup(m, grouping)

NoticesSpec == NoticesInit /\ [][NoticesNext]_noticesVars

-----------------------------------------------------------------------------
NoticesTypeOK ==
    /\ groups \in [Recipients -> SUBSET Groups]
    /\ deviceOf \in [Recipients -> Devices \cup {NoDevice}]
    /\ retired \subseteq Devices
    /\ mailings \in [Mailings ->
          [at : {"none", "saved", "send", "clean", "stamp", "sent", "failed"},
           for : Audiences, ids : SUBSET Recipients, spin : BOOLEAN, long : BOOLEAN,
           reached : SUBSET Recipients, moved : SUBSET Recipients,
           left : SUBSET Devices, rejected : SUBSET Devices]]
    /\ memberNews \in Nat

(* A member loses the token only if it is one that FCM no longer knows, also *)
(* when the member registers another one while the push is under way; the   *)
(* exception is a message that is too long, which costs everybody's.        *)
LiveTokensKept ==
    [][\A m \in Recipients, n \in Mailings :
          (mailings[n].at = "clean" /\ mailings'[n].at \in {"stamp", "sent"}
              /\ deviceOf'[m] # deviceOf[m])
             => deviceOf[m] \in retired \/ mailings[n].long]_noticesVars

(* A notification that counts as sent was tried on every token that was     *)
(* looked up, whatever became of the other batches.  Whoever it reached,    *)
(* and has not changed groups since, finds it in the list until as many     *)
(* later ones as the list is made from are stored: resolveRecipients and    *)
(* findMine decide alike (NotificationsService, FirebaseService).           *)
SentToAll ==
    \A n \in Mailings :
        /\ mailings[n].at = "sent" => mailings[n].left = {}
        /\ ~mailings[n].spin /\ Cardinality(StoredSince(n)) < ListLength
             => \A m \in mailings[n].reached \ mailings[n].moved : Listed(n, m)

=============================================================================
