----------------------------- MODULE Membership -----------------------------
(***************************************************************************)
(* The members of one society: UsersService.create, update and the other   *)
(* handlers that save the row of a member (updateAvailability,             *)
(* updateSpinNotifications, deactivate), for what Accounts leaves out: user *)
(* names, e-mail addresses and roles.                                      *)
(*                                                                         *)
(* findEntity reads a member with the roles, which are rows of user_roles, *)
(* and the relation cascades: a save compares the roles it has read with   *)
(* those that are there, inserts those that have gone, and tries to detach *)
(* those that have come, which their NOT NULL member forbids.              *)
(* Everybody here has the same first and last name; user names differ in   *)
(* the number. Addresses and roles are set by administrators; a plain save *)
(* may be the member's own.                                                *)
(***************************************************************************)
EXTENDS Naturals

CONSTANTS
    People,      \* who is a member, or becomes one
    Founder,     \* who has registered the society
    Roles,
    Basic,       \* SystemRole.MEMBER
    Admin,       \* SystemRole.ORG_ADMIN
    Emails,
    FoundersEmail,
    NoEmail,
    MaxRequests,  \* bound on requests
    MaxBreaks    \* bound on errors of the database and restarts

ASSUME MembersAssumption ==
    /\ Founder \in People
    /\ Basic \in Roles /\ Admin \in Roles
    /\ FoundersEmail \in Emails /\ NoEmail \notin Emails
    /\ MaxRequests \in Nat /\ MaxBreaks \in Nat

VARIABLES
    members,  \* users and user_roles; a row of user_roles is a role and its id
    requests, \* the requests
    rowIds,   \* ids given to rows of user_roles
    sent,     \* history: the roles that were sent for each member by the last
              \* request that set them, or by others at the same time
    whole,    \* history: that request was alone, and went through
    putBack,  \* history: the roles that a save has inserted again
    breaks

membersVars == <<members, requests, rowIds, sent, whole, putBack, breaks>>

Requests == 1..MaxRequests
RoleRows == Roles \X Nat
RolesOf(rows) == {r[1] : r \in rows}

NotYet == [is |-> FALSE, name |-> 0, email |-> NoEmail, roles |-> {}]
FirstMember == [is |-> TRUE, name |-> 1, email |-> FoundersEmail, roles |-> {<<Admin, 0>>}]

(* A request: whom it is about, what it sets, the number that the user name *)
(* was tried with, the member as it was read, and what the save is to do.   *)
NoRequest ==
    [at |-> "none", person |-> Founder, creates |-> FALSE,
     email |-> NoEmail, sets |-> FALSE, says |-> {}, name |-> 1, entity |-> NotYet,
     gone |-> {}, come |-> {}, dirty |-> FALSE, alone |-> TRUE]

MembersInit ==
    /\ members = [p \in People |-> IF p = Founder THEN FirstMember ELSE NotYet]
    /\ requests = [r \in Requests |-> NoRequest]
    /\ rowIds = 0
    /\ sent = [p \in People |-> IF p = Founder THEN {Admin} ELSE {}]
    /\ whole = [p \in People |-> p = Founder]
    /\ putBack = [p \in People |-> {}]
    /\ breaks = 0

-----------------------------------------------------------------------------
Active(r) == requests[r].at \notin {"none", "over"}
Setting(p) == {r \in Requests : Active(r) /\ requests[r].sets /\ requests[r].person = p}

Row(r) == members[requests[r].person]
Others(r) == {q \in People \ {requests[r].person} : members[q].is}

EmailTaken(r, email) == email # NoEmail /\ \E q \in Others(r) : members[q].email = email
NameTaken(name) == \E q \in People : members[q].is /\ members[q].name = name

(* The request goes on, with the members as they are. *)
GoesOn(r, request) ==
    /\ requests' = [requests EXCEPT ![r] = request]
    /\ UNCHANGED <<members, rowIds, sent, whole, putBack>>

Ended == [NoRequest EXCEPT !.at = "over"]

(* It is refused: a member whose roles have been deleted is left without.  *)
TurnedDown(r) ==
    /\ requests' = [requests EXCEPT ![r] = Ended]
    /\ whole' = [p \in People |->
          whole[p] /\ ~(requests[r].at = "insert" /\ requests[r].person = p)]
    /\ UNCHANGED <<members, rowIds, sent, putBack>>

Begins(r, request) ==
    LET met == IF request.sets THEN Setting(request.person) ELSE {} IN
    /\ requests[r].at = "none"
    /\ \A q \in 1..(r - 1) : requests[q].at # "none"
    /\ requests' = [q \in Requests |->
          IF q = r THEN [request EXCEPT !.alone = met = {}]
          ELSE IF q \in met THEN [requests[q] EXCEPT !.alone = FALSE] ELSE requests[q]]
    /\ UNCHANGED <<members, rowIds, sent, whole, putBack, breaks>>

(* The roles are set: the request has done what it was sent for. *)
RolesSet(r, p) ==
    /\ requests' = [requests EXCEPT ![r] = Ended]
    /\ rowIds' = rowIds + 1
    /\ sent' = [sent EXCEPT ![p] = IF requests[r].alone THEN requests[r].says
                                   ELSE @ \cup requests[r].says]
    /\ whole' = [whole EXCEPT ![p] = requests[r].alone]
    /\ UNCHANGED <<putBack, breaks>>

-----------------------------------------------------------------------------
(* Requests *)

(* create: without roles, an ordinary member. *)
CreateMember(r, p, email, says) ==
    /\ ~members[p].is /\ Setting(p) = {}
    /\ Begins(r, [NoRequest EXCEPT !.at = IF email = NoEmail THEN "name" ELSE "email",
                                  !.person = p, !.creates = TRUE, !.email = email,
                                  !.sets = TRUE,
                                  !.says = IF says = {} THEN {Basic} ELSE says])

(* update, with or without an address and roles; and what saves no more.   *)
ChangeMember(r, p, email, sets, says) ==
    /\ members[p].is
    /\ ~sets => says = {}
    /\ Begins(r, [NoRequest EXCEPT !.at = "load", !.person = p, !.email = email,
                                  !.sets = sets, !.says = says])

ReadMember(r) ==
    /\ requests[r].at = "load"
    /\ GoesOn(r, [requests[r] EXCEPT !.entity = Row(r),
          !.at = IF requests[r].email \in {NoEmail, Row(r).email} THEN "reload" ELSE "email"])
    /\ UNCHANGED breaks

CheckEmail(r) ==
    /\ requests[r].at = "email"
    /\ IF EmailTaken(r, requests[r].email) THEN TurnedDown(r)
       ELSE GoesOn(r, IF requests[r].creates THEN [requests[r] EXCEPT !.at = "name"]
                    ELSE [requests[r] EXCEPT !.at = "reload",
                              !.entity = [@ EXCEPT !.email = requests[r].email]])
    /\ UNCHANGED breaks

(* generateUsername: the first number that nobody has, one look at a time. *)
GenerateUsername(r) ==
    /\ requests[r].at = "name"
    /\ GoesOn(r, IF NameTaken(requests[r].name) THEN [requests[r] EXCEPT !.name = @ + 1]
               ELSE [requests[r] EXCEPT !.at = "create"])
    /\ UNCHANGED breaks

(* The member and the roles, in one transaction. *)
InsertMember(r) ==
    LET p == requests[r].person IN
    /\ requests[r].at = "create"
    /\ IF NameTaken(requests[r].name) \/ EmailTaken(r, requests[r].email)
       THEN TurnedDown(r) /\ UNCHANGED breaks
       ELSE /\ members' = [members EXCEPT ![p] =
                  [is |-> TRUE, name |-> requests[r].name, email |-> requests[r].email,
                   roles |-> requests[r].says \X {rowIds + 1}]]
            /\ RolesSet(r, p)

-----------------------------------------------------------------------------
(* The save *)

(* It reads the member and the roles again, and compares. *)
Reread(r) ==
    LET read == requests[r].entity.roles
        dirty == requests[r].entity.email # Row(r).email
        same == read = Row(r).roles /\ ~dirty
    IN  /\ requests[r].at = "reload"
        /\ GoesOn(r, [requests[r] EXCEPT
              !.gone = read \ Row(r).roles, !.come = Row(r).roles \ read, !.dirty = dirty,
              !.at = IF ~same THEN "save" ELSE IF requests[r].sets THEN "delete" ELSE "over"])
        /\ UNCHANGED breaks

\* Mutant: rows that have come since the member was read go with the save.
DetachableAlways(r) == TRUE

(* Whether the rows that have come since can be detached. *)
Detachable(r) == requests[r].come \cap Row(r).roles = {}

SaveMember(r) ==
    LET p == requests[r].person
        kept == Row(r).roles \ requests[r].come
    IN  /\ requests[r].at = "save"
        /\ IF \/ ~Detachable(r)
              \/ RolesOf(requests[r].gone) \cap RolesOf(kept) # {}
              \/ requests[r].dirty /\ EmailTaken(r, requests[r].entity.email)
           THEN TurnedDown(r)
           ELSE /\ members' = [members EXCEPT ![p] =
                      [@ EXCEPT !.roles = kept \cup requests[r].gone,
                                !.email = IF requests[r].dirty THEN requests[r].entity.email
                                          ELSE Row(r).email]]
                /\ putBack' = [putBack EXCEPT ![p] = @ \cup RolesOf(requests[r].gone)]
                /\ requests' = [requests EXCEPT ![r] =
                      IF requests[r].sets THEN [requests[r] EXCEPT !.at = "delete"] ELSE Ended]
                /\ UNCHANGED <<rowIds, sent, whole>>
        /\ UNCHANGED breaks

(* update: the roles are deleted, and those that were sent inserted. *)
DeleteRoles(r) ==
    LET p == requests[r].person IN
    /\ requests[r].at = "delete"
    /\ members' = [members EXCEPT ![p] = [@ EXCEPT !.roles = {}]]
    /\ putBack' = [putBack EXCEPT ![p] = {}]
    /\ requests' = [requests EXCEPT ![r] = [@ EXCEPT !.at = "insert"]]
    /\ UNCHANGED <<rowIds, sent, whole, breaks>>

InsertRoles(r) ==
    LET p == requests[r].person IN
    /\ requests[r].at = "insert"
    /\ IF RolesOf(Row(r).roles) \cap requests[r].says # {}
       THEN TurnedDown(r) /\ UNCHANGED breaks
       ELSE /\ members' = [members EXCEPT ![p] =
                  [@ EXCEPT !.roles = Row(r).roles \cup (requests[r].says \X {rowIds + 1})]]
            /\ RolesSet(r, p)

(* The database fails, or the server starts again. *)
BreakOff(r) ==
    /\ Active(r)
    /\ breaks < MaxBreaks
    /\ breaks' = breaks + 1
    /\ TurnedDown(r)

MembersNext ==
    \E r \in Requests :
       \/ \E p \in People, email \in Emails \cup {NoEmail}, says \in SUBSET Roles :
             \/ CreateMember(r, p, email, says)
             \/ \E sets \in BOOLEAN : ChangeMember(r, p, email, sets, says)
       \/ ReadMember(r) \/ CheckEmail(r) \/ GenerateUsername(r) \/ InsertMember(r)
       \/ Reread(r) \/ SaveMember(r) \/ DeleteRoles(r) \/ InsertRoles(r) \/ BreakOff(r)

MembersSpec == MembersInit /\ [][MembersNext]_membersVars

-----------------------------------------------------------------------------
(* Types, and the keys: names, addresses and roles are nobody's twice. *)
MembersTypeOK ==
    /\ \A p \in People :
          /\ members[p].is \in BOOLEAN /\ members[p].name \in Nat
          /\ members[p].email \in Emails \cup {NoEmail}
          /\ members[p].roles \subseteq RoleRows
          /\ \A s, t \in members[p].roles : s[1] = t[1] => s = t
          /\ \A q \in People \ {p} : (members[p].is /\ members[q].is) =>
                /\ members[p].name # members[q].name
                /\ members[p].email # members[q].email \/ members[p].email = NoEmail
    /\ \A r \in Requests :
          /\ requests[r].at \in {"none", "load", "email", "name", "create", "reload",
                                "save", "delete", "insert", "over"}
          /\ requests[r].says \subseteq Roles /\ requests[r].name \in Nat
          /\ requests[r].gone \cup requests[r].come \subseteq RoleRows
    /\ sent \in [People -> SUBSET Roles] /\ putBack \in [People -> SUBSET Roles]
    /\ whole \in [People -> BOOLEAN] /\ rowIds \in Nat /\ breaks \in Nat

(* A member has the roles that the last request sent: all of them if it was *)
(* alone and went through, whatever saves of the row overlapped it, and none *)
(* that nobody sent meanwhile, but for those that a save has put back which *)
(* had read the member before they were taken away.                         *)
RolesAsSent ==
    \A p \in People : (members[p].is /\ Setting(p) = {}) =>
        /\ RolesOf(members[p].roles) \subseteq sent[p] \cup putBack[p]
        /\ whole[p] => sent[p] \subseteq RolesOf(members[p].roles)

=============================================================================
