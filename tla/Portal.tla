------------------------------- MODULE Portal -------------------------------
(***************************************************************************)
(* The session of the web portal. The access token, the refresh token and  *)
(* the member they belong to are kept in the local storage of the browser, *)
(* which its tabs share. Each tab shows the member it read there when it   *)
(* was loaded or signed in, keeps the refresh it waits for, and what it has*)
(* loaded of the organisation. Members also have an app on a phone: the    *)
(* server keeps one push token per member, of the browser or of the phone. *)
(*                                                                         *)
(* A step of a tab is one task of its event loop. The server is reduced to *)
(* what it answers: a request with a token that has not expired is served, *)
(* a refresh is granted or refused.                                        *)
(***************************************************************************)
EXTENDS FiniteSets, Naturals

CONSTANTS
    Nobody,
    Members,     \* who signs in
    Leaders,     \* those with a role of the leadership
    Admins,      \* the administrators of the platform
    TwoStep,     \* those who sign in with a second factor
    Tabs,
    MaxCalls,    \* bound on the requests under way at the same time
    MaxSessions, \* bound on sign-ins
    MaxExpiries, \* bound on access tokens that expire
    MaxMoves     \* bound on what happens beside the session: pages, pushes

ASSUME PortalAssumption ==
    /\ Nobody \notin Members
    /\ Leaders \subseteq Members /\ Admins \subseteq Members /\ TwoStep \subseteq Members
    /\ MaxCalls \in Nat /\ MaxSessions \in Nat /\ MaxExpiries \in Nat /\ MaxMoves \in Nat

VARIABLES
    stored,   \* the local storage: whose session it is, and whether the
              \* access token is still accepted
    tabs,     \* what each tab shows
    renewal,  \* the refresh that each tab waits for
    calls,    \* the requests under way
    push,     \* where the server sends the pushes of each member
    spent     \* the bounds that are used up

portalVars == <<stored, tabs, renewal, calls, push, spent>>

Calls == 1..MaxCalls
Routes == {"login", "home", "members", "platform"}
Someone == Members \cup {Nobody}

SignedOut == [who |-> Nobody, valid |-> FALSE]
NoRenewal == [at |-> "none", who |-> Nobody, orphan |-> FALSE]
NoCall == [at |-> "none", tab |-> Nobody, valid |-> FALSE, again |-> FALSE]

(* A tab that is loaded: the member is read from the local storage. *)
Loaded(who) ==
    [shows |-> who, route |-> IF who = Nobody THEN "login" ELSE "home",
     code |-> Nobody, org |-> Nobody]

PortalInit ==
    /\ stored = SignedOut
    /\ tabs = [t \in Tabs |-> Loaded(Nobody)]
    /\ renewal = [t \in Tabs |-> NoRenewal]
    /\ calls = [c \in Calls |-> NoCall]
    /\ push = [m \in Members |-> "nowhere"]
    /\ spent = [sessions |-> 0, expiries |-> 0, moves |-> 0]

-----------------------------------------------------------------------------
(* Helpers *)

(* A refresh that is under way when the session ends outlives it. *)
Orphaned == [t \in Tabs |-> [renewal[t] EXCEPT !.orphan = @ \/ renewal[t].at # "none"]]

(* clearSession, and the page is loaded anew unless it is the login page:   *)
(* what the tab had under way is gone with it.                              *)
ForceLogout(t) ==
    /\ stored' = SignedOut
    /\ IF tabs[t].route = "login"
       THEN UNCHANGED tabs
       ELSE tabs' = [tabs EXCEPT ![t] = Loaded(Nobody)]

(* The requests of a tab that has been left behind, or of those that waited. *)
Dropped(t, which) ==
    [c \in Calls |-> IF calls[c].tab = t /\ calls[c].at \in which THEN NoCall ELSE calls[c]]

UnderWay == {"sent", "waiting"}

(* The pages behind the sign-in; the login page shows itself to members too. *)
InLayout(t) == tabs[t].shows # Nobody /\ tabs[t].route # "login"

Move ==
    /\ spent.moves < MaxMoves
    /\ spent' = [spent EXCEPT !.moves = @ + 1]

(* persistSession, and the way to the home page. *)
Persist(t, m) ==
    /\ stored' = [who |-> m, valid |-> TRUE]
    /\ tabs' = [tabs EXCEPT ![t] = [@ EXCEPT !.shows = m, !.route = "home", !.code = Nobody]]
    /\ spent' = [spent EXCEPT !.sessions = @ + 1]
    /\ renewal' = Orphaned

-----------------------------------------------------------------------------
(* Signing in and out *)

(* The password is right (in the society that was chosen, if several fit): *)
(* the session begins, or the code of the second factor is asked for.      *)
SignIn(t, m) ==
    /\ tabs[t].route = "login"
    /\ tabs[t].code = Nobody
    /\ spent.sessions < MaxSessions
    /\ IF m \in TwoStep
       THEN /\ tabs' = [tabs EXCEPT ![t] = [@ EXCEPT !.code = m]]
            /\ UNCHANGED <<stored, renewal, spent>>
       ELSE Persist(t, m)
    /\ UNCHANGED <<calls, push>>

EnterCode(t) ==
    /\ tabs[t].code # Nobody
    /\ spent.sessions < MaxSessions
    /\ Persist(t, tabs[t].code)
    /\ UNCHANGED <<calls, push>>

BackToPassword(t) ==
    /\ tabs[t].code # Nobody
    /\ tabs' = [tabs EXCEPT ![t] = [@ EXCEPT !.code = Nobody]]
    /\ UNCHANGED <<stored, renewal, calls, push, spent>>

(* The tab goes on: what it loaded stays in its cache, and its requests and *)
(* its refresh go on.                                                       *)
SignOut(t) ==
    /\ InLayout(t)
    /\ stored' = SignedOut
    /\ tabs' = [tabs EXCEPT ![t] = [@ EXCEPT !.shows = Nobody, !.route = "login"]]
    /\ renewal' = Orphaned
    /\ UNCHANGED <<calls, push, spent>>

(* The page is loaded again, or the home page. *)
Reload(t, r) ==
    /\ r \in {"home", tabs[t].route}
    /\ tabs' = [tabs EXCEPT ![t] =
          [Loaded(stored.who) EXCEPT !.route = IF stored.who = Nobody THEN "login" ELSE r]]
    /\ renewal' = [renewal EXCEPT ![t] = NoRenewal]
    /\ calls' = Dropped(t, UnderWay)
    /\ UNCHANGED <<stored, push, spent>>

(* The access token expires, also for the requests that carry it, and the   *)
(* older ones with it.                                                      *)
Expire ==
    /\ stored.valid
    /\ spent.expiries < MaxExpiries
    /\ stored' = [stored EXCEPT !.valid = FALSE]
    /\ calls' = [c \in Calls |-> [calls[c] EXCEPT !.valid = FALSE]]
    /\ spent' = [spent EXCEPT !.expiries = @ + 1]
    /\ UNCHANGED <<tabs, renewal, push>>

-----------------------------------------------------------------------------
(* Requests *)

Request(t, c) ==
    /\ InLayout(t)
    /\ calls[c].at = "none"
    /\ \A d \in 1..(c - 1) : calls[d].at # "none"
    /\ calls' = [calls EXCEPT ![c] = [at |-> "sent", tab |-> t, valid |-> stored.valid,
                                      again |-> FALSE]]
    /\ UNCHANGED <<stored, tabs, renewal, push, spent>>

(* The guards of the server let it through. *)
Answer(c) ==
    /\ calls[c].at = "sent"
    /\ calls[c].valid
    /\ calls' = [calls EXCEPT ![c] = NoCall]
    /\ UNCHANGED <<stored, tabs, renewal, push, spent>>

(* Or they answer 401. *)
Unauthorized(c) == calls[c].at = "sent" /\ ~calls[c].valid

\* Mutant: the tab refreshes as long as it shows a member.
DeniedFromMemory(c) ==
    LET t == calls[c].tab IN
    /\ Unauthorized(c)
    /\ ~calls[c].again
    /\ tabs[t].shows # Nobody
    /\ calls' = [calls EXCEPT ![c] = [@ EXCEPT !.at = "waiting", !.again = TRUE]]
    /\ renewal' = IF renewal[t].at # "none" THEN renewal
                  ELSE [renewal EXCEPT ![t] = [at |-> "asked", who |-> tabs[t].shows,
                                               orphan |-> FALSE]]
    /\ UNCHANGED <<stored, tabs, push, spent>>

(* The first 401 of a request waits for the refresh of the tab, and begins *)
(* one if none is under way.                                               *)
Denied(c) ==
    LET t == calls[c].tab IN
    /\ Unauthorized(c)
    /\ ~calls[c].again
    /\ stored.who # Nobody
    /\ calls' = [calls EXCEPT ![c] = [@ EXCEPT !.at = "waiting", !.again = TRUE]]
    /\ renewal' = IF renewal[t].at # "none" THEN renewal
                  ELSE [renewal EXCEPT ![t] = [at |-> "asked", who |-> stored.who,
                                               orphan |-> FALSE]]
    /\ UNCHANGED <<stored, tabs, push, spent>>

(* A 401 without a refresh token, or after the retry, ends the session. *)
GivenUp(c) ==
    LET t == calls[c].tab IN
    /\ Unauthorized(c)
    /\ calls[c].again \/ stored.who = Nobody
    /\ ForceLogout(t)
    /\ IF tabs[t].route = "login"
       THEN /\ calls' = [calls EXCEPT ![c] = NoCall]
            /\ renewal' = Orphaned
       ELSE /\ calls' = Dropped(t, UnderWay)
            /\ renewal' = [Orphaned EXCEPT ![t] = NoRenewal]
    /\ UNCHANGED <<push, spent>>

(* The server grants the refresh: the new tokens are stored, and everything *)
(* that waited is sent again.                                               *)
Renewed(t) ==
    /\ renewal[t].at = "asked"
    /\ stored' = [who |-> renewal[t].who, valid |-> TRUE]
    /\ renewal' = [(IF stored.who = renewal[t].who THEN renewal ELSE Orphaned)
                      EXCEPT ![t] = NoRenewal]
    /\ calls' = [c \in Calls |->
          IF calls[c].tab = t /\ calls[c].at = "waiting"
          THEN [calls[c] EXCEPT !.at = "sent", !.valid = TRUE] ELSE calls[c]]
    /\ UNCHANGED <<tabs, push, spent>>

\* Mutant: what waited is forgotten.
NotRenewedHangs(t) ==
    /\ renewal[t].at = "asked"
    /\ ForceLogout(t)
    /\ renewal' = [Orphaned EXCEPT ![t] = NoRenewal]
    /\ calls' = Dropped(t, IF tabs[t].route = "login" THEN {} ELSE UnderWay)
    /\ UNCHANGED <<push, spent>>

(* Or it refuses it: the session has been revoked, the member deactivated,  *)
(* or the network fails.                                                    *)
NotRenewed(t) ==
    /\ renewal[t].at = "asked"
    /\ ForceLogout(t)
    /\ renewal' = [Orphaned EXCEPT ![t] = NoRenewal]
    /\ calls' = Dropped(t, IF tabs[t].route = "login" THEN {"waiting"} ELSE UnderWay)
    /\ UNCHANGED <<push, spent>>

-----------------------------------------------------------------------------
(* What a tab shows *)

(* The organisation of the session, for the menu and the home page. *)
LoadOrg(t) ==
    /\ InLayout(t)
    /\ stored.valid
    /\ tabs[t].org # stored.who
    /\ tabs' = [tabs EXCEPT ![t] = [@ EXCEPT !.org = stored.who]]
    /\ Move
    /\ UNCHANGED <<stored, renewal, calls, push>>

(* The menu: members of the platform have no society of their own. *)
Menu(t) ==
    {r \in Routes \ {"login"} :
        IF tabs[t].org \in Admins THEN r = "platform"
        ELSE /\ r = "members" => tabs[t].shows \in Leaders
             /\ r = "platform" => tabs[t].shows \in Admins}

Go(t, r) ==
    /\ InLayout(t)
    /\ r \in Menu(t)
    /\ r # tabs[t].route
    /\ tabs' = [tabs EXCEPT ![t] = [@ EXCEPT !.route = r]]
    /\ Move
    /\ UNCHANGED <<stored, renewal, calls, push>>

(* RequireAuth, RequireLeadership, RequireSuperAdmin, HomeRoute. *)
Redirected(t) ==
    CASE tabs[t].shows = Nobody -> "login"
      [] tabs[t].route = "members" /\ tabs[t].shows \notin Leaders -> "home"
      [] tabs[t].route = "platform" /\ tabs[t].shows \notin Admins -> "home"
      [] tabs[t].route = "home" /\ tabs[t].org \in Admins -> "platform"
      [] OTHER -> tabs[t].route

Redirect(t) ==
    /\ tabs[t].route # "login"
    /\ Redirected(t) # tabs[t].route
    /\ tabs' = [tabs EXCEPT ![t] = [@ EXCEPT !.route = Redirected(t)]]
    /\ UNCHANGED <<stored, renewal, calls, push, spent>>

-----------------------------------------------------------------------------
(* Pushes *)

(* A tab with a member sends the push token of the browser. *)
RegisterBrowser(t) ==
    /\ InLayout(t)
    /\ stored.valid
    /\ push[stored.who] # "browser"
    /\ push' = [push EXCEPT ![stored.who] = "browser"]
    /\ Move
    /\ UNCHANGED <<stored, tabs, renewal, calls>>

(* The app on the phone sends its own at the sign-in, and an empty one at   *)
(* the sign-out.                                                            *)
Phone(m, where) ==
    /\ where \in {"phone", "nowhere"}
    /\ push[m] # where
    /\ push' = [push EXCEPT ![m] = where]
    /\ Move
    /\ UNCHANGED <<stored, tabs, renewal, calls>>

-----------------------------------------------------------------------------
PortalNext ==
    \/ Expire
    \/ \E t \in Tabs :
          \/ EnterCode(t) \/ BackToPassword(t) \/ SignOut(t)
          \/ Renewed(t) \/ NotRenewed(t)
          \/ LoadOrg(t) \/ Redirect(t) \/ RegisterBrowser(t)
          \/ \E m \in Members : SignIn(t, m)
          \/ \E r \in Routes : Go(t, r) \/ Reload(t, r)
          \/ \E c \in Calls : Request(t, c)
    \/ \E c \in Calls : Answer(c) \/ Denied(c) \/ GivenUp(c)
    \/ \E m \in Members, where \in {"phone", "nowhere"} : Phone(m, where)

PortalSpec == PortalInit /\ [][PortalNext]_portalVars

-----------------------------------------------------------------------------
PortalTypeOK ==
    /\ stored \in [who : Someone, valid : BOOLEAN]
    /\ tabs \in [Tabs -> [shows : Someone, route : Routes, code : Someone, org : Someone]]
    /\ renewal \in [Tabs -> [at : {"none", "asked"},
                             who : Someone, orphan : BOOLEAN]]
    /\ calls \in [Calls -> [at : UnderWay \cup {"none"}, tab : Tabs \cup {Nobody}, valid : BOOLEAN,
                            again : BOOLEAN]]
    /\ push \in [Members -> {"nowhere", "browser", "phone"}]
    /\ spent \in [sessions : Nat, expiries : Nat, moves : Nat]

(* A request that waits is waited for: the refresh of its tab is under way, *)
(* so its 401 never leaves it hanging.                                      *)
WaitersAreServed ==
    \A c \in Calls : calls[c].at = "waiting" => renewal[calls[c].tab].at # "none"

(* After the session has ended in any tab, nothing but a sign-in brings one *)
(* back, except a refresh that was under way when it ended.                 *)
SignedOutStays ==
    [][(stored.who # stored'.who /\ stored'.who # Nobody)
          => \/ spent'.sessions > spent.sessions
             \/ \E t \in Tabs : renewal[t].orphan /\ renewal[t].at = "asked"]_portalVars

(* After a member has signed out of the browser, it gets no more pushes for *)
(* that member.                                                             *)
PushEndsAtSignOut ==
    \A m \in Members : push[m] = "browser"
        => stored.who = m \/ \E t \in Tabs : tabs[t].shows = m

=============================================================================
