---------------------------- MODULE OfficeProofs ----------------------------
(***************************************************************************)
(* Proofs about the session of the portal (Portal), the mailing of          *)
(* notifications (Notices), the edit pages (Forms) and the list of members  *)
(* (Membership), for any tabs, requests, members, devices and bounds, and,  *)
(* with those of DailyProofs, about the office that they make up.           *)
(***************************************************************************)
EXTENDS MCOffice, DailyProofs

-----------------------------------------------------------------------------
(* The session of the portal *)

Sessions == [who : Someone, valid : BOOLEAN]
Views == [shows : Someone, route : Routes, code : Someone, org : Someone]
Renewals == [at : {"none", "asked"}, who : Someone, orphan : BOOLEAN]
CallRecords == [at : UnderWay \cup {"none"}, tab : Tabs \cup {Nobody}, valid : BOOLEAN,
             again : BOOLEAN]
Bounds == [sessions : Nat, expiries : Nat, moves : Nat]

PortalTypes ==
    /\ stored \in Sessions
    /\ tabs \in [Tabs -> Views]
    /\ renewal \in [Tabs -> Renewals]
    /\ calls \in [Calls -> CallRecords]
    /\ push \in [Members -> {"nowhere", "browser", "phone"}]
    /\ spent \in Bounds

(* A request under way belongs to a tab. *)
CallsHaveTabs == \A c \in Calls : calls[c].at # "none" => calls[c].tab \in Tabs

(* A refresh is that of the stored session, unless it has outlived its own. *)
RenewalOwned ==
    \A t \in Tabs : renewal[t].at = "asked" => renewal[t].orphan \/ renewal[t].who = stored.who

PortalInv == PortalTypes /\ CallsHaveTabs /\ RenewalOwned /\ WaitersAreServed

LEMMA PortalStarts == PortalInit => PortalInv
BY PortalAssumption DEF PortalInit, PortalInv, PortalTypes, CallsHaveTabs, RenewalOwned,
   WaitersAreServed, SignedOut, NoRenewal, NoCall, Loaded, Someone, Routes, UnderWay,
   Sessions, Views, Renewals, CallRecords, Bounds

(* The records that the steps write. *)
LEMMA RecordTypes ==
    /\ SignedOut \in Sessions
    /\ NoRenewal \in Renewals
    /\ NoCall \in CallRecords
    /\ \A who \in Someone : Loaded(who) \in Views
BY DEF SignedOut, NoRenewal, NoCall, Loaded, Sessions, Renewals, CallRecords, Views, Someone,
   Routes, UnderWay

LEMMA ViewTypes ==
    ASSUME NEW view \in Views, NEW s \in Someone, NEW r \in Routes
    PROVE  /\ [view EXCEPT !.code = s] \in Views
           /\ [view EXCEPT !.org = s] \in Views
           /\ [view EXCEPT !.route = r] \in Views
           /\ [view EXCEPT !.shows = s, !.route = r] \in Views
           /\ [view EXCEPT !.shows = s, !.route = r, !.code = Nobody] \in Views
           /\ view.shows \in Someone /\ view.route \in Routes
           /\ view.code \in Someone /\ view.org \in Someone
BY DEF Views, Someone

LEMMA RequestTypes ==
    ASSUME NEW request \in CallRecords, NEW b \in BOOLEAN
    PROVE  /\ [request EXCEPT !.valid = FALSE] \in CallRecords
           /\ [request EXCEPT !.at = "waiting", !.again = TRUE] \in CallRecords
           /\ [request EXCEPT !.at = "sent", !.valid = TRUE] \in CallRecords
           /\ \A t \in Tabs : [at |-> "sent", tab |-> t, valid |-> b, again |-> FALSE] \in CallRecords
BY DEF CallRecords, UnderWay

LEMMA BoundTypes ==
    ASSUME NEW bounds \in Bounds
    PROVE  /\ [bounds EXCEPT !.sessions = @ + 1] \in Bounds
           /\ [bounds EXCEPT !.expiries = @ + 1] \in Bounds
           /\ [bounds EXCEPT !.moves = @ + 1] \in Bounds
           /\ [bounds EXCEPT !.sessions = @ + 1].sessions > bounds.sessions
BY DEF Bounds

(* Refreshes that are orphaned, and requests that are dropped. *)
LEMMA OrphanedType ==
    ASSUME PortalTypes
    PROVE  /\ Orphaned \in [Tabs -> Renewals]
           /\ \A t \in Tabs : /\ Orphaned[t].at = renewal[t].at
                              /\ Orphaned[t].who = renewal[t].who
                              /\ Orphaned[t].at = "asked" => Orphaned[t].orphan
BY DEF Orphaned, PortalTypes, Renewals

LEMMA DroppedType ==
    ASSUME PortalTypes, NEW t \in Tabs, NEW which \in SUBSET UnderWay
    PROVE  /\ Dropped(t, which) \in [Calls -> CallRecords]
           /\ \A c \in Calls : Dropped(t, which)[c].at # "none" =>
                 /\ Dropped(t, which)[c] = calls[c]
                 /\ ~(calls[c].tab = t /\ calls[c].at \in which)
<1>1. \A c \in Calls : calls[c] \in CallRecords /\ NoCall \in CallRecords
  BY RecordTypes DEF PortalTypes
<1> QED BY <1>1 DEF Dropped, NoCall

(* Persist begins a session, whose predecessor's refreshes are orphaned. *)
LEMMA PersistOK ==
    ASSUME PortalInv, NEW t \in Tabs, NEW m \in Members, Persist(t, m), UNCHANGED <<calls, push>>
    PROVE  PortalInv'
<1>1. stored' \in Sessions
  BY DEF Persist, Sessions, Someone
<1>2. tabs' \in [Tabs -> Views]
  BY ViewTypes DEF Persist, PortalInv, PortalTypes, Someone, Routes
<1>3. PortalTypes'
  BY <1>1, <1>2, OrphanedType, BoundTypes DEF PortalInv, PortalTypes, Persist
<1>4. CallsHaveTabs' /\ WaitersAreServed'
  BY OrphanedType DEF PortalInv, CallsHaveTabs, WaitersAreServed, Persist
<1>5. RenewalOwned'
  BY OrphanedType DEF PortalInv, RenewalOwned, Persist
<1> QED BY <1>3, <1>4, <1>5 DEF PortalInv

LEMMA SignInOK ==
    ASSUME PortalInv, NEW t \in Tabs, NEW m \in Members, SignIn(t, m)
    PROVE  PortalInv'
<1>1. CASE m \in TwoStep
  <2>1. tabs' \in [Tabs -> Views]
    <3>1. m \in Someone /\ tabs[t] \in Views /\ "home" \in Routes
      BY DEF Someone, PortalInv, PortalTypes, Routes
    <3>2. [tabs[t] EXCEPT !.code = m] \in Views
      BY <3>1, ViewTypes
    <3> QED BY <1>1, <3>2 DEF SignIn, PortalInv, PortalTypes
  <2> QED BY <1>1, <2>1 DEF PortalInv, PortalTypes, CallsHaveTabs, RenewalOwned,
          WaitersAreServed, SignIn
<1>2. CASE m \notin TwoStep
  BY <1>2, PersistOK DEF SignIn
<1> QED BY <1>1, <1>2

LEMMA EnterCodeOK ==
    ASSUME PortalInv, NEW t \in Tabs, EnterCode(t)
    PROVE  PortalInv'
<1>1. tabs[t].code \in Members
  BY ViewTypes DEF PortalInv, PortalTypes, EnterCode, Someone, Routes
<1> QED BY <1>1, PersistOK DEF EnterCode

LEMMA SignOutOK ==
    ASSUME PortalInv, NEW t \in Tabs, SignOut(t)
    PROVE  PortalInv'
<1>1. tabs' \in [Tabs -> Views]
  BY ViewTypes DEF SignOut, PortalInv, PortalTypes, Someone, Routes
<1>2. PortalTypes'
  BY <1>1, OrphanedType, RecordTypes DEF PortalInv, PortalTypes, SignOut
<1>3. CallsHaveTabs' /\ WaitersAreServed' /\ RenewalOwned'
  BY OrphanedType DEF PortalInv, CallsHaveTabs, WaitersAreServed, RenewalOwned, SignOut
<1> QED BY <1>2, <1>3 DEF PortalInv

LEMMA ReloadOK ==
    ASSUME PortalInv, NEW t \in Tabs, NEW r \in Routes, Reload(t, r)
    PROVE  PortalInv'
<1>1. calls' = Dropped(t, UnderWay) /\ renewal' = [renewal EXCEPT ![t] = NoRenewal]
  BY DEF Reload
<1>2. tabs' \in [Tabs -> Views]
  <2>1. stored.who \in Someone
    BY DEF PortalInv, PortalTypes, Sessions
  <2>2. Loaded(stored.who) \in Views
    BY <2>1, RecordTypes
  <2>3. (IF stored.who = Nobody THEN "login" ELSE r) \in Routes
    BY DEF Routes
  <2>4. [Loaded(stored.who) EXCEPT !.route = IF stored.who = Nobody THEN "login" ELSE r] \in Views
    BY <2>1, <2>2, <2>3, ViewTypes
  <2> QED BY <2>4 DEF Reload, PortalInv, PortalTypes
<1>3. PortalTypes'
  BY <1>1, <1>2, DroppedType, RecordTypes DEF PortalInv, PortalTypes, Reload
<1>4. CallsHaveTabs' /\ WaitersAreServed' /\ RenewalOwned'
  <2>1. \A u \in Tabs : renewal'[u].at = "asked" => u # t /\ renewal'[u] = renewal[u]
    BY <1>1 DEF NoRenewal, PortalInv, PortalTypes
  <2>2. \A u \in Tabs \ {t} : renewal'[u] = renewal[u]
    BY <1>1 DEF PortalInv, PortalTypes
  <2>3. \A c \in Calls : calls'[c].at # "none" =>
           calls'[c] = calls[c] /\ ~(calls[c].tab = t /\ calls[c].at \in UnderWay)
    BY <1>1, DroppedType DEF PortalInv
  <2>4. RenewalOwned'
    BY <2>1 DEF PortalInv, RenewalOwned, Reload
  <2> QED BY <2>2, <2>3, <2>4 DEF PortalInv, CallsHaveTabs, WaitersAreServed, UnderWay
<1> QED BY <1>3, <1>4 DEF PortalInv

(* What only changes requests. *)
LEMMA RequestOK ==
    ASSUME PortalInv, NEW t \in Tabs, NEW c \in Calls, Request(t, c)
    PROVE  PortalInv'
<1>1. stored.valid \in BOOLEAN
  BY DEF PortalInv, PortalTypes, Sessions
<1>2. PortalTypes'
  BY <1>1, RequestTypes DEF PortalInv, PortalTypes, Request
<1> QED BY <1>2 DEF PortalInv, PortalTypes, CallsHaveTabs, RenewalOwned, WaitersAreServed, Request

LEMMA AnswerOK ==
    ASSUME PortalInv, NEW c \in Calls, Answer(c)
    PROVE  PortalInv'
BY RecordTypes DEF PortalInv, PortalTypes, CallsHaveTabs, RenewalOwned, WaitersAreServed, Answer,
   NoCall

LEMMA ExpireOK ==
    ASSUME PortalInv, Expire
    PROVE  PortalInv'
<1>1. stored' \in Sessions /\ stored'.who = stored.who
  BY DEF PortalInv, PortalTypes, Expire, Sessions
<1>2. /\ calls' \in [Calls -> CallRecords]
      /\ \A c \in Calls : calls'[c].at = calls[c].at /\ calls'[c].tab = calls[c].tab
  <2>1. \A c \in Calls : calls[c] \in CallRecords
    BY DEF PortalInv, PortalTypes
  <2>2. \A c \in Calls : /\ [calls[c] EXCEPT !.valid = FALSE] \in CallRecords
                         /\ [calls[c] EXCEPT !.valid = FALSE].at = calls[c].at
                         /\ [calls[c] EXCEPT !.valid = FALSE].tab = calls[c].tab
    BY <2>1 DEF CallRecords
  <2> QED BY <2>2 DEF Expire
<1>3. PortalTypes'
  BY <1>1, <1>2, BoundTypes DEF PortalInv, PortalTypes, Expire
<1> QED BY <1>1, <1>2, <1>3 DEF PortalInv, CallsHaveTabs, RenewalOwned, WaitersAreServed, Expire

(* The first 401 waits for a refresh of the stored session. *)
LEMMA DeniedOK ==
    ASSUME PortalInv, NEW c \in Calls, Denied(c)
    PROVE  PortalInv'
<1> DEFINE t == calls[c].tab
           asked == [at |-> "asked", who |-> stored.who, orphan |-> FALSE]
<1>1. t \in Tabs /\ calls[c] \in CallRecords /\ stored.who \in Someone
  BY DEF PortalInv, PortalTypes, CallsHaveTabs, Denied, Unauthorized, Sessions
<1>2. asked \in Renewals
  BY <1>1 DEF Renewals
<1>3. renewal' = IF renewal[t].at # "none" THEN renewal ELSE [renewal EXCEPT ![t] = asked]
  BY DEF Denied
<1>4. calls' = [calls EXCEPT ![c] = [calls[c] EXCEPT !.at = "waiting", !.again = TRUE]]
  BY DEF Denied
<1>5. [calls[c] EXCEPT !.at = "waiting", !.again = TRUE].tab = t
  BY <1>1 DEF CallRecords
<1>6. PortalTypes'
  BY <1>1, <1>2, <1>3, <1>4, RequestTypes DEF PortalInv, PortalTypes, Denied
<1>7. /\ \A u \in Tabs : renewal[u].at # "none" => renewal'[u].at # "none"
      /\ renewal'[t].at # "none"
      /\ RenewalOwned'
  BY <1>1, <1>3 DEF PortalInv, PortalTypes, RenewalOwned, Denied
<1> HIDE DEF asked
<1>8. CallsHaveTabs' /\ WaitersAreServed'
  BY <1>1, <1>4, <1>5, <1>7 DEF PortalInv, PortalTypes, CallsHaveTabs, WaitersAreServed
<1> QED BY <1>6, <1>7, <1>8 DEF PortalInv

(* The session ends: the page is loaded anew, or is the login page. *)
LEMMA ForceLogoutOK ==
    ASSUME PortalInv, NEW t \in Tabs, ForceLogout(t)
    PROVE  /\ stored' \in Sessions /\ stored'.who = Nobody
           /\ tabs' \in [Tabs -> Views]
<1>1. Loaded(Nobody) \in Views
  BY RecordTypes DEF Someone
<1> QED BY <1>1, RecordTypes DEF PortalInv, PortalTypes, ForceLogout, SignedOut

(* The refresh of a tab ends with the session; all the others outlive it.  *)
(* What waited for it is dropped.                                          *)
LEMMA SessionEnds ==
    ASSUME PortalInv, NEW t \in Tabs, NEW which \in SUBSET UnderWay, "waiting" \in which,
           ForceLogout(t), renewal' = [Orphaned EXCEPT ![t] = NoRenewal],
           calls' = Dropped(t, which), push' = push, spent' = spent
    PROVE  PortalInv'
<1>1. PortalTypes'
  BY ForceLogoutOK, OrphanedType, DroppedType, RecordTypes DEF PortalInv, PortalTypes
<1>2. \A u \in Tabs : /\ u # t => renewal'[u].at = renewal[u].at
                      /\ renewal'[u].at = "asked" => renewal'[u].orphan
  BY OrphanedType DEF PortalInv, NoRenewal
<1>3. \A c \in Calls : calls'[c].at # "none" =>
         calls'[c] = calls[c] /\ ~(calls[c].tab = t /\ calls[c].at \in which)
  BY DroppedType DEF PortalInv
<1>4. CallsHaveTabs' /\ WaitersAreServed' /\ RenewalOwned'
  BY <1>2, <1>3 DEF PortalInv, CallsHaveTabs, WaitersAreServed, RenewalOwned
<1> QED BY <1>1, <1>4 DEF PortalInv

LEMMA GivenUpOK ==
    ASSUME PortalInv, NEW c \in Calls, GivenUp(c)
    PROVE  PortalInv'
<1> DEFINE t == calls[c].tab
<1>1. t \in Tabs /\ ForceLogout(t) /\ push' = push /\ spent' = spent
  BY DEF PortalInv, CallsHaveTabs, GivenUp, Unauthorized
<1>2. CASE tabs[t].route = "login"
  <2>1. calls' = [calls EXCEPT ![c] = NoCall] /\ renewal' = Orphaned
    BY <1>2 DEF GivenUp
  <2> HIDE DEF t
  <2>2. PortalTypes'
    BY <1>1, <2>1, ForceLogoutOK, OrphanedType, RecordTypes DEF PortalInv, PortalTypes
  <2>3. CallsHaveTabs' /\ WaitersAreServed' /\ RenewalOwned'
    BY <2>1, OrphanedType DEF PortalInv, PortalTypes, CallsHaveTabs, WaitersAreServed,
       RenewalOwned, NoCall
  <2> QED BY <2>2, <2>3 DEF PortalInv
<1>3. CASE tabs[t].route # "login"
  <2>1. calls' = Dropped(t, UnderWay) /\ renewal' = [Orphaned EXCEPT ![t] = NoRenewal]
    BY <1>3 DEF GivenUp
  <2>2. UnderWay \in SUBSET UnderWay /\ "waiting" \in UnderWay
    BY DEF UnderWay
  <2> HIDE DEF t
  <2> QED BY <1>1, <2>1, <2>2, SessionEnds
<1> QED BY <1>2, <1>3

(* What waited is sent again, with a session that may be an older one. *)
LEMMA RenewedOK ==
    ASSUME PortalInv, NEW t \in Tabs, Renewed(t)
    PROVE  PortalInv'
<1> DEFINE before == IF stored.who = renewal[t].who THEN renewal ELSE Orphaned
<1>1. stored' \in Sessions /\ stored'.who = renewal[t].who
  BY DEF PortalInv, PortalTypes, Renewals, Sessions, Renewed
<1>2. /\ before \in [Tabs -> Renewals]
      /\ \A u \in Tabs : before[u].at = renewal[u].at
      /\ \A u \in Tabs : before[u].at = "asked" =>
            before[u].orphan \/ before[u].who = renewal[t].who
  BY OrphanedType DEF PortalInv, PortalTypes, RenewalOwned
<1>3. renewal' = [before EXCEPT ![t] = NoRenewal]
  BY DEF Renewed
<1> HIDE DEF before
<1>4. /\ calls' \in [Calls -> CallRecords]
      /\ \A c \in Calls : /\ calls'[c].at # "none" => calls[c].at # "none"
                          /\ calls'[c].tab = calls[c].tab
                          /\ calls'[c].at = "waiting" => calls[c].at = "waiting" /\ calls[c].tab # t
  <2>1. \A c \in Calls : calls[c] \in CallRecords
    BY DEF PortalInv, PortalTypes
  <2>2. \A c \in Calls : /\ [calls[c] EXCEPT !.at = "sent", !.valid = TRUE] \in CallRecords
                         /\ [calls[c] EXCEPT !.at = "sent", !.valid = TRUE].at = "sent"
                         /\ [calls[c] EXCEPT !.at = "sent", !.valid = TRUE].tab = calls[c].tab
    BY <2>1 DEF CallRecords, UnderWay
  <2> QED BY <2>1, <2>2 DEF Renewed
<1>5. PortalTypes'
  BY <1>1, <1>2, <1>3, <1>4, RecordTypes DEF PortalInv, PortalTypes, Renewed
<1>6. \A u \in Tabs : /\ u # t => renewal'[u] = before[u]
                      /\ renewal'[u].at = "asked" => u # t
  BY <1>2, <1>3 DEF NoRenewal
<1>7. CallsHaveTabs' /\ WaitersAreServed'
  BY <1>2, <1>4, <1>6 DEF PortalInv, CallsHaveTabs, WaitersAreServed
<1>8. RenewalOwned'
  BY <1>1, <1>2, <1>6 DEF RenewalOwned
<1> QED BY <1>5, <1>7, <1>8 DEF PortalInv

LEMMA NotRenewedOK ==
    ASSUME PortalInv, NEW t \in Tabs, NotRenewed(t)
    PROVE  PortalInv'
<1> DEFINE which == IF tabs[t].route = "login" THEN {"waiting"} ELSE UnderWay
<1>1. /\ ForceLogout(t) /\ push' = push /\ spent' = spent
      /\ renewal' = [Orphaned EXCEPT ![t] = NoRenewal] /\ calls' = Dropped(t, which)
  BY DEF NotRenewed
<1>2. which \in SUBSET UnderWay /\ "waiting" \in which
  BY DEF UnderWay
<1> HIDE DEF which
<1> QED BY <1>1, <1>2, SessionEnds

(* What only changes the page of a tab, or pushes. *)
LEMMA ShowOK ==
    ASSUME PortalInv, NEW t \in Tabs,
           BackToPassword(t) \/ LoadOrg(t) \/ Redirect(t) \/ \E r \in Routes : Go(t, r)
    PROVE  PortalInv'
<1>1. tabs[t] \in Views /\ stored.who \in Someone /\ Nobody \in Someone
  BY DEF PortalInv, PortalTypes, Sessions, Someone
<1>2. Redirected(t) \in Routes
  BY <1>1, ViewTypes DEF Redirected, Routes
<1>3. tabs' \in [Tabs -> Views]
  BY <1>1, <1>2, ViewTypes DEF PortalInv, PortalTypes, BackToPassword, LoadOrg, Redirect, Go
<1>4. UNCHANGED <<renewal, calls, stored, push>> /\ spent' \in Bounds
  BY BoundTypes DEF PortalInv, PortalTypes, BackToPassword, LoadOrg, Redirect, Go, Move
<1> QED BY <1>3, <1>4 DEF PortalInv, PortalTypes, CallsHaveTabs, RenewalOwned, WaitersAreServed

LEMMA PushOK ==
    ASSUME PortalInv, \/ \E t \in Tabs : RegisterBrowser(t)
                      \/ \E m \in Members, where \in {"phone", "nowhere"} : Phone(m, where)
    PROVE  PortalInv'
<1>1. UNCHANGED <<stored, tabs, renewal, calls>> /\ spent' \in Bounds
  BY BoundTypes DEF PortalInv, PortalTypes, RegisterBrowser, Phone, Move
<1>2. push' \in [Members -> {"nowhere", "browser", "phone"}]
  BY DEF PortalInv, PortalTypes, RegisterBrowser, Phone
<1> QED BY <1>1, <1>2 DEF PortalInv, PortalTypes, CallsHaveTabs, RenewalOwned, WaitersAreServed

LEMMA PortalStepOK ==
    ASSUME PortalInv, PortalNext
    PROVE  PortalInv'
BY SignInOK, EnterCodeOK, SignOutOK, ReloadOK, RequestOK, AnswerOK, ExpireOK, DeniedOK, GivenUpOK,
   RenewedOK, NotRenewedOK, ShowOK, PushOK DEF PortalNext

LEMMA PortalInvariance == PortalSpec => []PortalInv
<1>1. PortalInv /\ UNCHANGED portalVars => PortalInv'
  BY DEF PortalInv, PortalTypes, CallsHaveTabs, RenewalOwned, WaitersAreServed, portalVars
<1>2. PortalInv /\ [PortalNext]_portalVars => PortalInv'
  BY PortalStepOK, <1>1
<1> QED BY PortalStarts, <1>2, PTL DEF PortalSpec

(* Every variable of the portal keeps its type. *)
THEOREM PortalTypeCorrect == PortalSpec => []PortalTypeOK
<1>1. PortalInv => PortalTypeOK
  BY DEF PortalInv, PortalTypes, PortalTypeOK, Sessions, Views, Renewals, CallRecords, Bounds
<1> QED BY PortalInvariance, <1>1, PTL

(* No request waits for a refresh that nobody has begun (api/client.ts). *)
THEOREM NoneLeftWaiting == PortalSpec => []WaitersAreServed
<1>1. PortalInv => WaitersAreServed
  BY DEF PortalInv
<1> QED BY PortalInvariance, <1>1, PTL

(* A session that has ended in one tab comes back in none, unless by a      *)
(* sign-in or by a refresh that outlived it.                                *)
THEOREM SignOutForAllTabs == PortalSpec => SignedOutStays
<1> DEFINE Stays == (stored.who # stored'.who /\ stored'.who # Nobody)
                       => \/ spent'.sessions > spent.sessions
                          \/ \E t \in Tabs : renewal[t].orphan /\ renewal[t].at = "asked"
<1>1. PortalInv /\ PortalNext => Stays
  <2> SUFFICES ASSUME PortalInv, PortalNext, stored.who # stored'.who, stored'.who # Nobody
               PROVE  \/ spent'.sessions > spent.sessions
                      \/ \E t \in Tabs : renewal[t].orphan /\ renewal[t].at = "asked"
    OBVIOUS
  <2>1. CASE \E t \in Tabs, m \in Members : Persist(t, m)
    <3>1. spent'.sessions > spent.sessions
      BY <2>1, BoundTypes DEF PortalInv, PortalTypes, Persist
    <3> QED BY <3>1
  <2>2. CASE \E t \in Tabs : Renewed(t)
    <3>1. PICK t \in Tabs : Renewed(t)
      BY <2>2
    <3>2. renewal[t].at = "asked" /\ stored'.who = renewal[t].who
      BY <3>1 DEF Renewed
    <3>3. renewal[t].orphan
      BY <3>2 DEF PortalInv, RenewalOwned
    <3> QED BY <3>2, <3>3
  <2>3. CASE \E t \in Tabs : EnterCode(t)
    <3>1. PICK t \in Tabs : EnterCode(t)
      BY <2>3
    <3>2. tabs[t].code \in Members
      BY <3>1, ViewTypes DEF PortalInv, PortalTypes, EnterCode, Someone, Routes
    <3> QED BY <2>1, <3>1, <3>2 DEF EnterCode
  <2>4. CASE \E t \in Tabs, m \in Members : SignIn(t, m)
    BY <2>1, <2>4 DEF SignIn
  <2>5. CASE \/ Expire \/ \E c \in Calls : Answer(c) \/ Denied(c) \/ GivenUp(c)
             \/ \E m \in Members, where \in {"phone", "nowhere"} : Phone(m, where)
    <3>1. Expire => stored'.who = stored.who
      BY DEF PortalInv, PortalTypes, Sessions, Expire
    <3>2. ASSUME NEW c \in Calls, Answer(c) \/ Denied(c) \/ GivenUp(c)
          PROVE  FALSE
      BY <3>2 DEF Answer, Denied, GivenUp, ForceLogout, SignedOut
    <3>3. \A m \in Members, where \in {"phone", "nowhere"} :
             Phone(m, where) => stored'.who = stored.who
      BY DEF Phone
    <3>4. ~Expire /\ ~(\E m \in Members, where \in {"phone", "nowhere"} : Phone(m, where))
      BY <3>1, <3>3
    <3> QED BY <2>5, <3>2, <3>4
  <2>6. CASE \E t \in Tabs :
                \/ BackToPassword(t) \/ SignOut(t) \/ NotRenewed(t)
                \/ LoadOrg(t) \/ Redirect(t) \/ RegisterBrowser(t)
                \/ \E r \in Routes : Go(t, r) \/ Reload(t, r)
                \/ \E c \in Calls : Request(t, c)
    BY <2>6 DEF BackToPassword, SignOut, NotRenewed, LoadOrg, Redirect, RegisterBrowser, Go,
       Reload, Request, ForceLogout, SignedOut
  <2> QED BY <2>2, <2>3, <2>4, <2>5, <2>6 DEF PortalNext
<1>2. UNCHANGED portalVars => Stays
  BY DEF portalVars
<1> QED BY PortalInvariance, <1>1, <1>2, PTL DEF PortalSpec, SignedOutStays

-----------------------------------------------------------------------------
(* The mailing of notifications *)

MailingRecords ==
    [at : {"none", "saved", "send", "clean", "stamp", "sent", "failed"},
     for : Audiences, ids : SUBSET Recipients, spin : BOOLEAN, long : BOOLEAN,
     reached : SUBSET Recipients, moved : SUBSET Recipients,
     left : SUBSET Devices, rejected : SUBSET Devices]

NoticesTypes ==
    /\ groups \in [Recipients -> SUBSET Groups]
    /\ deviceOf \in [Recipients -> Devices \cup {NoDevice}]
    /\ retired \subseteq Devices
    /\ mailings \in [Mailings -> MailingRecords]
    /\ memberNews \in Nat

(* Whom findMine takes a notification to be meant for. *)
Audience(mailing) ==
    {m \in Recipients :
        \/ mailing.for = "all"
        \/ mailing.for \in {"operative", "youth", "leadership"} \cap groups[m]
        \/ mailing.for = "specific" /\ m \in mailing.ids}

(* A mailing: all batches are through before the tokens are cleared, whoever *)
(* was reached and has not changed groups since is in the audience, and what *)
(* is rejected has retired, unless the message is too long.                 *)
MailingOK(mailing) ==
    /\ mailing.at \in {"clean", "stamp", "sent"} => mailing.left = {}
    /\ mailing.at \in {"none", "saved"} => mailing.reached = {} /\ mailing.moved = {}
    /\ ~mailing.spin => mailing.reached \ mailing.moved \subseteq Audience(mailing)
    /\ mailing.rejected \subseteq retired \/ mailing.long

NoticesInv == NoticesTypes /\ \A n \in Mailings : MailingOK(mailings[n])

LEMMA NoticesStart == NoticesInit => NoticesInv
BY NoticesAssumption DEF NoticesInit, NoticesInv, NoticesTypes, MailingRecords, MailingOK,
   NoMailing, Audiences

(* One mailing moves on. *)
LEMMA MailsOK ==
    ASSUME NoticesInv, NEW n \in Mailings, NEW mailing \in MailingRecords,
           Mails(n, mailing), MailingOK(mailing),
           deviceOf' \in [Recipients -> Devices \cup {NoDevice}]
    PROVE  NoticesInv'
<1>1. NoticesTypes'
  BY DEF NoticesInv, NoticesTypes, Mails
<1>2. \A k \in Mailings : MailingOK(mailings'[k])
  BY DEF NoticesInv, NoticesTypes, Mails
<1>3. \A k \in Mailings : MailingOK(mailings[k])'
  BY <1>2 DEF MailingOK, Mails, Audience
<1> QED BY <1>1, <1>3 DEF NoticesInv

LEMMA NewMailingOK ==
    ASSUME NEW for \in Audiences, NEW ids \in SUBSET Recipients, NEW spin \in BOOLEAN,
           NEW long \in BOOLEAN
    PROVE  NewMailing(for, ids, spin, long) \in MailingRecords
           /\ MailingOK(NewMailing(for, ids, spin, long))
BY DEF NewMailing, MailingRecords, MailingOK

LEMMA WrittenOK ==
    ASSUME NoticesInv, NEW n \in Mailings, NEW for \in Audiences, NEW ids \in SUBSET Recipients,
           NEW long \in BOOLEAN, Writes(n, for, ids, long)
    PROVE  NoticesInv'
<1>1. /\ Mails(n, NewMailing(for, ids, FALSE, long))
      /\ deviceOf' \in [Recipients -> Devices \cup {NoDevice}]
  BY DEF Writes, NoticesInv, NoticesTypes
<1> QED BY <1>1, NewMailingOK, MailsOK

LEMMA SpinPushOK ==
    ASSUME NoticesInv, NEW n \in Mailings, SendSpinPush(n)
    PROVE  NoticesInv'
<1>1. /\ Mails(n, NewMailing("operative", {}, TRUE, FALSE))
      /\ deviceOf' \in [Recipients -> Devices \cup {NoDevice}]
  BY DEF SendSpinPush, NoticesInv, NoticesTypes
<1>2. "operative" \in Audiences /\ {} \in SUBSET Recipients
  BY DEF Audiences
<1> QED BY <1>1, <1>2, NewMailingOK, MailsOK

(* Whoever is addressed is in the audience. *)
LEMMA ResolveOK ==
    ASSUME NoticesInv, NEW n \in Mailings, Resolve(n)
    PROVE  NoticesInv'
<1> DEFINE tokens == {deviceOf[m] : m \in Addressed(n)} \ {NoDevice}
           place == IF tokens = {} THEN "clean" ELSE "send"
           mailing == [mailings[n] EXCEPT !.at = place, !.reached = Addressed(n), !.left = tokens]
<1>1. mailings[n] \in MailingRecords /\ MailingOK(mailings[n])
  BY DEF NoticesInv, NoticesTypes
<1>2. Addressed(n) \in SUBSET Recipients
  BY DEF Addressed
<1>3. tokens \in SUBSET Devices
  BY <1>2 DEF NoticesInv, NoticesTypes
<1>4. Addressed(n) \subseteq Audience(mailings[n])
  BY <1>1 DEF Addressed, Audience, MailingRecords, Audiences
<1>5. place \in {"clean", "send"} /\ (place = "clean" => tokens = {})
  OBVIOUS
<1>6. Mails(n, mailing) /\ deviceOf' \in [Recipients -> Devices \cup {NoDevice}]
  BY DEF Resolve, NoticesInv, NoticesTypes
<1> HIDE DEF tokens, place
<1>7. mailing \in MailingRecords
  BY <1>1, <1>2, <1>3, <1>5 DEF MailingRecords
<1>8. MailingOK(mailing)
  BY <1>1, <1>2, <1>4, <1>5 DEF MailingRecords, MailingOK, Audience
<1> HIDE DEF mailing
<1> QED BY <1>6, <1>7, <1>8, MailsOK

LEMMA SendBatchOK ==
    ASSUME NoticesInv, NEW n \in Mailings, SendBatch(n)
    PROVE  NoticesInv'
<1>1. mailings[n] \in MailingRecords /\ MailingOK(mailings[n]) /\ mailings[n].at = "send"
  BY DEF NoticesInv, NoticesTypes, SendBatch
<1>2. PICK batch \in SUBSET mailings[n].left, answered \in BOOLEAN :
         Mails(n, [mailings[n] EXCEPT
            !.at = IF mailings[n].left \ batch = {} THEN "clean" ELSE "send",
            !.left = mailings[n].left \ batch,
            !.rejected = @ \cup (IF ~answered THEN {}
                                 ELSE IF mailings[n].long THEN batch ELSE batch \cap retired)])
  BY DEF SendBatch
<1> DEFINE left == mailings[n].left \ batch
           place == IF left = {} THEN "clean" ELSE "send"
           rejected == IF ~answered THEN {}
                       ELSE IF mailings[n].long THEN batch ELSE batch \cap retired
           mailing == [mailings[n] EXCEPT !.at = place, !.left = left,
                                          !.rejected = @ \cup rejected]
<1>3. place \in {"clean", "send"} /\ (place = "clean" => left = {})
  OBVIOUS
<1>4. /\ left \in SUBSET Devices
      /\ rejected \in SUBSET Devices
      /\ rejected \subseteq retired \/ mailings[n].long
  BY <1>1 DEF MailingRecords
<1>5. Mails(n, mailing) /\ deviceOf' \in [Recipients -> Devices \cup {NoDevice}]
  BY <1>2 DEF SendBatch, NoticesInv, NoticesTypes
<1> HIDE DEF left, place, rejected
<1>6. mailing \in MailingRecords
  BY <1>1, <1>3, <1>4 DEF MailingRecords
<1>7. MailingOK(mailing)
  BY <1>1, <1>3, <1>4 DEF MailingRecords, MailingOK, Audience
<1> HIDE DEF mailing
<1> QED BY <1>5, <1>6, <1>7, MailsOK

LEMMA CleanedType ==
    ASSUME NoticesInv, NEW n \in Mailings
    PROVE  Cleaned(n) \in [Recipients -> Devices \cup {NoDevice}]
BY DEF Cleaned, NoticesInv, NoticesTypes

(* The mailing goes on to a place that asks for no more than the one before. *)
LEMMA GoesOnOK ==
    ASSUME NoticesInv, NEW n \in Mailings, NEW place \in {"stamp", "sent", "failed"},
           mailings[n].at \in {"clean", "stamp"} \/ place = "failed",
           Mails(n, [mailings[n] EXCEPT !.at = place]),
           deviceOf' \in [Recipients -> Devices \cup {NoDevice}]
    PROVE  NoticesInv'
<1> DEFINE mailing == [mailings[n] EXCEPT !.at = place]
<1>1. mailings[n] \in MailingRecords /\ MailingOK(mailings[n])
  BY DEF NoticesInv, NoticesTypes
<1>2. mailing \in MailingRecords
  BY <1>1 DEF MailingRecords
<1>3. MailingOK(mailing)
  BY <1>1 DEF MailingRecords, MailingOK, Audience
<1> HIDE DEF mailing
<1> QED BY <1>2, <1>3, MailsOK DEF mailing

LEMMA CleanUpOK ==
    ASSUME NoticesInv, NEW n \in Mailings, CleanUp(n)
    PROVE  NoticesInv'
<1> DEFINE place == IF mailings[n].spin THEN "sent" ELSE "stamp"
<1>1. place \in {"stamp", "sent", "failed"} /\ mailings[n].at = "clean"
  BY DEF CleanUp
<1>2. Mails(n, [mailings[n] EXCEPT !.at = place])
  BY DEF CleanUp
<1>3. deviceOf' \in [Recipients -> Devices \cup {NoDevice}]
  BY CleanedType DEF CleanUp
<1> HIDE DEF place
<1> QED BY <1>1, <1>2, <1>3, GoesOnOK

LEMMA EndsOK ==
    ASSUME NoticesInv, NEW n \in Mailings, Stamp(n) \/ MailingFails(n)
    PROVE  NoticesInv'
<1>1. deviceOf' \in [Recipients -> Devices \cup {NoDevice}]
  BY DEF Stamp, MailingFails, NoticesInv, NoticesTypes
<1>2. CASE Stamp(n)
  BY <1>1, <1>2, GoesOnOK DEF Stamp
<1>3. CASE MailingFails(n)
  BY <1>1, <1>3, GoesOnOK DEF MailingFails
<1> QED BY <1>2, <1>3

LEMMA DevicesOK ==
    ASSUME NoticesInv,
           \/ \E m \in Recipients, d \in Devices \cup {NoDevice} : UpdateFcmToken(m, d)
           \/ \E d \in Devices : Retire(d)
    PROVE  NoticesInv'
<1>1. NoticesTypes' /\ mailings' = mailings /\ groups' = groups /\ retired \subseteq retired'
  BY DEF NoticesInv, NoticesTypes, UpdateFcmToken, Retire, MemberNews
<1> QED BY <1>1 DEF NoticesInv, MailingOK, Audience

(* Who changes groups is no longer among those a mailing answers for. *)
LEMMA RegroupOK ==
    ASSUME NoticesInv, NEW r \in Recipients, NEW grouping \in Groupings, Regroup(r, grouping)
    PROVE  NoticesInv'
<1> DEFINE after(n) == [mailings[n] EXCEPT
              !.moved = IF r \in mailings[n].reached THEN @ \cup {r} ELSE @]
<1>1. ASSUME NEW n \in Mailings
      PROVE  after(n) \in MailingRecords
    BY DEF NoticesInv, NoticesTypes, MailingRecords
<1>2. NoticesTypes'
  <2>1. groups' \in [Recipients -> SUBSET Groups]
    BY NoticesAssumption DEF Regroup, NoticesInv, NoticesTypes
  <2>2. mailings' = [n \in Mailings |-> after(n)]
    BY DEF Regroup
  <2> HIDE DEF after
  <2>3. mailings' \in [Mailings -> MailingRecords]
    BY <1>1, <2>2
  <2> QED BY <2>1, <2>3 DEF NoticesInv, NoticesTypes, Regroup, MemberNews
<1>3. ASSUME NEW n \in Mailings
      PROVE  MailingOK(mailings[n])'
  <2>1. mailings[n] \in MailingRecords /\ MailingOK(mailings[n])
    BY DEF NoticesInv, NoticesTypes
  <2>2. mailings'[n] = after(n)
    BY DEF Regroup
  <2>3. \A m \in Recipients : m # r => groups'[m] = groups[m]
    BY DEF Regroup, NoticesInv, NoticesTypes
  <2>4. /\ after(n).at = mailings[n].at /\ after(n).for = mailings[n].for
        /\ after(n).ids = mailings[n].ids /\ after(n).spin = mailings[n].spin
        /\ after(n).long = mailings[n].long /\ after(n).reached = mailings[n].reached
        /\ after(n).left = mailings[n].left /\ after(n).rejected = mailings[n].rejected
        /\ after(n).moved = IF r \in mailings[n].reached THEN mailings[n].moved \cup {r}
                            ELSE mailings[n].moved
    BY <2>1 DEF MailingRecords
  <2> HIDE DEF after
  <2>5. after(n).at \in {"none", "saved"} => after(n).reached = {} /\ after(n).moved = {}
    BY <2>1, <2>4 DEF MailingOK
  <2>6. ~after(n).spin => after(n).reached \ after(n).moved \subseteq Audience(mailings[n])'
    BY <2>1, <2>2, <2>3, <2>4 DEF MailingOK, Audience, MailingRecords
  <2>7. after(n).rejected \subseteq retired' \/ after(n).long
    BY <2>1, <2>4 DEF MailingOK, Regroup
  <2>8. after(n).at \in {"clean", "stamp", "sent"} => after(n).left = {}
    BY <2>1, <2>4 DEF MailingOK
  <2> QED BY <2>2, <2>5, <2>6, <2>7, <2>8 DEF MailingOK, Audience
<1> QED BY <1>2, <1>3 DEF NoticesInv

LEMMA NoticesStepOK ==
    ASSUME NoticesInv, NoticesNext
    PROVE  NoticesInv'
<1>1. ASSUME NEW n \in Mailings, NEW long \in BOOLEAN, NEW ids \in SUBSET Recipients,
             (\E for \in Aimed : Create(n, for, ids, long)) \/ CreateForRoles(n, ids, long)
      PROVE  NoticesInv'
  <2>1. {m \in ids : "inactive" \notin groups[m]} \in SUBSET Recipients
        /\ "specific" \in Audiences /\ Aimed \subseteq Audiences
    BY NoticesAssumption DEF Audiences
  <2> QED BY <1>1, <2>1, WrittenOK DEF Create, CreateForRoles
<1> QED BY <1>1, SpinPushOK, ResolveOK, SendBatchOK, CleanUpOK, EndsOK, DevicesOK, RegroupOK
   DEF NoticesNext

LEMMA NoticesInvariance == NoticesSpec => []NoticesInv
<1>1. NoticesInv /\ UNCHANGED noticesVars => NoticesInv'
  BY DEF NoticesInv, NoticesTypes, MailingOK, Audience, noticesVars
<1>2. NoticesInv /\ [NoticesNext]_noticesVars => NoticesInv'
  BY NoticesStepOK, <1>1
<1> QED BY NoticesStart, <1>2, PTL DEF NoticesSpec

(* A mailing and the device of a member keep their types. *)
THEOREM NoticesTypeCorrect == NoticesSpec => []NoticesTypeOK
<1>1. NoticesInv => NoticesTypeOK
  BY DEF NoticesInv, NoticesTypes, NoticesTypeOK, MailingRecords
<1> QED BY NoticesInvariance, <1>1, PTL

(* What counts as sent was tried on every token; and findMine gives whoever *)
(* it reached, unless moved since, the notification for as long as fewer    *)
(* later ones are stored than the list is made from (NotificationsService,  *)
(* FirebaseService).                                                        *)
THEOREM SentToEverybody == NoticesSpec => []SentToAll
<1>1. NoticesInv => SentToAll
  <2> SUFFICES ASSUME NoticesInv, NEW n \in Mailings
               PROVE  /\ mailings[n].at = "sent" => mailings[n].left = {}
                      /\ ~mailings[n].spin /\ Cardinality(StoredSince(n)) < ListLength
                           => \A m \in mailings[n].reached \ mailings[n].moved : Listed(n, m)
    BY DEF SentToAll
  <2>1. MailingOK(mailings[n])
    BY DEF NoticesInv
  <2>2. mailings[n].reached # {} => mailings[n].at # "none"
    BY <2>1 DEF MailingOK
  <2> QED BY <2>1, <2>2 DEF MailingOK, Audience, Listed, Stored
<1> QED BY NoticesInvariance, <1>1, PTL

(* No push costs a member a token that FCM still knows, unless the message  *)
(* is too long, not even one that was registered meanwhile.                 *)
THEOREM TokensKept == NoticesSpec => LiveTokensKept
<1> DEFINE Kept == \A m \in Recipients, n \in Mailings :
          (mailings[n].at = "clean" /\ mailings'[n].at \in {"stamp", "sent"}
              /\ deviceOf'[m] # deviceOf[m])
             => deviceOf[m] \in retired \/ mailings[n].long
<1>1. NoticesInv /\ NoticesNext => Kept
  <2> SUFFICES ASSUME NoticesInv, NoticesNext, NEW m \in Recipients, NEW n \in Mailings,
                      mailings[n].at = "clean", mailings'[n].at \in {"stamp", "sent"},
                      deviceOf'[m] # deviceOf[m]
               PROVE  deviceOf[m] \in retired \/ mailings[n].long
    OBVIOUS
  <2>1. ASSUME NEW k \in Mailings, CleanUp(k)
        PROVE  deviceOf[m] \in retired \/ mailings[n].long
    <3>1. k = n
      BY <2>1 DEF CleanUp, Mails, NoticesInv, NoticesTypes
    <3>2. deviceOf[m] \in mailings[n].rejected
      BY <2>1, <3>1 DEF CleanUp, Cleaned, NoticesInv, NoticesTypes
    <3> QED BY <3>2 DEF NoticesInv, MailingOK
  <2>2. \A k \in Mailings : ~(SendSpinPush(k) \/ Resolve(k) \/ SendBatch(k) \/ Stamp(k)
                              \/ MailingFails(k))
    BY DEF SendSpinPush, Resolve, SendBatch, Stamp, MailingFails
  <2>3. \A k \in Mailings, long \in BOOLEAN, ids \in SUBSET Recipients :
           ~((\E for \in Aimed : Create(k, for, ids, long)) \/ CreateForRoles(k, ids, long))
    BY DEF Create, CreateForRoles, Writes
  <2>4. ~((\E r \in Recipients, d \in Devices \cup {NoDevice} : UpdateFcmToken(r, d))
          \/ \E d \in Devices : Retire(d))
    BY DEF UpdateFcmToken, Retire
  <2>5. ~\E r \in Recipients, grouping \in Groupings : Regroup(r, grouping)
    BY DEF Regroup
  <2> QED BY <2>1, <2>2, <2>3, <2>4, <2>5 DEF NoticesNext
<1>2. UNCHANGED noticesVars => Kept
  BY DEF noticesVars
<1> QED BY NoticesInvariance, <1>1, <1>2, PTL DEF NoticesSpec, LiveTokensKept

-----------------------------------------------------------------------------
(* The edit pages *)

CachedRecords == [has : BOOLEAN, boxes : Contents, asOf : Nat, stale : BOOLEAN, failed : BOOLEAN]
FetchRecords == [at : {"none", "asked", "read"}, boxes : Contents, asOf : Nat]
FormRecords == [on : {"away", "open", "saving"}, boxes : Contents,
                typed : SUBSET Boxes, guessed : SUBSET Boxes, asOf : Nat]
PatchRecords == [at : {"none", "sent", "loaded", "reloaded", "done", "refused"},
                 boxes : Contents, typed : SUBSET Boxes, guessed : SUBSET Boxes,
                 asOf : Nat, entity : Contents, dirty : SUBSET Boxes, number : Nat]
SeenRecords == [saved : Nat, sent : Nat, news : Nat, missed : BOOLEAN]

FormsTypes ==
    /\ page \in Pages \cup {"none"}
    /\ row \in Contents
    /\ changes \in Nat
    /\ changed \in [Boxes -> Nat]
    /\ cached \in CachedRecords
    /\ fetch \in FetchRecords
    /\ form \in FormRecords
    /\ patch \in PatchRecords
    /\ seen \in SeenRecords

(* Nothing is from the future. *)
Earlier ==
    /\ \A b \in Boxes : changed[b] <= changes
    /\ cached.asOf <= changes /\ fetch.asOf <= changes /\ form.asOf <= changes
    /\ patch.asOf <= changes /\ patch.number <= changes /\ seen.saved <= changes

(* Some boxes hold what the record does, unless it has changed since. *)
AsAt(boxes, asOf, known) ==
    \A b \in Boxes : (b \in known /\ changed[b] <= asOf) => boxes[b] = row[b]

CacheRight == cached.has => AsAt(cached.boxes, cached.asOf, Boxes)
FetchRight == fetch.at = "read" => AsAt(fetch.boxes, fetch.asOf, Boxes)
FormRight == OnScreen => AsAt(form.boxes, form.asOf, Boxes \ (form.typed \cup form.guessed))
PatchRight ==
    LET known == Boxes \ (patch.typed \cup patch.guessed) IN
    /\ patch.at = "sent" => AsAt(patch.boxes, patch.asOf, known)
    /\ patch.at = "loaded" => AsAt(patch.entity, patch.asOf, known)
    /\ patch.at = "reloaded" =>
          \A b \in Boxes : (b \in patch.dirty /\ b \in known) => changed[b] > patch.asOf

(* A form on the screen shows what is in the cache, or nothing yet; an      *)
(* answer is no older than the cache, and one that is older than a save is   *)
(* known to be under way.                                                   *)
FormInStep ==
    OnScreen => IF cached.has THEN form.asOf = cached.asOf ELSE form.guessed = Boxes
FetchInStep ==
    fetch.at = "read" => /\ cached.has => fetch.asOf >= cached.asOf
                         /\ fetch.asOf < seen.saved => seen.missed

(* Nobody has been here before the visit. *)
NeverVisited ==
    page = "none" => ~cached.has /\ fetch.at = "none" /\ ~OnScreen /\ patch.at = "none"

FormsInv ==
    /\ FormsTypes
    /\ Earlier
    /\ NeverVisited
    /\ CacheRight
    /\ FetchRight
    /\ FormRight
    /\ PatchRight
    /\ FormInStep
    /\ FetchInStep
    /\ OwnSavesShown

-----------------------------------------------------------------------------
LEMMA NothingTyped == Nothing \in Contents
BY DEF Nothing, Contents

LEMMA DefaultsTyped == Defaults \in Contents
<1>1. "terms" \in Boxes /\ Member \in Texts \cup {Blank}
  BY FormsAssumption DEF Boxes
<1> QED BY <1>1 DEF Defaults, Nothing, Contents

LEMMA NothingYet ==
    /\ NoForm \in FormRecords /\ NoForm.on = "away" /\ NoForm.asOf = 0 /\ NoForm.typed = {}
    /\ Unfilled \in FormRecords /\ Unfilled.on = "open" /\ Unfilled.guessed = Boxes
       /\ Unfilled.asOf = 0
    /\ NoFetch \in FetchRecords /\ NoFetch.at = "none" /\ NoFetch.asOf = 0
    /\ Asked \in FetchRecords /\ Asked.at = "asked" /\ Asked.asOf = 0
    /\ NoPatch \in PatchRecords /\ NoPatch.at = "none" /\ NoPatch.asOf = 0 /\ NoPatch.number = 0
<1>1. NoForm \in FormRecords /\ NoForm.on = "away" /\ NoForm.asOf = 0 /\ NoForm.typed = {}
  BY NothingTyped DEF NoForm, FormRecords
<1>2. NoFetch \in FetchRecords /\ NoFetch.at = "none" /\ NoFetch.asOf = 0
  BY NothingTyped DEF NoFetch, FetchRecords
<1>3. NoPatch \in PatchRecords /\ NoPatch.at = "none" /\ NoPatch.asOf = 0 /\ NoPatch.number = 0
  BY NothingTyped DEF NoPatch, PatchRecords
<1>4. Asked \in FetchRecords /\ Asked.at = "asked" /\ Asked.asOf = 0
  BY <1>2 DEF Asked, FetchRecords
<1>5. /\ Unfilled \in FormRecords /\ Unfilled.on = "open" /\ Unfilled.guessed = Boxes
      /\ Unfilled.asOf = 0
  BY <1>1, DefaultsTyped DEF Unfilled, FormRecords
<1> QED BY <1>1, <1>2, <1>3, <1>4, <1>5

(* What a filled form holds. *)
LEMMA FilledOK ==
    ASSUME NEW before \in FormRecords, NEW contents \in Contents, NEW asOf \in Nat
    PROVE  LET filled == Filled(before, contents, asOf) IN
           /\ filled \in FormRecords
           /\ filled.on = before.on /\ filled.typed = {} /\ filled.asOf = asOf
           /\ \A b \in Boxes : b \notin filled.guessed => filled.boxes[b] = contents[b]
<1> DEFINE boxes == [b \in Boxes |-> IF b \in LeftAlone(contents)
                                     THEN before.boxes[b] ELSE contents[b]]
<1>1. LeftAlone(contents) \in SUBSET Boxes
  BY DEF LeftAlone, Boxes
<1>2. before.boxes \in Contents
  BY DEF FormRecords
<1>3. boxes \in Contents /\ \A b \in Boxes : b \notin LeftAlone(contents) => boxes[b] = contents[b]
  BY <1>2 DEF Contents
<1>4. Filled(before, contents, asOf) =
         [on |-> before.on, boxes |-> boxes, typed |-> {}, guessed |-> LeftAlone(contents),
          asOf |-> asOf]
  BY DEF Filled
<1> HIDE DEF boxes
<1> QED BY <1>1, <1>3, <1>4 DEF FormRecords

LEMMA FormsStart == FormsInit => FormsInv
<1> SUFFICES ASSUME FormsInit PROVE FormsInv
  OBVIOUS
<1>1. FormsTypes
  BY NothingTyped, NothingYet DEF FormsInit, FormsTypes, CachedRecords, SeenRecords
<1>2. Earlier
  BY NothingYet DEF FormsInit, Earlier
<1>3. CacheRight /\ FetchRight /\ FormRight /\ PatchRight
  BY NothingYet DEF FormsInit, CacheRight, FetchRight, FormRight, PatchRight, OnScreen
<1>4. FormInStep /\ FetchInStep /\ OwnSavesShown /\ NeverVisited
  BY NothingYet DEF FormsInit, FormInStep, FetchInStep, OwnSavesShown, OnScreen, NeverVisited
<1> QED BY <1>1, <1>2, <1>3, <1>4 DEF FormsInv

-----------------------------------------------------------------------------
(* The cache *)

LEMMA VisitOK ==
    ASSUME FormsInv, NEW p \in Pages, NEW contents \in FirstRows, Visit(p, contents)
    PROVE  FormsInv'
<1>1. FormsTypes'
  BY FormsAssumption DEF FormsInv, FormsTypes, Visit, Contents, Boxes
<1>2. ~cached.has /\ fetch.at = "none" /\ ~OnScreen /\ patch.at = "none"
  BY DEF FormsInv, NeverVisited, Visit
<1>3. Earlier' /\ OwnSavesShown'
  BY DEF FormsInv, Earlier, OwnSavesShown, Visit
<1>4. /\ NeverVisited' /\ CacheRight' /\ FetchRight' /\ FormRight' /\ PatchRight'
      /\ FormInStep' /\ FetchInStep'
  BY <1>2 DEF Visit, NeverVisited, CacheRight, FetchRight, FormRight, PatchRight, FormInStep,
     FetchInStep, OnScreen
<1> QED BY <1>1, <1>3, <1>4 DEF FormsInv

(* The record and what is at the server stay as they are. *)
LEMMA BrowserOK ==
    ASSUME FormsInv, page' = page, row' = row, changes' = changes, changed' = changed,
           patch' = patch, page # "none",
           cached' \in CachedRecords, fetch' \in FetchRecords, form' \in FormRecords,
           seen' \in SeenRecords,
           cached'.asOf <= changes, fetch'.asOf <= changes, form'.asOf <= changes,
           seen'.saved <= changes,
           CacheRight', FetchRight', FormRight', FormInStep', FetchInStep', OwnSavesShown'
    PROVE  FormsInv'
<1>1. FormsTypes' /\ Earlier'
  BY DEF FormsInv, FormsTypes, Earlier
<1>2. PatchRight'
  BY DEF FormsInv, PatchRight, AsAt
<1>3. NeverVisited'
  BY DEF NeverVisited
<1> QED BY <1>1, <1>2, <1>3 DEF FormsInv

LEMMA OpenOK ==
    ASSUME FormsInv, page # "none", Open
    PROVE  FormsInv'
<1> DEFINE filled == Filled(Unfilled, cached.boxes, cached.asOf)
<1>1. /\ cached \in CachedRecords /\ fetch \in FetchRecords /\ seen \in SeenRecords
      /\ cached.boxes \in Contents /\ cached.asOf \in Nat /\ changes \in Nat
  BY DEF FormsInv, FormsTypes, CachedRecords
<1>2. /\ filled \in FormRecords /\ filled.asOf = cached.asOf
      /\ \A b \in Boxes : b \notin filled.guessed => filled.boxes[b] = cached.boxes[b]
  BY <1>1, NothingYet, FilledOK
<1>3. /\ form' = IF cached.has THEN filled ELSE Unfilled
      /\ fetch' \in {fetch, Asked}
      /\ page' = page /\ row' = row /\ changes' = changes /\ changed' = changed
      /\ cached' = cached /\ patch' = patch /\ seen' = seen
  BY DEF Open, Ask
<1> HIDE DEF filled
<1>4. /\ form' \in FormRecords /\ fetch' \in FetchRecords
      /\ fetch'.asOf <= changes /\ form'.asOf <= changes
  BY <1>1, <1>2, <1>3, NothingYet DEF FormsInv, Earlier
<1>5. CacheRight' /\ FetchRight'
  BY <1>3, NothingYet DEF FormsInv, CacheRight, FetchRight, AsAt
<1>6. FormRight'
  BY <1>2, <1>3, NothingYet DEF FormsInv, CacheRight, FormRight, AsAt
<1>7. FormInStep' /\ FetchInStep' /\ OwnSavesShown'
  BY <1>1, <1>2, <1>3, NothingYet DEF FormsInv, FormInStep, FetchInStep, OwnSavesShown
<1> QED BY <1>1, <1>3, <1>4, <1>5, <1>6, <1>7, BrowserOK DEF FormsInv, Earlier

LEMMA AgeOK ==
    ASSUME FormsInv, page # "none", Age
    PROVE  FormsInv'
<1>1. cached \in CachedRecords /\ form \in FormRecords /\ fetch \in FetchRecords /\ changes \in Nat
  BY DEF FormsInv, FormsTypes
<1>2. /\ page' = page /\ row' = row /\ changes' = changes /\ changed' = changed
      /\ fetch' = fetch /\ form' = form /\ patch' = patch /\ seen' = seen
  BY DEF Age
<1>3. CASE cached' = [cached EXCEPT !.stale = TRUE]
  <2>1. /\ cached' \in CachedRecords /\ cached'.has = cached.has /\ cached'.asOf = cached.asOf
        /\ cached'.boxes = cached.boxes /\ cached'.stale
    BY <1>1, <1>3 DEF CachedRecords
  <2> QED BY <1>2, <2>1, BrowserOK DEF FormsInv, FormsTypes, Earlier, CacheRight, FetchRight,
             FormRight, AsAt, FormInStep, FetchInStep, OwnSavesShown, OnScreen
<1>4. CASE /\ ~OnScreen
           /\ cached' = [cached EXCEPT !.has = FALSE, !.boxes = Nothing, !.asOf = 0,
                                       !.failed = FALSE]
  <2>1. cached' \in CachedRecords /\ ~cached'.has /\ cached'.asOf = 0
    BY <1>1, <1>4, NothingTyped DEF CachedRecords
  <2> QED BY <1>1, <1>2, <1>4, <2>1, BrowserOK DEF FormsInv, FormsTypes, Earlier, CacheRight, FetchRight,
             FormRight, AsAt, FormInStep, FetchInStep, OwnSavesShown, OnScreen
<1> QED BY <1>3, <1>4 DEF Age

(* The GET *)

LEMMA FocusOK ==
    ASSUME FormsInv, page # "none", Focus
    PROVE  FormsInv'
<1>1. /\ page' = page /\ row' = row /\ changes' = changes /\ changed' = changed
      /\ cached' = cached /\ fetch' = Asked /\ form' = form /\ patch' = patch /\ seen' = seen
  BY DEF Focus, Ask
<1> QED BY <1>1, NothingYet, BrowserOK DEF FormsInv, FormsTypes, Earlier, CacheRight, FetchRight,
           FormRight, AsAt, FormInStep, FetchInStep, OwnSavesShown, OnScreen

LEMMA FetchReadOK ==
    ASSUME FormsInv, FetchRead
    PROVE  FormsInv'
<1>1. /\ page' = page /\ row' = row /\ changes' = changes /\ changed' = changed
      /\ cached' = cached /\ form' = form /\ patch' = patch /\ seen' = seen
      /\ page # "none"
  BY DEF FetchRead, FormsInv, NeverVisited
<1>2. fetch' \in FetchRecords /\ fetch'.asOf = changes /\ fetch'.boxes = row
  BY DEF FetchRead, FormsInv, FormsTypes, FetchRecords
<1>3. FetchRight' /\ FetchInStep'
  BY <1>1, <1>2 DEF FormsInv, FormsTypes, Earlier, FetchRight, AsAt, FetchInStep, CachedRecords,
     SeenRecords
<1> QED BY <1>1, <1>2, <1>3, BrowserOK DEF FormsInv, FormsTypes, Earlier, CacheRight,
           FormRight, AsAt, FormInStep, OwnSavesShown, OnScreen

LEMMA FetchArrivesOK ==
    ASSUME FormsInv, FetchArrives
    PROVE  FormsInv'
<1> DEFINE filled == Filled(form, fetch.boxes, fetch.asOf)
<1>1. /\ form \in FormRecords /\ fetch \in FetchRecords /\ cached \in CachedRecords
      /\ fetch.boxes \in Contents /\ fetch.asOf \in Nat /\ fetch.at = "read" /\ changes \in Nat
      /\ seen \in SeenRecords
  BY DEF FormsInv, FormsTypes, FetchRecords, FetchArrives
<1>2. /\ page' = page /\ row' = row /\ changes' = changes /\ changed' = changed
      /\ patch' = patch /\ seen' = seen /\ fetch' = NoFetch /\ page # "none"
      /\ cached' = [has |-> TRUE, boxes |-> fetch.boxes, asOf |-> fetch.asOf,
                    stale |-> FALSE, failed |-> FALSE]
      /\ form' = IF OnScreen /\ ~(cached.has /\ cached.asOf = fetch.asOf) THEN filled ELSE form
  BY DEF FetchArrives, FormsInv, NeverVisited
<1>3. /\ filled \in FormRecords /\ filled.on = form.on /\ filled.asOf = fetch.asOf
      /\ \A b \in Boxes : b \notin filled.guessed => filled.boxes[b] = fetch.boxes[b]
  BY <1>1, FilledOK
<1> HIDE DEF filled
<1>4. /\ cached' \in CachedRecords /\ cached'.has /\ cached'.asOf = fetch.asOf
      /\ cached'.boxes = fetch.boxes /\ ~cached'.stale
  BY <1>1, <1>2 DEF CachedRecords
<1> HIDE DEF FormsInv
<1>5. CacheRight' /\ FetchRight' /\ FetchInStep'
  BY <1>1, <1>2, <1>4, NothingYet DEF FormsInv, FetchRight, CacheRight, AsAt, FetchInStep
<1>6. OwnSavesShown'
  BY <1>1, <1>2, <1>4 DEF FormsInv, FetchInStep, OwnSavesShown
<1>7. OnScreen' <=> OnScreen
  BY <1>2, <1>3 DEF OnScreen
<1>8. FormRight'
  BY <1>1, <1>2, <1>3, <1>7 DEF FormsInv, FetchRight, FormRight, AsAt
<1>9. FormInStep'
  BY <1>2, <1>3, <1>4, <1>7 DEF FormsInv, FormInStep
<1>10. /\ form' \in FormRecords /\ form'.asOf <= changes /\ cached'.asOf <= changes
       /\ seen'.saved <= changes /\ fetch'.asOf <= changes
  BY <1>1, <1>2, <1>3, <1>4, NothingYet DEF FormsInv, Earlier
<1> QED BY <1>1, <1>2, <1>4, <1>5, <1>6, <1>8, <1>9, <1>10, NothingYet, BrowserOK

LEMMA FetchFailsOK ==
    ASSUME FormsInv, FetchFails
    PROVE  FormsInv'
<1>1. /\ page' = page /\ row' = row /\ changes' = changes /\ changed' = changed
      /\ form' = form /\ patch' = patch /\ seen' = seen /\ fetch' = NoFetch /\ page # "none"
      /\ cached' = [cached EXCEPT !.failed = ThePage.minds]
  BY DEF FetchFails, FormsInv, NeverVisited
<1>2. ThePage.minds \in BOOLEAN
  BY DEF ThePage, VehiclePage, EventPage, EquipmentPage, MemberPage, OrganizationPage
<1>3. cached \in CachedRecords
  BY DEF FormsInv, FormsTypes
<1>4. /\ cached' \in CachedRecords /\ cached'.has = cached.has /\ cached'.asOf = cached.asOf
      /\ cached'.boxes = cached.boxes /\ cached'.stale = cached.stale
  BY <1>1, <1>2, <1>3 DEF CachedRecords
<1> QED BY <1>1, <1>4, NothingYet, BrowserOK DEF FormsInv, FormsTypes, Earlier, CacheRight,
           FetchRight, FormRight, AsAt, FormInStep, FetchInStep, OwnSavesShown, OnScreen

-----------------------------------------------------------------------------
(* The form *)

LEMMA TypedOK ==
    ASSUME FormsInv, NEW b \in Boxes, NEW content \in Texts \cup {Blank}, Type(b, content)
    PROVE  FormsInv'
<1> DEFINE boxes == [form.boxes EXCEPT ![b] = content]
<1>1. /\ page' = page /\ row' = row /\ changes' = changes /\ changed' = changed
      /\ cached' = cached /\ fetch' = fetch /\ patch' = patch /\ seen' = seen
      /\ form' = [form EXCEPT !.boxes = boxes, !.typed = @ \cup {b}]
      /\ OnScreen /\ page # "none"
  BY DEF Type, FormShown, FormsInv, NeverVisited
<1>2. form \in FormRecords /\ form.boxes \in Contents
  BY DEF FormsInv, FormsTypes, FormRecords
<1>3. boxes \in Contents /\ \A o \in Boxes \ {b} : boxes[o] = form.boxes[o]
  BY <1>2 DEF Contents
<1> HIDE DEF boxes
<1>4. /\ form' \in FormRecords /\ form'.on = form.on /\ form'.asOf = form.asOf
      /\ form'.guessed = form.guessed /\ form'.typed = form.typed \cup {b}
      /\ form'.boxes = boxes
  BY <1>1, <1>2, <1>3 DEF FormRecords
<1>5. FormRight'
  BY <1>1, <1>3, <1>4 DEF FormsInv, FormRight, AsAt
<1> QED BY <1>1, <1>4, <1>5, BrowserOK DEF FormsInv, FormsTypes, Earlier, CacheRight,
           FetchRight, AsAt, FormInStep, FetchInStep, OwnSavesShown, OnScreen

LEMMA LeaveOK ==
    ASSUME FormsInv, Leave
    PROVE  FormsInv'
<1>1. /\ page' = page /\ row' = row /\ changes' = changes /\ changed' = changed
      /\ cached' = cached /\ fetch' = fetch /\ patch' = patch /\ seen' = seen
      /\ form' = NoForm /\ page # "none"
  BY DEF Leave, FormsInv, NeverVisited
<1> QED BY <1>1, NothingYet, BrowserOK DEF FormsInv, FormsTypes, Earlier, CacheRight,
           FetchRight, FormRight, AsAt, FormInStep, FetchInStep, OwnSavesShown, OnScreen

(* What is sent is what the form holds. *)
LEMMA SubmitOK ==
    ASSUME FormsInv, Submit
    PROVE  FormsInv'
<1>1. /\ page' = page /\ row' = row /\ changes' = changes /\ changed' = changed
      /\ cached' = cached /\ fetch' = fetch /\ OnScreen /\ page # "none"
      /\ seen' = [seen EXCEPT !.sent = @ + 1]
      /\ form' = [form EXCEPT !.on = "saving"]
  BY DEF Submit, FormShown, FormsInv, NeverVisited
<1>2. form \in FormRecords /\ seen \in SeenRecords
  BY DEF FormsInv, FormsTypes
<1>3. /\ form' \in FormRecords /\ form'.on = "saving" /\ form'.asOf = form.asOf
      /\ form'.guessed = form.guessed /\ form'.typed = form.typed
      /\ form'.boxes = form.boxes
  BY <1>1, <1>2 DEF FormRecords
<1>4. /\ seen' \in SeenRecords /\ seen'.saved = seen.saved /\ seen'.missed = seen.missed
  BY <1>1, <1>2 DEF SeenRecords
<1>5. /\ patch' \in PatchRecords /\ patch'.at = "sent" /\ patch'.boxes = form.boxes
      /\ patch'.typed = form.typed /\ patch'.guessed = form.guessed
      /\ patch'.asOf = form.asOf /\ patch'.number = 0
  <2> DEFINE any == NoPatch
  <2>1. any \in PatchRecords /\ any.number = 0
    BY NothingYet
  <2> HIDE DEF any
  <2>2. patch' = [any EXCEPT !.at = "sent", !.boxes = form.boxes, !.typed = form.typed,
                             !.guessed = form.guessed, !.asOf = form.asOf]
    BY DEF Submit, any
  <2> QED BY <1>2, <2>1, <2>2 DEF PatchRecords, FormRecords
<1>6. FormsTypes' /\ Earlier'
  BY <1>1, <1>3, <1>4, <1>5 DEF FormsInv, FormsTypes, Earlier
<1>7. PatchRight'
  BY <1>1, <1>5 DEF FormsInv, FormRight, PatchRight, AsAt
<1>8. CacheRight' /\ FetchRight' /\ FormRight'
  BY <1>1, <1>3 DEF FormsInv, CacheRight, FetchRight, FormRight, AsAt
<1>9. FormInStep' /\ FetchInStep' /\ OwnSavesShown' /\ NeverVisited'
  BY <1>1, <1>3, <1>4 DEF FormsInv, FormInStep, FetchInStep, OwnSavesShown, NeverVisited
<1> QED BY <1>6, <1>7, <1>8, <1>9 DEF FormsInv

(* An answer to the save. *)
LEMMA AnsweredOK ==
    ASSUME FormsInv
    PROVE  /\ Answered \in FormRecords /\ (Answered.on # "away" <=> OnScreen)
           /\ Answered.asOf = form.asOf /\ Answered.guessed = form.guessed
           /\ Answered.typed = form.typed /\ Answered.boxes = form.boxes
<1>1. form \in FormRecords
  BY DEF FormsInv, FormsTypes
<1> QED BY <1>1 DEF Answered, OnScreen, FormRecords

LEMMA RefusedOK ==
    ASSUME FormsInv, Refused
    PROVE  FormsInv'
<1>1. /\ page' = page /\ row' = row /\ changes' = changes /\ changed' = changed
      /\ cached' = cached /\ fetch' = fetch /\ seen' = seen
      /\ form' = Answered /\ patch' = NoPatch /\ page # "none"
  BY DEF Refused, FormsInv, NeverVisited
<1>2. FormsTypes' /\ Earlier'
  BY <1>1, AnsweredOK, NothingYet DEF FormsInv, FormsTypes, Earlier
<1>3. CacheRight' /\ FetchRight' /\ FormRight' /\ PatchRight'
  BY <1>1, AnsweredOK, NothingYet DEF FormsInv, CacheRight, FetchRight, FormRight, PatchRight,
     AsAt, OnScreen
<1>4. FormInStep' /\ FetchInStep' /\ OwnSavesShown' /\ NeverVisited'
  BY <1>1, AnsweredOK DEF FormsInv, FormInStep, FetchInStep, OwnSavesShown, NeverVisited, OnScreen
<1> QED BY <1>2, <1>3, <1>4 DEF FormsInv

(* What invalidating the record leaves in the cache and under way. *)
LEMMA InvalidateOK ==
    ASSUME FormsInv, Invalidate
    PROVE  /\ cached' \in CachedRecords /\ cached'.has = cached.has /\ cached'.stale
           /\ cached'.boxes = cached.boxes /\ cached'.asOf = cached.asOf
           /\ fetch' \in {fetch, Asked}
           /\ fetch'.at = "read" => fetch' = fetch /\ ~(OnScreen /\ cached.has)
<1>1. cached \in CachedRecords /\ cached' = [cached EXCEPT !.stale = TRUE]
  BY DEF FormsInv, FormsTypes, Invalidate
<1>2. /\ cached' \in CachedRecords /\ cached'.has = cached.has /\ cached'.stale
      /\ cached'.boxes = cached.boxes /\ cached'.asOf = cached.asOf
  BY <1>1 DEF CachedRecords
<1> QED BY <1>2, NothingYet DEF Invalidate

LEMMA SavedOK ==
    ASSUME FormsInv, Saved
    PROVE  FormsInv'
<1> DEFINE missed == seen.missed \/ (fetch.at = "read" /\ ~(OnScreen /\ cached.has))
<1>1. /\ page' = page /\ row' = row /\ changes' = changes /\ changed' = changed
      /\ patch' = NoPatch /\ Invalidate /\ page # "none" /\ patch.at = "done"
      /\ form' \in {NoForm, Answered}
      /\ seen' = [seen EXCEPT !.saved = patch.number, !.missed = missed]
  BY DEF Saved, FormsInv, NeverVisited
<1>2. /\ seen \in SeenRecords /\ patch \in PatchRecords /\ changes \in Nat
      /\ cached \in CachedRecords /\ fetch \in FetchRecords /\ patch.number \in Nat
      /\ patch.number <= changes
  BY DEF FormsInv, FormsTypes, PatchRecords, Earlier
<1>3. missed \in BOOLEAN
  BY <1>2 DEF SeenRecords
<1> HIDE DEF missed
<1>4. /\ seen' \in SeenRecords /\ seen'.saved = patch.number /\ seen'.missed = missed
  BY <1>1, <1>2, <1>3 DEF SeenRecords
<1>5. /\ cached' \in CachedRecords /\ cached'.has = cached.has /\ cached'.stale
      /\ cached'.boxes = cached.boxes /\ cached'.asOf = cached.asOf
      /\ fetch' \in {fetch, Asked}
      /\ fetch'.at = "read" => fetch' = fetch /\ ~(OnScreen /\ cached.has)
  BY <1>1, InvalidateOK
<1> HIDE DEF FormsInv
<1>6. FormsTypes'
  BY <1>1, <1>4, <1>5, AnsweredOK, NothingYet DEF FormsInv, FormsTypes
<1>7. Earlier'
  BY <1>1, <1>2, <1>4, <1>5, AnsweredOK, NothingYet DEF FormsInv, Earlier
<1>8. CacheRight' /\ FetchRight' /\ PatchRight'
  BY <1>1, <1>5, NothingYet DEF FormsInv, CacheRight, FetchRight, PatchRight, AsAt
<1>9. FormRight' /\ FormInStep'
  BY <1>1, <1>5, AnsweredOK, NothingYet DEF FormsInv, FormRight, FormInStep, AsAt, OnScreen
<1>10. FetchInStep'
  BY <1>2, <1>4, <1>5, NothingYet DEF FormsInv, FetchInStep, missed
<1>11. OwnSavesShown' /\ NeverVisited'
  BY <1>1, <1>5 DEF OwnSavesShown, NeverVisited
<1> QED BY <1>6, <1>7, <1>8, <1>9, <1>10, <1>11 DEF FormsInv

LEMMA BesideFormOK ==
    ASSUME FormsInv, page # "none", BesideForm
    PROVE  FormsInv'
<1>1. /\ page' = page /\ row' = row /\ changes' = changes + 1 /\ changed' = changed
      /\ form' = form /\ patch' = patch /\ Invalidate /\ OnScreen /\ cached.has
      /\ seen' = [seen EXCEPT !.news = @ + 1, !.saved = changes + 1]
  BY DEF BesideForm, FormShown
<1>2. seen \in SeenRecords /\ changes \in Nat /\ cached \in CachedRecords /\ fetch \in FetchRecords
      /\ form \in FormRecords /\ patch \in PatchRecords /\ changed \in [Boxes -> Nat]
  BY DEF FormsInv, FormsTypes
<1>3. /\ seen' \in SeenRecords /\ seen'.saved = changes + 1 /\ seen'.missed = seen.missed
  <2> DEFINE next == changes + 1
             news == seen.news + 1
  <2>1. next \in Nat /\ news \in Nat
    BY <1>2 DEF SeenRecords
  <2>2. seen' = [seen EXCEPT !.news = news, !.saved = next]
    BY <1>1
  <2> HIDE DEF next, news
  <2>3. /\ seen' \in SeenRecords /\ seen'.saved = next /\ seen'.missed = seen.missed
    BY <1>2, <2>1, <2>2 DEF SeenRecords
  <2> QED BY <2>3 DEF next
<1>4. /\ cached' \in CachedRecords /\ cached'.has = cached.has /\ cached'.stale
      /\ cached'.boxes = cached.boxes /\ cached'.asOf = cached.asOf
      /\ fetch' \in {fetch, Asked} /\ fetch'.at # "read"
  BY <1>1, InvalidateOK
<1>5. FormsTypes'
  BY <1>1, <1>2, <1>3, <1>4, NothingYet DEF FormsInv, FormsTypes
<1>6. Earlier'
  <2>1. /\ cached.asOf \in Nat /\ fetch.asOf \in Nat /\ form.asOf \in Nat /\ patch.asOf \in Nat
        /\ patch.number \in Nat /\ \A b \in Boxes : changed[b] \in Nat
    BY <1>2 DEF CachedRecords, FetchRecords, FormRecords, PatchRecords
  <2> QED BY <1>1, <1>2, <1>3, <1>4, <2>1, NothingYet DEF FormsInv, Earlier
<1>7. CacheRight' /\ FetchRight' /\ FormRight' /\ PatchRight'
  BY <1>1, <1>4 DEF FormsInv, CacheRight, FetchRight, FormRight, PatchRight, AsAt, OnScreen
<1>8. FormInStep' /\ FetchInStep' /\ OwnSavesShown' /\ NeverVisited'
  BY <1>1, <1>4 DEF FormsInv, FormInStep, FetchInStep, OwnSavesShown, NeverVisited, OnScreen
<1> QED BY <1>5, <1>6, <1>7, <1>8 DEF FormsInv

-----------------------------------------------------------------------------
(* The handler, and what others save *)

(* The server goes on with the request, and the record stays as it is. *)
LEMMA ServerOK ==
    ASSUME FormsInv, page' = page, row' = row, changes' = changes, changed' = changed,
           cached' = cached, fetch' = fetch, form' = form, seen' = seen, page # "none",
           patch' \in PatchRecords, patch'.asOf <= changes, patch'.number <= changes, PatchRight'
    PROVE  FormsInv'
<1>1. FormsTypes' /\ Earlier'
  BY DEF FormsInv, FormsTypes, Earlier
<1>2. CacheRight' /\ FetchRight' /\ FormRight'
  BY DEF FormsInv, CacheRight, FetchRight, FormRight, AsAt, OnScreen
<1>3. FormInStep' /\ FetchInStep' /\ OwnSavesShown' /\ NeverVisited'
  BY DEF FormsInv, FormInStep, FetchInStep, OwnSavesShown, NeverVisited, OnScreen
<1> QED BY <1>1, <1>2, <1>3 DEF FormsInv

LEMMA PatchLoadOK ==
    ASSUME FormsInv, PatchLoad
    PROVE  FormsInv'
<1> DEFINE entity == [b \in Boxes |-> IF patch.boxes[b] = Blank /\ WhenEmpty(b) = "kept"
                                      THEN row[b] ELSE patch.boxes[b]]
<1>1. /\ page' = page /\ row' = row /\ changes' = changes /\ changed' = changed
      /\ cached' = cached /\ fetch' = fetch /\ form' = form /\ seen' = seen /\ page # "none"
      /\ patch.at = "sent" /\ patch' = [patch EXCEPT !.at = "loaded", !.entity = entity]
  BY DEF PatchLoad, FormsInv, NeverVisited
<1>2. patch \in PatchRecords /\ patch.boxes \in Contents /\ row \in Contents
  BY DEF FormsInv, FormsTypes, PatchRecords
<1>3. entity \in Contents /\ \A b \in Boxes : entity[b] \in {row[b], patch.boxes[b]}
  BY <1>2 DEF Contents
<1> HIDE DEF entity
<1>4. /\ patch' \in PatchRecords /\ patch'.at = "loaded" /\ patch'.entity = entity
      /\ patch'.typed = patch.typed /\ patch'.guessed = patch.guessed
      /\ patch'.asOf = patch.asOf /\ patch'.number = patch.number
  BY <1>1, <1>2, <1>3 DEF PatchRecords
<1>5. PatchRight'
  BY <1>1, <1>3, <1>4 DEF FormsInv, PatchRight, AsAt
<1> QED BY <1>1, <1>4, <1>5, ServerOK DEF FormsInv, Earlier

LEMMA PatchReloadOK ==
    ASSUME FormsInv, PatchReload
    PROVE  FormsInv'
<1> DEFINE dirty == {b \in Boxes : patch.entity[b] # row[b]}
<1>1. /\ page' = page /\ row' = row /\ changes' = changes /\ changed' = changed
      /\ cached' = cached /\ fetch' = fetch /\ form' = form /\ seen' = seen /\ page # "none"
      /\ patch.at = "loaded"
      /\ \/ patch' = [patch EXCEPT !.at = "done", !.number = changes]
         \/ patch' = [patch EXCEPT !.at = "reloaded", !.dirty = dirty]
  BY DEF PatchReload, FormsInv, NeverVisited
<1>2. /\ patch \in PatchRecords /\ changes \in Nat /\ dirty \in SUBSET Boxes
      /\ \A b \in dirty : patch.entity[b] # row[b]
      /\ patch.asOf \in Nat /\ changed \in [Boxes -> Nat]
      /\ patch.asOf <= changes /\ patch.number <= changes
  BY DEF FormsInv, FormsTypes, Earlier, PatchRecords
<1> HIDE DEF dirty
<1>3. CASE patch' = [patch EXCEPT !.at = "done", !.number = changes]
  <2>1. /\ patch' \in PatchRecords /\ patch'.at = "done" /\ patch'.asOf = patch.asOf
        /\ patch'.number = changes
    BY <1>2, <1>3 DEF PatchRecords
  <2>2. PatchRight'
    BY <2>1 DEF PatchRight
  <2> QED BY <1>1, <1>2, <2>1, <2>2, ServerOK
<1>4. CASE patch' = [patch EXCEPT !.at = "reloaded", !.dirty = dirty]
  <2>1. /\ patch' \in PatchRecords /\ patch'.at = "reloaded" /\ patch'.asOf = patch.asOf
        /\ patch'.number = patch.number /\ patch'.dirty = dirty
        /\ patch'.typed = patch.typed /\ patch'.guessed = patch.guessed
    BY <1>2, <1>4 DEF PatchRecords
  <2>2. ASSUME NEW b \in Boxes, b \in dirty, b \notin patch.typed \cup patch.guessed
        PROVE  changed[b] > patch.asOf
    <3>1. ~(changed[b] <= patch.asOf)
      BY <1>1, <1>2, <2>2 DEF FormsInv, PatchRight, AsAt
    <3> QED BY <1>2, <3>1
  <2>3. PatchRight'
    BY <1>1, <2>1, <2>2 DEF PatchRight
  <2> QED BY <1>1, <1>2, <2>1, <2>3, ServerOK
<1> QED BY <1>1, <1>3, <1>4

LEMMA PatchRefuseOK ==
    ASSUME FormsInv, PatchRefuse
    PROVE  FormsInv'
<1>1. /\ page' = page /\ row' = row /\ changes' = changes /\ changed' = changed
      /\ cached' = cached /\ fetch' = fetch /\ form' = form /\ seen' = seen /\ page # "none"
  BY DEF PatchRefuse, FormsInv, NeverVisited
<1>2. /\ patch' \in PatchRecords /\ patch'.at = "refused" /\ patch'.asOf = 0 /\ patch'.number = 0
  <2> DEFINE any == NoPatch
  <2>1. any \in PatchRecords /\ any.asOf = 0 /\ any.number = 0
    BY NothingYet
  <2> HIDE DEF any
  <2>2. patch' = [any EXCEPT !.at = "refused"]
    BY DEF PatchRefuse, any
  <2> QED BY <2>1, <2>2 DEF PatchRecords
<1>3. PatchRight'
  BY <1>2 DEF PatchRight
<1>4. changes \in Nat
  BY DEF FormsInv, FormsTypes
<1> QED BY <1>1, <1>2, <1>3, <1>4, ServerOK

(* Some columns change, and their changes are later than anything known. *)
LEMMA RowChangesOK ==
    ASSUME FormsInv, NEW dirty \in SUBSET Boxes, page # "none",
           row' \in Contents, changed' \in [Boxes -> Nat],
           \A b \in Boxes : IF b \in dirty THEN changed'[b] = changes + 1
                            ELSE row'[b] = row[b] /\ changed'[b] = changed[b],
           changes' = changes + 1, page' = page,
           cached' = cached, fetch' = fetch, form' = form,
           seen' \in SeenRecords, seen'.saved = seen.saved, seen'.missed = seen.missed,
           patch' \in PatchRecords, patch'.asOf = patch.asOf, patch'.number <= changes + 1,
           patch'.at = "done" \/ patch' = patch
    PROVE  FormsInv'
<1>1. /\ changes \in Nat /\ cached.asOf \in Nat /\ fetch.asOf \in Nat /\ form.asOf \in Nat
      /\ patch.asOf \in Nat /\ patch.number \in Nat /\ seen.saved \in Nat
      /\ changed \in [Boxes -> Nat]
  BY DEF FormsInv, FormsTypes, CachedRecords, FetchRecords, FormRecords, PatchRecords, SeenRecords
<1>2. FormsTypes'
  BY <1>1 DEF FormsInv, FormsTypes
<1>3. Earlier'
  BY <1>1 DEF FormsInv, Earlier
<1>4. ASSUME NEW boxes, NEW asOf \in Nat, asOf <= changes, NEW known, AsAt(boxes, asOf, known),
             NEW b \in Boxes, b \in known, changed'[b] <= asOf
      PROVE  boxes[b] = row'[b]
  BY <1>1, <1>4 DEF AsAt
<1>5. CacheRight'
  <2> SUFFICES ASSUME cached.has, NEW b \in Boxes, changed'[b] <= cached.asOf
               PROVE  cached.boxes[b] = row'[b]
    BY DEF CacheRight, AsAt
  <2> QED BY <1>1, <1>4 DEF FormsInv, CacheRight, Earlier
<1>6. FetchRight'
  <2> SUFFICES ASSUME fetch.at = "read", NEW b \in Boxes, changed'[b] <= fetch.asOf
               PROVE  fetch.boxes[b] = row'[b]
    BY DEF FetchRight, AsAt
  <2> QED BY <1>1, <1>4 DEF FormsInv, FetchRight, Earlier
<1>7. FormRight'
  <2> DEFINE known == Boxes \ (form.typed \cup form.guessed)
  <2> SUFFICES ASSUME OnScreen, NEW b \in Boxes, b \in known, changed'[b] <= form.asOf
               PROVE  form.boxes[b] = row'[b]
    BY DEF FormRight, AsAt, OnScreen
  <2>1. AsAt(form.boxes, form.asOf, known)
    BY DEF FormsInv, FormRight
  <2> HIDE DEF known
  <2> QED BY <1>1, <1>4, <2>1 DEF FormsInv, Earlier
<1>8. PatchRight'
  <2>1. CASE patch'.at = "done"
    BY <2>1 DEF PatchRight
  <2>2. CASE patch' = patch
    <3> DEFINE known == Boxes \ (patch.typed \cup patch.guessed)
    <3>1. patch.at = "sent" =>
             \A b \in Boxes : (b \in known /\ changed'[b] <= patch.asOf)
                                 => patch.boxes[b] = row'[b]
      <4> SUFFICES ASSUME patch.at = "sent", NEW b \in Boxes, b \in known,
                          changed'[b] <= patch.asOf
                   PROVE  patch.boxes[b] = row'[b]
        OBVIOUS
      <4>1. AsAt(patch.boxes, patch.asOf, known)
        BY DEF FormsInv, PatchRight
      <4> HIDE DEF known
      <4> QED BY <1>1, <1>4, <4>1 DEF FormsInv, Earlier
    <3>2. patch.at = "loaded" =>
             \A b \in Boxes : (b \in known /\ changed'[b] <= patch.asOf)
                                 => patch.entity[b] = row'[b]
      <4> SUFFICES ASSUME patch.at = "loaded", NEW b \in Boxes, b \in known,
                          changed'[b] <= patch.asOf
                   PROVE  patch.entity[b] = row'[b]
        OBVIOUS
      <4>1. AsAt(patch.entity, patch.asOf, known)
        BY DEF FormsInv, PatchRight
      <4> HIDE DEF known
      <4> QED BY <1>1, <1>4, <4>1 DEF FormsInv, Earlier
    <3>3. patch.at = "reloaded" =>
             \A b \in Boxes : (b \in patch.dirty /\ b \in known) => changed'[b] > patch.asOf
      BY <1>1 DEF FormsInv, PatchRight, Earlier
    <3> QED BY <2>2, <3>1, <3>2, <3>3 DEF PatchRight, AsAt
  <2> QED BY <2>1, <2>2
<1>9. FormInStep' /\ FetchInStep' /\ OwnSavesShown' /\ NeverVisited'
  BY DEF FormsInv, FormInStep, FetchInStep, OwnSavesShown, NeverVisited, OnScreen
<1> QED BY <1>2, <1>3, <1>5, <1>6, <1>7, <1>8, <1>9 DEF FormsInv

LEMMA PatchUpdateOK ==
    ASSUME FormsInv, PatchUpdate
    PROVE  FormsInv'
<1>1. patch \in PatchRecords /\ patch.dirty \in SUBSET Boxes /\ patch.entity \in Contents
      /\ row \in Contents /\ changes \in Nat /\ changed \in [Boxes -> Nat]
  BY DEF FormsInv, FormsTypes, PatchRecords
<1>2. /\ row' = [b \in Boxes |-> IF b \in patch.dirty THEN patch.entity[b] ELSE row[b]]
      /\ changed' = [b \in Boxes |-> IF b \in patch.dirty THEN changes + 1 ELSE changed[b]]
      /\ changes' = changes + 1 /\ page' = page /\ cached' = cached /\ fetch' = fetch
      /\ form' = form /\ seen' = seen /\ page # "none"
      /\ patch' = [patch EXCEPT !.at = "done", !.number = changes + 1]
  BY DEF PatchUpdate, FormsInv, NeverVisited
<1>3. row' \in Contents /\ changed' \in [Boxes -> Nat]
  BY <1>1, <1>2 DEF Contents
<1>4. \A b \in Boxes : IF b \in patch.dirty THEN changed'[b] = changes + 1
                       ELSE row'[b] = row[b] /\ changed'[b] = changed[b]
  BY <1>1, <1>2 DEF Contents
<1> DEFINE next == changes + 1
<1>5. next \in Nat /\ patch' = [patch EXCEPT !.at = "done", !.number = next]
  BY <1>1, <1>2
<1>6. /\ patch' \in PatchRecords /\ patch'.at = "done" /\ patch'.asOf = patch.asOf
      /\ patch'.number = next
  <2> HIDE DEF next
  <2> QED BY <1>1, <1>5 DEF PatchRecords
<1>7. seen' \in SeenRecords /\ changes + 1 <= changes + 1
  BY <1>1, <1>2 DEF FormsInv, FormsTypes
<1> QED BY <1>1, <1>2, <1>3, <1>4, <1>5, <1>6, <1>7, RowChangesOK

LEMMA OthersSaveOK ==
    ASSUME FormsInv, NEW b \in Boxes, NEW content \in Texts \cup {Blank}, OthersSave(b, content)
    PROVE  FormsInv'
<1>1. /\ row \in Contents /\ changes \in Nat /\ changed \in [Boxes -> Nat]
      /\ seen \in SeenRecords /\ patch \in PatchRecords
      /\ patch.number \in Nat /\ patch.number <= changes
  BY DEF FormsInv, FormsTypes, PatchRecords, Earlier
<1>2. /\ row' = [row EXCEPT ![b] = content] /\ changed' = [changed EXCEPT ![b] = changes + 1]
      /\ changes' = changes + 1 /\ page' = page /\ cached' = cached /\ fetch' = fetch
      /\ form' = form /\ page # "none" /\ patch' = patch
      /\ seen' = [seen EXCEPT !.news = @ + 1]
  BY DEF OthersSave
<1>3. row' \in Contents /\ changed' \in [Boxes -> Nat]
  BY <1>1, <1>2 DEF Contents
<1>4. \A o \in Boxes : IF o \in {b} THEN changed'[o] = changes + 1
                       ELSE row'[o] = row[o] /\ changed'[o] = changed[o]
  BY <1>1, <1>2 DEF Contents
<1>5. seen' \in SeenRecords /\ seen'.saved = seen.saved /\ seen'.missed = seen.missed
  BY <1>1, <1>2 DEF SeenRecords
<1>6. patch'.number <= changes + 1 /\ {b} \in SUBSET Boxes
  BY <1>1, <1>2
<1> QED BY <1>1, <1>2, <1>3, <1>4, <1>5, <1>6, RowChangesOK

LEMMA FormsStepOK == FormsInv /\ FormsNext => FormsInv'
<1> SUFFICES ASSUME FormsInv, FormsNext PROVE FormsInv'
  OBVIOUS
<1>1. CASE \E p \in Pages, contents \in FirstRows : Visit(p, contents)
  BY <1>1, VisitOK
<1>2. CASE page # "none" /\ (Open \/ Leave \/ Submit \/ ChangeDrivers \/ UploadLogo \/ Age \/ Focus)
  BY <1>2, OpenOK, LeaveOK, SubmitOK, BesideFormOK, AgeOK, FocusOK DEF ChangeDrivers, UploadLogo
<1>3. CASE FormsAnswer \/ FetchFails \/ PatchRefuse
  BY <1>3, FetchReadOK, FetchArrivesOK, SavedOK, RefusedOK, PatchLoadOK, PatchReloadOK,
     PatchUpdateOK, FetchFailsOK, PatchRefuseOK DEF FormsAnswer
<1>4. CASE \E b \in Boxes, content \in Texts \cup {Blank} : Type(b, content) \/ OthersSave(b, content)
  BY <1>4, TypedOK, OthersSaveOK
<1> QED BY <1>1, <1>2, <1>3, <1>4 DEF FormsNext

LEMMA FormsInvariance == FormsSpec => []FormsInv
<1>1. FormsInv /\ UNCHANGED formsVars => FormsInv'
  BY DEF FormsInv, FormsTypes, Earlier, NeverVisited, CacheRight, FetchRight, FormRight, PatchRight,
     AsAt, FormInStep, FetchInStep, OwnSavesShown, OnScreen, formsVars
<1>2. FormsInv /\ [FormsNext]_formsVars => FormsInv'
  BY FormsStepOK, <1>1
<1> QED BY FormsStart, <1>2, PTL DEF FormsSpec

(* The record, the cache, the form and the request keep their types. *)
THEOREM FormsTypeCorrect == FormsSpec => []FormsTypeOK
<1>1. FormsInv => FormsTypeOK
  BY DEF FormsInv, FormsTypes, FormsTypeOK, CachedRecords, FetchRecords, FormRecords,
     PatchRecords, SeenRecords
<1> QED BY FormsInvariance, <1>1, PTL

(* What the cache of a browser offers as fresh is no older than the last    *)
(* save the browser was told of, but for an answer it could not drop        *)
(* (invalidateQueries of the edit pages).                                   *)
THEOREM NoOldRecordShown == FormsSpec => []OwnSavesShown
<1>1. FormsInv => OwnSavesShown
  BY DEF FormsInv
<1> QED BY FormsInvariance, <1>1, PTL

(* A save of a form changes what was typed, what the page filled in for     *)
(* want of a value, and what somebody else has changed since (the PATCH     *)
(* handlers with the forms that send every box).                            *)
THEOREM OnlyTypedSaved == FormsSpec => OnlyTypedChanges
<1> DEFINE Only == \A b \in Boxes :
          (patch.at = "reloaded" /\ patch'.at = "done" /\ row'[b] # row[b])
             => \/ b \in patch.typed \cup patch.guessed
                \/ changed[b] > patch.asOf
<1>1. FormsInv /\ FormsNext => Only
  <2> SUFFICES ASSUME FormsInv, FormsNext, NEW b \in Boxes, patch.at = "reloaded",
                      patch'.at = "done", row'[b] # row[b]
               PROVE  b \in patch.typed \cup patch.guessed \/ changed[b] > patch.asOf
    OBVIOUS
  <2>1. PatchUpdate
    <3>1. ~(\E p \in Pages, contents \in FirstRows : Visit(p, contents))
      BY DEF FormsInv, NeverVisited, Visit
    <3>2. ~(Open \/ Leave \/ Submit \/ ChangeDrivers \/ UploadLogo \/ Age \/ Focus)
      BY DEF Open, Leave, Submit, ChangeDrivers, UploadLogo, BesideForm, Age, Focus
    <3>3. ~(FetchRead \/ FetchArrives \/ Saved \/ Refused \/ PatchLoad \/ PatchReload
            \/ FetchFails \/ PatchRefuse)
      BY DEF FetchRead, FetchArrives, Saved, Refused, PatchLoad, PatchReload, FetchFails,
         PatchRefuse
    <3>4. ~(\E o \in Boxes, content \in Texts \cup {Blank} :
              Type(o, content) \/ OthersSave(o, content))
      BY DEF Type, OthersSave
    <3> QED BY <3>1, <3>2, <3>3, <3>4 DEF FormsNext, FormsAnswer
  <2>2. b \in patch.dirty
    BY <2>1 DEF PatchUpdate
  <2> QED BY <2>2 DEF FormsInv, PatchRight
<1>2. UNCHANGED formsVars => Only
  BY DEF formsVars
<1> QED BY FormsInvariance, <1>1, <1>2, PTL DEF FormsSpec, OnlyTypedChanges

(* What is being typed is lost only to a newer record, or to the first one   *)
(* (the forms filled by an effect on the record).                           *)
THEOREM TypingKept == FormsSpec => TypingStays
<1> DEFINE Stays == OnScreen /\ form'.on # "away" /\ form.typed # {} /\ form'.typed = {}
                       => form'.asOf > form.asOf \/ form.guessed = Boxes
<1>1. FormsInv /\ FormsNext => Stays
  <2> SUFFICES ASSUME FormsInv, FormsNext, OnScreen, form'.on # "away", form.typed # {},
                      form'.typed = {}
               PROVE  form'.asOf > form.asOf \/ form.guessed = Boxes
    OBVIOUS
  <2>1. form \in FormRecords /\ form' # form
    BY DEF FormsInv, FormsTypes
  <2>2. FetchArrives
    <3>1. ~(\E p \in Pages, contents \in FirstRows : Visit(p, contents))
      BY <2>1 DEF Visit
    <3>2. ~(Open \/ Leave \/ ChangeDrivers \/ UploadLogo \/ Age \/ Focus)
      BY <2>1, NothingYet DEF Open, Leave, ChangeDrivers, UploadLogo, BesideForm, Age, Focus,
         OnScreen
    <3>3. ~Submit
      BY <2>1 DEF Submit, FormRecords
    <3>4. ~(FetchRead \/ PatchLoad \/ PatchReload \/ PatchUpdate \/ FetchFails \/ PatchRefuse)
      BY <2>1 DEF FetchRead, PatchLoad, PatchReload, PatchUpdate, FetchFails, PatchRefuse
    <3>5. ~(Saved \/ Refused)
      BY <2>1, NothingYet, AnsweredOK DEF Saved, Refused
    <3>6. ASSUME NEW o \in Boxes, NEW content \in Texts \cup {Blank}, Type(o, content)
          PROVE  FALSE
      BY <2>1, <3>6 DEF Type, FormRecords
    <3>7. \A o \in Boxes, content \in Texts \cup {Blank} : ~OthersSave(o, content)
      BY <2>1 DEF OthersSave
    <3> QED BY <3>1, <3>2, <3>3, <3>4, <3>5, <3>6, <3>7 DEF FormsNext, FormsAnswer
  <2>3. /\ form' = Filled(form, fetch.boxes, fetch.asOf)
        /\ ~(cached.has /\ cached.asOf = fetch.asOf) /\ fetch.at = "read"
    BY <2>1, <2>2 DEF FetchArrives
  <2>4. fetch.boxes \in Contents /\ fetch.asOf \in Nat /\ cached.asOf \in Nat
    BY DEF FormsInv, FormsTypes, FetchRecords, CachedRecords
  <2>5. form'.asOf = fetch.asOf
    BY <2>1, <2>3, <2>4, FilledOK
  <2> QED BY <2>3, <2>4, <2>5 DEF FormsInv, FetchInStep, FormInStep
<1>2. UNCHANGED formsVars => Stays
  BY DEF formsVars
<1> QED BY FormsInvariance, <1>1, <1>2, PTL DEF FormsSpec, TypingStays

-----------------------------------------------------------------------------
(* The list of members *)

Places == {"none", "load", "email", "name", "create", "reload", "save", "delete", "insert", "over"}
Addresses == Emails \cup {NoEmail}
MemberRecords == [is : BOOLEAN, name : Nat, email : Addresses, roles : SUBSET RoleRows]
RequestRecords ==
    [at : Places, person : People, creates : BOOLEAN, email : Addresses, sets : BOOLEAN,
     says : SUBSET Roles, name : Nat, entity : MemberRecords, gone : SUBSET RoleRows,
     come : SUBSET RoleRows, dirty : BOOLEAN, alone : BOOLEAN]

MembersTypes ==
    /\ members \in [People -> MemberRecords]
    /\ requests \in [Requests -> RequestRecords]
    /\ rowIds \in Nat /\ breaks \in Nat
    /\ sent \in [People -> SUBSET Roles]
    /\ whole \in [People -> BOOLEAN]
    /\ putBack \in [People -> SUBSET Roles]

(* Only a request that sets the roles comes to deleting and inserting them. *)
SetsRoles(request) ==
    /\ request.creates => request.sets
    /\ request.at \in {"delete", "insert"} => request.sets
    /\ request.at \in {"name", "create"} => request.creates

(* Two requests that set the roles of one member know of each other. *)
KnowsOthers ==
    \A q, r \in Requests :
        (/\ q # r /\ Active(q) /\ Active(r)
         /\ requests[q].sets /\ requests[r].sets
         /\ requests[q].person = requests[r].person) => ~requests[q].alone

(* A member has only roles that were sent or put back; before the new ones  *)
(* are inserted, only those that a save has put back, if the request is      *)
(* alone; and all that were sent, unless they are just being replaced.      *)
NoneUnsent ==
    \A p \in People : RolesOf(members[p].roles) \subseteq sent[p] \cup putBack[p]
NoneBefore ==
    \A r \in Requests : (requests[r].at = "insert" /\ requests[r].alone) =>
        RolesOf(members[requests[r].person].roles) \subseteq putBack[requests[r].person]
Replacing(p) == \E r \in Requests : requests[r].at = "insert" /\ requests[r].person = p
AllThere ==
    \A p \in People : (whole[p] /\ ~Replacing(p)) => sent[p] \subseteq RolesOf(members[p].roles)

MembersInv ==
    /\ MembersTypes
    /\ \A r \in Requests : SetsRoles(requests[r])
    /\ KnowsOthers
    /\ NoneUnsent
    /\ NoneBefore
    /\ AllThere

-----------------------------------------------------------------------------
LEMMA RolesOfUnion ==
    ASSUME NEW A, NEW B
    PROVE  RolesOf(A \cup B) = RolesOf(A) \cup RolesOf(B)
BY DEF RolesOf

LEMMA RolesOfMore ==
    ASSUME NEW B, NEW A \in SUBSET B
    PROVE  RolesOf(A) \subseteq RolesOf(B)
BY DEF RolesOf

LEMMA RolesOfNew ==
    ASSUME NEW S, NEW id
    PROVE  RolesOf(S \X {id}) = S
<1>1. RolesOf(S \X {id}) \subseteq S
  BY DEF RolesOf
<1>2. ASSUME NEW role \in S
      PROVE  role \in RolesOf(S \X {id})
  <2>1. <<role, id>> \in S \X {id} /\ <<role, id>>[1] = role
    OBVIOUS
  <2> QED BY <2>1 DEF RolesOf
<1> QED BY <1>1, <1>2

LEMMA RolesOfNone == RolesOf({}) = {}
BY DEF RolesOf

LEMMA RolesOfRows ==
    ASSUME NEW A \in SUBSET RoleRows
    PROVE  RolesOf(A) \subseteq Roles
BY DEF RolesOf, RoleRows

LEMMA RowsNew ==
    ASSUME NEW S \in SUBSET Roles, NEW id \in Nat
    PROVE  S \X {id} \in SUBSET RoleRows
BY DEF RoleRows

LEMMA NotYetTyped ==
    /\ NotYet \in MemberRecords
    /\ FirstMember \in MemberRecords
    /\ NoRequest \in RequestRecords
    /\ NoRequest.at = "none" /\ ~NoRequest.creates /\ ~NoRequest.sets
<1>1. {<<Admin, 0>>} \in SUBSET RoleRows
  BY MembersAssumption DEF RoleRows
<1>2. NotYet \in MemberRecords /\ FirstMember \in MemberRecords
  BY <1>1, MembersAssumption DEF NotYet, FirstMember, MemberRecords, Addresses
<1> QED BY <1>2, MembersAssumption DEF NoRequest, RequestRecords, Places, Addresses

LEMMA EndedTyped == Ended \in RequestRecords /\ SetsRoles(Ended) /\ Ended.at = "over"
<1> DEFINE any == NoRequest
<1>1. any \in RequestRecords /\ ~any.creates
  BY NotYetTyped
<1>2. Ended = [any EXCEPT !.at = "over"]
  BY DEF Ended
<1> HIDE DEF any
<1> QED BY <1>1, <1>2 DEF RequestRecords, SetsRoles, Places

LEMMA MembersStart == MembersInit => MembersInv
<1> SUFFICES ASSUME MembersInit PROVE MembersInv
  OBVIOUS
<1>1. MembersTypes
  BY NotYetTyped, MembersAssumption DEF MembersInit, MembersTypes
<1>2. \A r \in Requests : requests[r].at = "none" /\ SetsRoles(requests[r])
  BY NotYetTyped DEF MembersInit, SetsRoles
<1>3. KnowsOthers
  BY <1>2 DEF KnowsOthers, Active
<1>4. NoneBefore
  BY <1>2 DEF NoneBefore
<1>5. RolesOf({<<Admin, 0>>}) = {Admin}
  <2>1. {<<Admin, 0>>} = {Admin} \X {0}
    OBVIOUS
  <2> QED BY <2>1, RolesOfNew
<1>6. \A p \in People : RolesOf(members[p].roles) = sent[p]
  BY <1>5, RolesOfNone DEF MembersInit, NotYet, FirstMember
<1>7. NoneUnsent
  BY <1>6 DEF NoneUnsent
<1>8. AllThere
  BY <1>6 DEF AllThere
<1> QED BY <1>1, <1>2, <1>3, <1>4, <1>7, <1>8 DEF MembersInv

-----------------------------------------------------------------------------
(* One request changes its place, and the members stay as they are. *)
LEMMA PlaceOK ==
    ASSUME MembersInv, NEW r \in Requests, NEW request \in RequestRecords, SetsRoles(request),
           requests' = [requests EXCEPT ![r] = request],
           Active(r), requests[r].at # "insert", request.at # "insert",
           request.at = "over" \/
              (/\ request.sets = requests[r].sets /\ request.alone = requests[r].alone
               /\ request.person = requests[r].person),
           members' = members, sent' = sent, whole' = whole, putBack' = putBack, rowIds' = rowIds,
           breaks' \in Nat
    PROVE  MembersInv'
<1>1. MembersTypes' /\ \A q \in Requests : SetsRoles(requests[q])'
  BY DEF MembersInv, MembersTypes, SetsRoles
<1>2. requests'[r] = request /\ \A q \in Requests \ {r} : requests'[q] = requests[q]
  BY DEF MembersInv, MembersTypes
<1>3. KnowsOthers'
  BY <1>2 DEF MembersInv, KnowsOthers, Active
<1>4. NoneBefore'
  BY <1>2 DEF MembersInv, NoneBefore
<1>5. NoneUnsent'
  BY DEF MembersInv, NoneUnsent
<1>6. \A p \in People : Replacing(p)' <=> Replacing(p)
  BY <1>2 DEF Replacing
<1>7. AllThere'
  BY <1>6 DEF MembersInv, AllThere
<1> QED BY <1>1, <1>3, <1>4, <1>5, <1>7 DEF MembersInv

(* A request that ends before its time leaves its member as it is. *)
LEMMA TurnedDownOK ==
    ASSUME MembersInv, NEW r \in Requests, Active(r), TurnedDown(r), breaks' \in Nat
    PROVE  MembersInv'
<1>1. MembersTypes'
  BY EndedTyped DEF MembersInv, MembersTypes, TurnedDown
<1>2. requests'[r] = Ended /\ \A q \in Requests \ {r} : requests'[q] = requests[q]
  BY DEF MembersInv, MembersTypes, TurnedDown
<1>3. \A q \in Requests : SetsRoles(requests[q])'
  BY <1>2, EndedTyped DEF MembersInv, SetsRoles
<1>4. KnowsOthers'
  BY <1>2, EndedTyped DEF MembersInv, KnowsOthers, Active
<1>5. NoneBefore'
  BY <1>2, EndedTyped DEF MembersInv, NoneBefore, TurnedDown
<1>6. NoneUnsent'
  BY DEF MembersInv, NoneUnsent, TurnedDown
<1>7. AllThere'
  <2> SUFFICES ASSUME NEW p \in People, whole'[p], ~Replacing(p)'
               PROVE  sent[p] \subseteq RolesOf(members[p].roles)
    BY DEF AllThere, TurnedDown
  <2>1. whole[p] /\ ~(requests[r].at = "insert" /\ requests[r].person = p)
    BY DEF TurnedDown
  <2>2. ~Replacing(p)
    BY <1>2, <2>1 DEF Replacing
  <2> QED BY <2>1, <2>2 DEF MembersInv, AllThere
<1> QED BY <1>1, <1>3, <1>4, <1>5, <1>6, <1>7 DEF MembersInv

(* A request begins, and those that set the same roles know of it. *)
LEMMA BeginsOK ==
    ASSUME MembersInv, NEW r \in Requests, NEW request \in RequestRecords,
           Begins(r, request), SetsRoles(request), request.at \notin {"none", "insert", "over"}
    PROVE  MembersInv'
<1> DEFINE met == IF request.sets THEN Setting(request.person) ELSE {}
           begun == [request EXCEPT !.alone = met = {}]
<1>1. /\ requests' = [q \in Requests |->
             IF q = r THEN begun
             ELSE IF q \in met THEN [requests[q] EXCEPT !.alone = FALSE] ELSE requests[q]]
      /\ members' = members /\ rowIds' = rowIds /\ sent' = sent /\ whole' = whole
      /\ putBack' = putBack /\ breaks' = breaks /\ requests[r].at = "none"
  BY DEF Begins
<1>2. /\ begun \in RequestRecords /\ SetsRoles(begun)
      /\ begun.at = request.at /\ begun.sets = request.sets /\ begun.person = request.person
      /\ begun.alone <=> met = {}
  BY DEF RequestRecords, SetsRoles
<1>3. ASSUME NEW q \in Requests
      PROVE  LET noted == [requests[q] EXCEPT !.alone = FALSE] IN
             /\ noted \in RequestRecords /\ SetsRoles(noted) /\ ~noted.alone
             /\ noted.at = requests[q].at /\ noted.sets = requests[q].sets
             /\ noted.person = requests[q].person
  <2>1. requests[q] \in RequestRecords /\ SetsRoles(requests[q])
    BY DEF MembersInv, MembersTypes
  <2> QED BY <2>1 DEF RequestRecords, SetsRoles
<1>4. \A q \in Requests : q \in met =>
         Active(q) /\ requests[q].sets /\ requests[q].person = request.person
  BY DEF Setting
<1>5. \A q \in Requests : (request.sets /\ Active(q) /\ requests[q].sets
                          /\ requests[q].person = request.person) => q \in met
  BY DEF Setting
<1> HIDE DEF met, begun
<1>6. \A q \in Requests : requests'[q] \in RequestRecords /\ SetsRoles(requests'[q])
  BY <1>1, <1>2, <1>3 DEF MembersInv, MembersTypes
<1>7. requests' \in [Requests -> RequestRecords] /\ \A q \in Requests : SetsRoles(requests[q])'
  BY <1>1, <1>6 DEF SetsRoles
<1>8. MembersTypes'
  BY <1>1, <1>7 DEF MembersInv, MembersTypes
<1>9. /\ requests'[r] = begun
      /\ \A q \in Requests \ {r} :
            /\ requests'[q].at = requests[q].at /\ requests'[q].sets = requests[q].sets
            /\ requests'[q].person = requests[q].person
            /\ requests'[q].alone => requests[q].alone /\ q \notin met
  BY <1>1, <1>3
<1>10. KnowsOthers'
  <2> SUFFICES ASSUME NEW q \in Requests, NEW s \in Requests, q # s, Active(q)', Active(s)',
                      requests'[q].sets, requests'[s].sets,
                      requests'[q].person = requests'[s].person
               PROVE  ~requests'[q].alone
    BY DEF KnowsOthers
  <2>1. CASE q = r
    BY <2>1, <1>2, <1>5, <1>9 DEF Active
  <2>2. CASE s = r
    BY <2>2, <1>2, <1>5, <1>9 DEF Active
  <2>3. CASE q # r /\ s # r
    BY <2>3, <1>9 DEF Active, MembersInv, KnowsOthers
  <2> QED BY <2>1, <2>2, <2>3
<1>11. NoneBefore'
  BY <1>1, <1>2, <1>9 DEF NoneBefore, MembersInv
<1>12. NoneUnsent'
  BY <1>1 DEF NoneUnsent, MembersInv
<1>13. \A p \in People : Replacing(p) => Replacing(p)'
  BY <1>1, <1>9 DEF Replacing
<1>14. AllThere'
  BY <1>1, <1>13 DEF AllThere, MembersInv
<1> QED BY <1>7, <1>8, <1>10, <1>11, <1>12, <1>14 DEF MembersInv

(* A save adds roles that it puts back, and takes none away. *)
LEMMA SaveMemberOK ==
    ASSUME MembersInv, NEW r \in Requests, SaveMember(r)
    PROVE  MembersInv'
<1> DEFINE p == requests[r].person
           kept == Row(r).roles \ requests[r].come
           gone == requests[r].gone
<1>1. Active(r) /\ requests[r].at = "save" /\ breaks' = breaks
  BY DEF SaveMember, Active
<1>2. CASE TurnedDown(r)
  BY <1>1, <1>2, TurnedDownOK DEF MembersInv, MembersTypes
<1>3. CASE ~TurnedDown(r)
  <2> DEFINE address == IF requests[r].dirty THEN requests[r].entity.email ELSE members[p].email
             member == [members[p] EXCEPT !.roles = kept \cup gone, !.email = address]
             request == IF requests[r].sets THEN [requests[r] EXCEPT !.at = "delete"] ELSE Ended
  <2>1. requests[r] \in RequestRecords /\ SetsRoles(requests[r])
    BY DEF MembersInv, MembersTypes
  <2>2. /\ p \in People /\ gone \in SUBSET RoleRows /\ requests[r].entity.email \in Addresses
        /\ members[p] \in MemberRecords
    BY <2>1 DEF RequestRecords, MemberRecords, MembersInv, MembersTypes
  <2>3. /\ Detachable(r)
        /\ members' = [members EXCEPT ![p] = member]
        /\ putBack' = [putBack EXCEPT ![p] = @ \cup RolesOf(gone)]
        /\ requests' = [requests EXCEPT ![r] = request]
        /\ rowIds' = rowIds /\ sent' = sent /\ whole' = whole
    BY <1>3, <2>2 DEF SaveMember, Row, MembersInv, MembersTypes
  <2>4. kept = members[p].roles
    BY <2>3 DEF Detachable, Row
  <2>5. address \in Addresses
    BY <2>2 DEF MemberRecords
  <2> HIDE DEF address
  <2>6. member \in MemberRecords /\ member.roles = members[p].roles \cup gone
    BY <2>2, <2>4, <2>5 DEF MemberRecords
  <2>7. /\ request \in RequestRecords /\ SetsRoles(request) /\ request.at \in {"delete", "over"}
        /\ request.at = "over" \/ (/\ request.sets = requests[r].sets
                                   /\ request.alone = requests[r].alone
                                   /\ request.person = requests[r].person)
    BY <1>1, <2>1, EndedTyped DEF RequestRecords, SetsRoles, Places
  <2>8. RolesOf(gone) \subseteq Roles
    BY <2>2, RolesOfRows
  <2>9. RolesOf(members[p].roles \cup gone) = RolesOf(members[p].roles) \cup RolesOf(gone)
    BY RolesOfUnion
  <2> HIDE DEF member, request, p, kept, gone
  <2>10. /\ \A q \in People : RolesOf(members'[q].roles)
                = RolesOf(members[q].roles) \cup (IF q = p THEN RolesOf(gone) ELSE {})
         /\ \A q \in People : putBack'[q] = putBack[q] \cup (IF q = p THEN RolesOf(gone) ELSE {})
    BY <2>2, <2>3, <2>6, <2>9 DEF MembersInv, MembersTypes
  <2>11. requests'[r] = request /\ \A q \in Requests \ {r} : requests'[q] = requests[q]
    BY <2>3 DEF MembersInv, MembersTypes
  <2>12. MembersTypes'
    BY <1>1, <2>2, <2>3, <2>6, <2>7, <2>8 DEF MembersInv, MembersTypes
  <2>13. \A q \in Requests : SetsRoles(requests[q])'
    BY <2>7, <2>11 DEF MembersInv, SetsRoles
  <2>14. KnowsOthers'
    BY <1>1, <2>7, <2>11 DEF MembersInv, KnowsOthers, Active
  <2>15. NoneUnsent'
    BY <2>3, <2>10 DEF MembersInv, NoneUnsent
  <2>16. \A q \in Requests : requests'[q].at = "insert" => requests'[q] = requests[q]
    BY <2>7, <2>11
  <2>17. NoneBefore'
    <3> SUFFICES ASSUME NEW q \in Requests, requests'[q].at = "insert", requests'[q].alone
                 PROVE  RolesOf(members'[requests'[q].person].roles)
                            \subseteq putBack'[requests'[q].person]
      BY DEF NoneBefore
    <3>1. requests'[q] = requests[q] /\ requests[q].person \in People
      BY <2>16 DEF MembersInv, MembersTypes, RequestRecords
    <3>2. RolesOf(members[requests[q].person].roles) \subseteq putBack[requests[q].person]
      BY <3>1 DEF MembersInv, NoneBefore
    <3> QED BY <3>1, <3>2, <2>10
  <2>18. \A q \in People : Replacing(q) => Replacing(q)'
    BY <1>1, <2>11 DEF Replacing
  <2>19. AllThere'
    BY <2>3, <2>10, <2>18 DEF MembersInv, AllThere
  <2> QED BY <2>12, <2>13, <2>14, <2>15, <2>17, <2>19 DEF MembersInv
<1> QED BY <1>2, <1>3

(* The roles are deleted: what was put back goes with them. *)
LEMMA DeleteOK ==
    ASSUME MembersInv, NEW r \in Requests, DeleteRoles(r)
    PROVE  MembersInv'
<1>1. requests[r] \in RequestRecords /\ SetsRoles(requests[r]) /\ requests[r].at = "delete"
  BY DEF MembersInv, MembersTypes, DeleteRoles
<1>2. PICK p \in People : p = requests[r].person /\ members[p] \in MemberRecords
  BY <1>1 DEF RequestRecords, MembersInv, MembersTypes
<1> DEFINE member == [members[p] EXCEPT !.roles = {}]
           request == [requests[r] EXCEPT !.at = "insert"]
<1>3. /\ members' = [members EXCEPT ![p] = member]
      /\ putBack' = [putBack EXCEPT ![p] = {}]
      /\ requests' = [requests EXCEPT ![r] = request]
      /\ rowIds' = rowIds /\ sent' = sent /\ whole' = whole /\ breaks' = breaks
  BY <1>2 DEF DeleteRoles, MembersInv, MembersTypes
<1>4. member \in MemberRecords /\ RolesOf(member.roles) = {}
  BY <1>2, RolesOfNone DEF MemberRecords
<1>5. /\ request \in RequestRecords /\ SetsRoles(request) /\ request.at = "insert"
      /\ request.sets = requests[r].sets /\ request.alone = requests[r].alone
      /\ request.person = p
  BY <1>1, <1>2 DEF RequestRecords, SetsRoles, Places
<1> HIDE DEF member, request
<1>6. requests'[r] = request /\ \A q \in Requests \ {r} : requests'[q] = requests[q]
  BY <1>3 DEF MembersInv, MembersTypes
<1>7. /\ RolesOf(members'[p].roles) = {} /\ putBack'[p] = {}
      /\ \A q \in People \ {p} : members'[q] = members[q] /\ putBack'[q] = putBack[q]
  BY <1>2, <1>3, <1>4 DEF MembersInv, MembersTypes
<1>8. MembersTypes'
  BY <1>2, <1>3, <1>4, <1>5 DEF MembersInv, MembersTypes
<1>9. \A q \in Requests : SetsRoles(requests[q])'
  BY <1>5, <1>6 DEF MembersInv, SetsRoles
<1>10. KnowsOthers'
  BY <1>1, <1>2, <1>5, <1>6 DEF MembersInv, KnowsOthers, Active
<1>11. NoneUnsent'
  BY <1>3, <1>7 DEF MembersInv, NoneUnsent
<1>12. \A q \in Requests : requests'[q].person \in People
  BY <1>8 DEF MembersTypes, RequestRecords
<1>13. NoneBefore'
  BY <1>5, <1>6, <1>7, <1>12 DEF MembersInv, NoneBefore
<1>14. Replacing(p)' /\ \A q \in People \ {p} : Replacing(q) => Replacing(q)'
  BY <1>1, <1>2, <1>5, <1>6 DEF Replacing
<1>15. AllThere'
  BY <1>3, <1>7, <1>14 DEF MembersInv, AllThere
<1> QED BY <1>8, <1>9, <1>10, <1>11, <1>13, <1>15 DEF MembersInv

(* A request that has set the roles of a member ends. *)
LEMMA RolesSetOK ==
    ASSUME MembersInv, NEW r \in Requests, NEW member \in MemberRecords,
           requests[r].at \in {"create", "insert"},
           RolesSet(r, requests[r].person),
           members' = [members EXCEPT ![requests[r].person] = member],
           requests[r].says \subseteq RolesOf(member.roles),
           RolesOf(member.roles) \subseteq requests[r].says \cup
              (IF requests[r].at = "create" THEN {}
               ELSE RolesOf(members[requests[r].person].roles))
    PROVE  MembersInv'
<1> DEFINE p == requests[r].person
           says == requests[r].says
           alone == requests[r].alone
<1>1. requests[r] \in RequestRecords /\ SetsRoles(requests[r]) /\ Active(r)
  BY DEF MembersInv, MembersTypes, Active
<1>2. p \in People /\ says \in SUBSET Roles /\ alone \in BOOLEAN /\ requests[r].sets
  BY <1>1 DEF RequestRecords, SetsRoles
<1>3. /\ members' = [members EXCEPT ![p] = member]
      /\ requests' = [requests EXCEPT ![r] = Ended]
      /\ rowIds' = rowIds + 1
      /\ sent' = [sent EXCEPT ![p] = IF alone THEN says ELSE @ \cup says]
      /\ whole' = [whole EXCEPT ![p] = alone]
      /\ putBack' = putBack /\ breaks' = breaks
  BY DEF RolesSet
<1>4. /\ says \subseteq RolesOf(member.roles)
      /\ RolesOf(member.roles) \subseteq says \cup
              (IF requests[r].at = "create" THEN {} ELSE RolesOf(members[p].roles))
  OBVIOUS
<1>5. alone /\ requests[r].at = "insert" => RolesOf(members[p].roles) \subseteq putBack[p]
  BY DEF MembersInv, NoneBefore
<1>6. RolesOf(members[p].roles) \subseteq sent[p] \cup putBack[p]
  BY <1>2 DEF MembersInv, NoneUnsent
<1>7. \A q \in Requests \ {r} :
         (requests[q].at = "insert" /\ requests[q].person = p) => ~requests[q].alone
  <2> SUFFICES ASSUME NEW q \in Requests \ {r}, requests[q].at = "insert",
                      requests[q].person = p
               PROVE  ~requests[q].alone
    OBVIOUS
  <2>1. requests[q].sets /\ Active(q)
    BY DEF MembersInv, SetsRoles, Active
  <2> QED BY <1>1, <1>2, <2>1 DEF MembersInv, KnowsOthers
<1> HIDE DEF p, says, alone
<1>8. requests'[r] = Ended /\ \A q \in Requests \ {r} : requests'[q] = requests[q]
  BY <1>3 DEF MembersInv, MembersTypes
<1>9. /\ members'[p] = member /\ \A q \in People \ {p} : members'[q] = members[q]
      /\ sent'[p] = (IF alone THEN says ELSE sent[p] \cup says) /\ whole'[p] = alone
      /\ \A q \in People \ {p} : sent'[q] = sent[q] /\ whole'[q] = whole[q]
  BY <1>2, <1>3 DEF MembersInv, MembersTypes
<1>10. MembersTypes'
  <2>1. members' \in [People -> MemberRecords] /\ requests' \in [Requests -> RequestRecords]
    BY <1>3, EndedTyped DEF MembersInv, MembersTypes
  <2>2. rowIds' \in Nat /\ breaks' \in Nat /\ putBack' \in [People -> SUBSET Roles]
    BY <1>3 DEF MembersInv, MembersTypes
  <2>3. whole' \in [People -> BOOLEAN]
    BY <1>2, <1>3, Zenon DEF MembersInv, MembersTypes
  <2>4. (IF alone THEN says ELSE sent[p] \cup says) \in SUBSET Roles
    BY <1>2 DEF MembersInv, MembersTypes
  <2>5. sent' \in [People -> SUBSET Roles]
    BY <1>3, <2>4 DEF MembersInv, MembersTypes
  <2> QED BY <2>1, <2>2, <2>3, <2>5 DEF MembersTypes
<1>11. \A q \in Requests : SetsRoles(requests[q])'
  BY <1>8, EndedTyped DEF MembersInv, SetsRoles
<1>12. KnowsOthers'
  BY <1>8, EndedTyped DEF MembersInv, KnowsOthers, Active
<1>13. NoneUnsent'
  <2>1. RolesOf(member.roles) \subseteq sent'[p] \cup putBack[p]
    BY <1>4, <1>5, <1>6, <1>9
  <2> QED BY <1>3, <1>9, <2>1 DEF MembersInv, NoneUnsent
<1>14. NoneBefore'
  <2> SUFFICES ASSUME NEW q \in Requests, requests'[q].at = "insert", requests'[q].alone
               PROVE  RolesOf(members'[requests'[q].person].roles)
                          \subseteq putBack'[requests'[q].person]
    BY DEF NoneBefore
  <2>1. q # r /\ requests'[q] = requests[q] /\ requests[q].person \in People
    BY <1>8, EndedTyped DEF MembersInv, MembersTypes, RequestRecords
  <2>2. requests[q].person # p
    BY <1>7, <2>1
  <2>3. RolesOf(members[requests[q].person].roles) \subseteq putBack[requests[q].person]
    BY <2>1 DEF MembersInv, NoneBefore
  <2> QED BY <1>3, <1>9, <2>1, <2>2, <2>3
<1>15. \A q \in People \ {p} : Replacing(q) => Replacing(q)'
  BY <1>8 DEF Replacing, p
<1>16. whole'[p] => sent'[p] \subseteq RolesOf(members'[p].roles)
  BY <1>4, <1>9
<1>17. AllThere'
  BY <1>9, <1>15, <1>16 DEF MembersInv, AllThere
<1> QED BY <1>10, <1>11, <1>12, <1>13, <1>14, <1>17 DEF MembersInv

LEMMA InsertMemberOK ==
    ASSUME MembersInv, NEW r \in Requests, InsertMember(r)
    PROVE  MembersInv'
<1> DEFINE member == [is |-> TRUE, name |-> requests[r].name, email |-> requests[r].email,
                      roles |-> requests[r].says \X {rowIds + 1}]
<1>1. requests[r].at = "create" /\ Active(r)
  BY DEF InsertMember, Active
<1>2. CASE TurnedDown(r) /\ UNCHANGED breaks
  BY <1>1, <1>2, TurnedDownOK DEF MembersInv, MembersTypes
<1>3. CASE /\ members' = [members EXCEPT ![requests[r].person] = member]
           /\ RolesSet(r, requests[r].person)
  <2>1. /\ requests[r] \in RequestRecords /\ requests[r].says \in SUBSET Roles
        /\ requests[r].name \in Nat /\ requests[r].email \in Addresses /\ rowIds + 1 \in Nat
    BY DEF MembersInv, MembersTypes, RequestRecords
  <2>2. member \in MemberRecords
    BY <2>1, RowsNew DEF MemberRecords
  <2>3. RolesOf(member.roles) = requests[r].says
    BY RolesOfNew
  <2> HIDE DEF member
  <2> QED BY <1>1, <1>3, <2>2, <2>3, RolesSetOK
<1> QED BY <1>2, <1>3 DEF InsertMember

LEMMA InsertRolesOK ==
    ASSUME MembersInv, NEW r \in Requests, InsertRoles(r)
    PROVE  MembersInv'
<1> DEFINE p == requests[r].person
           new == requests[r].says \X {rowIds + 1}
           member == [members[p] EXCEPT !.roles = members[p].roles \cup new]
<1>1. requests[r].at = "insert" /\ Active(r)
  BY DEF InsertRoles, Active
<1>2. CASE TurnedDown(r) /\ UNCHANGED breaks
  BY <1>1, <1>2, TurnedDownOK DEF MembersInv, MembersTypes
<1>3. CASE RolesOf(Row(r).roles) \cap requests[r].says = {}
  <2>1. /\ p \in People /\ requests[r].says \in SUBSET Roles /\ rowIds + 1 \in Nat
        /\ members[p] \in MemberRecords
    BY DEF MembersInv, MembersTypes, RequestRecords
  <2>2. members' = [members EXCEPT ![p] = member] /\ RolesSet(r, p)
    BY <1>3, <2>1 DEF InsertRoles, Row, MembersInv, MembersTypes
  <2>3. new \in SUBSET RoleRows /\ RolesOf(new) = requests[r].says
    BY <2>1, RowsNew, RolesOfNew
  <2>4. RolesOf(members[p].roles \cup new) = RolesOf(members[p].roles) \cup RolesOf(new)
    BY RolesOfUnion
  <2> HIDE DEF new
  <2>5. member \in MemberRecords /\ member.roles = members[p].roles \cup new
    BY <2>1, <2>3 DEF MemberRecords
  <2> HIDE DEF member
  <2> QED BY <1>1, <2>2, <2>3, <2>4, <2>5, RolesSetOK
<1> QED BY <1>2, <1>3 DEF InsertRoles

(* The steps between, which leave the members alone. *)
LEMMA ReadMemberOK ==
    ASSUME MembersInv, NEW r \in Requests, ReadMember(r)
    PROVE  MembersInv'
<1> DEFINE place == IF requests[r].email \in {NoEmail, Row(r).email} THEN "reload" ELSE "email"
           request == [requests[r] EXCEPT !.entity = Row(r), !.at = place]
<1>1. /\ requests[r] \in RequestRecords /\ SetsRoles(requests[r]) /\ requests[r].at = "load"
      /\ Row(r) \in MemberRecords
  BY DEF MembersInv, MembersTypes, RequestRecords, ReadMember, Row
<1>2. GoesOn(r, request) /\ breaks' = breaks
  BY DEF ReadMember
<1>3. place \in {"reload", "email"}
  OBVIOUS
<1> HIDE DEF place
<1>4. /\ request \in RequestRecords /\ SetsRoles(request) /\ request.at \in {"reload", "email"}
      /\ request.sets = requests[r].sets /\ request.alone = requests[r].alone
      /\ request.person = requests[r].person
  BY <1>1, <1>3 DEF RequestRecords, SetsRoles, Places
<1> HIDE DEF request
<1> QED BY <1>1, <1>2, <1>4, PlaceOK DEF GoesOn, Active, MembersInv, MembersTypes

LEMMA CheckEmailOK ==
    ASSUME MembersInv, NEW r \in Requests, CheckEmail(r)
    PROVE  MembersInv'
<1> DEFINE entity == [requests[r].entity EXCEPT !.email = requests[r].email]
           request == IF requests[r].creates THEN [requests[r] EXCEPT !.at = "name"]
                      ELSE [requests[r] EXCEPT !.at = "reload", !.entity = entity]
<1>1. /\ requests[r] \in RequestRecords /\ SetsRoles(requests[r]) /\ requests[r].at = "email"
      /\ requests[r].entity \in MemberRecords /\ requests[r].email \in Addresses
  BY DEF MembersInv, MembersTypes, RequestRecords, CheckEmail
<1>2. CASE TurnedDown(r)
  BY <1>1, <1>2, TurnedDownOK DEF CheckEmail, Active, MembersInv, MembersTypes
<1>3. CASE ~TurnedDown(r)
  <2>1. entity \in MemberRecords
    BY <1>1 DEF MemberRecords
  <2>2. GoesOn(r, request) /\ breaks' = breaks
    BY <1>1, <1>3 DEF CheckEmail, RequestRecords
  <2> HIDE DEF entity
  <2>3. /\ request \in RequestRecords /\ SetsRoles(request) /\ request.at \in {"name", "reload"}
        /\ request.sets = requests[r].sets /\ request.alone = requests[r].alone
        /\ request.person = requests[r].person
    BY <1>1, <2>1 DEF RequestRecords, SetsRoles, Places
  <2> HIDE DEF request
  <2> QED BY <1>1, <2>2, <2>3, PlaceOK DEF GoesOn, Active, MembersInv, MembersTypes
<1> QED BY <1>2, <1>3

LEMMA GenerateUsernameOK ==
    ASSUME MembersInv, NEW r \in Requests, GenerateUsername(r)
    PROVE  MembersInv'
<1> DEFINE request == IF NameTaken(requests[r].name)
                      THEN [requests[r] EXCEPT !.name = @ + 1]
                      ELSE [requests[r] EXCEPT !.at = "create"]
<1>1. /\ requests[r] \in RequestRecords /\ SetsRoles(requests[r]) /\ requests[r].at = "name"
  BY DEF MembersInv, MembersTypes, GenerateUsername
<1>2. GoesOn(r, request) /\ breaks' = breaks
  BY DEF GenerateUsername
<1>3. /\ request \in RequestRecords /\ SetsRoles(request) /\ request.at \in {"name", "create"}
      /\ request.sets = requests[r].sets /\ request.alone = requests[r].alone
      /\ request.person = requests[r].person
  BY <1>1 DEF RequestRecords, SetsRoles, Places
<1> HIDE DEF request
<1> QED BY <1>1, <1>2, <1>3, PlaceOK DEF GoesOn, Active, MembersInv, MembersTypes

LEMMA RereadOK ==
    ASSUME MembersInv, NEW r \in Requests, Reread(r)
    PROVE  MembersInv'
<1> DEFINE read == requests[r].entity.roles
           dirty == requests[r].entity.email # Row(r).email
           same == read = Row(r).roles /\ ~dirty
           gone == read \ Row(r).roles
           come == Row(r).roles \ read
           place == IF ~same THEN "save" ELSE IF requests[r].sets THEN "delete" ELSE "over"
           request == [requests[r] EXCEPT !.gone = gone, !.come = come, !.dirty = dirty,
                                          !.at = place]
<1>1. /\ requests[r] \in RequestRecords /\ SetsRoles(requests[r]) /\ requests[r].at = "reload"
      /\ Row(r) \in MemberRecords /\ requests[r].entity \in MemberRecords
  BY DEF MembersInv, MembersTypes, RequestRecords, Reread, Row
<1>2. gone \in SUBSET RoleRows /\ come \in SUBSET RoleRows /\ dirty \in BOOLEAN
  BY <1>1 DEF MemberRecords
<1>3. place \in {"save", "delete", "over"} /\ (place = "delete" => requests[r].sets)
  OBVIOUS
<1>4. GoesOn(r, request) /\ breaks' = breaks
  BY DEF Reread
<1> HIDE DEF place, gone, come, dirty
<1>5. /\ request \in RequestRecords /\ SetsRoles(request)
      /\ request.at \in {"save", "delete", "over"}
      /\ request.sets = requests[r].sets /\ request.alone = requests[r].alone
      /\ request.person = requests[r].person
  BY <1>1, <1>2, <1>3 DEF RequestRecords, SetsRoles, Places
<1> HIDE DEF request
<1> QED BY <1>1, <1>4, <1>5, PlaceOK DEF GoesOn, Active, MembersInv, MembersTypes

LEMMA CreateMemberOK ==
    ASSUME MembersInv, NEW r \in Requests, NEW p \in People, NEW email \in Addresses,
           NEW says \in SUBSET Roles, CreateMember(r, p, email, says)
    PROVE  MembersInv'
<1> DEFINE request == [NoRequest EXCEPT !.at = IF email = NoEmail THEN "name" ELSE "email",
                           !.person = p, !.creates = TRUE, !.email = email, !.sets = TRUE,
                           !.says = IF says = {} THEN {Basic} ELSE says]
<1>1. request \in RequestRecords /\ SetsRoles(request) /\ request.at \in {"name", "email"}
  <2> DEFINE any == NoRequest
             roles == IF says = {} THEN {Basic} ELSE says
  <2>1. any \in RequestRecords /\ roles \in SUBSET Roles
    BY NotYetTyped, MembersAssumption
  <2> HIDE DEF any, roles
  <2>2. request = [any EXCEPT !.at = IF email = NoEmail THEN "name" ELSE "email",
                           !.person = p, !.creates = TRUE, !.email = email, !.sets = TRUE,
                           !.says = roles]
    BY DEF any, roles
  <2> HIDE DEF request
  <2> QED BY <2>1, <2>2 DEF RequestRecords, SetsRoles, Places
<1>2. Begins(r, request)
  BY DEF CreateMember
<1> HIDE DEF request
<1> QED BY <1>1, <1>2, BeginsOK

LEMMA ChangeMemberOK ==
    ASSUME MembersInv, NEW r \in Requests, NEW p \in People, NEW email \in Addresses,
           NEW sets \in BOOLEAN, NEW says \in SUBSET Roles,
           ChangeMember(r, p, email, sets, says)
    PROVE  MembersInv'
<1> DEFINE request == [NoRequest EXCEPT !.at = "load", !.person = p, !.email = email,
                                        !.sets = sets, !.says = says]
<1>1. request \in RequestRecords /\ SetsRoles(request) /\ request.at = "load"
  <2> DEFINE any == NoRequest
  <2>1. any \in RequestRecords /\ ~any.creates
    BY NotYetTyped
  <2> HIDE DEF any
  <2>2. request = [any EXCEPT !.at = "load", !.person = p, !.email = email,
                              !.sets = sets, !.says = says]
    BY DEF any
  <2> HIDE DEF request
  <2> QED BY <2>1, <2>2 DEF RequestRecords, SetsRoles, Places
<1>2. Begins(r, request)
  BY DEF ChangeMember
<1> HIDE DEF request
<1> QED BY <1>1, <1>2, BeginsOK

LEMMA MembersStepOK == MembersInv /\ MembersNext => MembersInv'
<1> SUFFICES ASSUME MembersInv, NEW r \in Requests,
                    \/ \E p \in People, email \in Addresses, says \in SUBSET Roles :
                          \/ CreateMember(r, p, email, says)
                          \/ \E sets \in BOOLEAN : ChangeMember(r, p, email, sets, says)
                    \/ ReadMember(r) \/ CheckEmail(r) \/ GenerateUsername(r) \/ InsertMember(r)
                    \/ Reread(r) \/ SaveMember(r) \/ DeleteRoles(r) \/ InsertRoles(r)
                    \/ BreakOff(r)
             PROVE  MembersInv'
  BY DEF MembersNext, Addresses
<1>1. CASE BreakOff(r)
  BY <1>1, TurnedDownOK DEF BreakOff, MembersInv, MembersTypes
<1> QED BY <1>1, CreateMemberOK, ChangeMemberOK, ReadMemberOK, CheckEmailOK, GenerateUsernameOK,
           InsertMemberOK, RereadOK, SaveMemberOK, DeleteOK, InsertRolesOK

LEMMA MembersInvariance == MembersSpec => []MembersInv
<1>1. MembersInv /\ UNCHANGED membersVars => MembersInv'
  BY DEF MembersInv, MembersTypes, SetsRoles, KnowsOthers, NoneUnsent, NoneBefore, Replacing,
     AllThere, Active, membersVars
<1>2. MembersInv /\ [MembersNext]_membersVars => MembersInv'
  BY MembersStepOK, <1>1
<1> QED BY MembersStart, <1>2, PTL DEF MembersSpec

(* However requests on one member overlap and wherever they are cut off, a  *)
(* member has no role that nobody sent or put back, and all those sent by   *)
(* the last one, if it was alone (UsersService.create, update).             *)
THEOREM RolesStand == MembersSpec => []RolesAsSent
<1>1. MembersInv => RolesAsSent
  <2> SUFFICES ASSUME MembersInv, NEW p \in People, Setting(p) = {}
               PROVE  /\ RolesOf(members[p].roles) \subseteq sent[p] \cup putBack[p]
                      /\ whole[p] => sent[p] \subseteq RolesOf(members[p].roles)
    BY DEF RolesAsSent
  <2>1. ~Replacing(p)
    BY DEF Replacing, Setting, Active, MembersInv, SetsRoles
  <2> QED BY <2>1 DEF MembersInv, NoneUnsent, AllThere
<1> QED BY MembersInvariance, <1>1, PTL

-----------------------------------------------------------------------------
(* The keys of the list of members *)

(* Rows that the unique index of user_roles allows: one for each role. *)
OneOfEach(rolesHeld) == \A s, t \in rolesHeld : s[1] = t[1] => s = t

(* Two members may be there with these names and addresses. *)
Apart(one, other) ==
    (one.is /\ other.is) =>
        one.name # other.name /\ (one.email # other.email \/ one.email = NoEmail)

(* What a request has read of the roles, and what it will insert again.    *)
ReadOnce(request) == OneOfEach(request.entity.roles) /\ OneOfEach(request.gone)

KeysInv ==
    /\ \A p \in People : OneOfEach(members[p].roles)
    /\ \A p \in People : \A q \in People \ {p} : Apart(members[p], members[q])
    /\ \A r \in Requests : ReadOnce(requests[r])

-----------------------------------------------------------------------------
LEMMA FewerRoles ==
    ASSUME NEW B, OneOfEach(B), NEW A \in SUBSET B
    PROVE  OneOfEach(A)
BY DEF OneOfEach

LEMMA NoRoles == OneOfEach({})
BY DEF OneOfEach

(* The rows of other roles may be added. *)
LEMMA MoreRoles ==
    ASSUME NEW A, NEW B, OneOfEach(A), OneOfEach(B), RolesOf(A) \cap RolesOf(B) = {}
    PROVE  OneOfEach(A \cup B)
<1> SUFFICES ASSUME NEW s \in A \cup B, NEW t \in A \cup B, s[1] = t[1]
             PROVE  s = t
  BY DEF OneOfEach
<1>1. (s \in A => s[1] \in RolesOf(A)) /\ (s \in B => s[1] \in RolesOf(B))
  BY DEF RolesOf
<1>2. (t \in A => t[1] \in RolesOf(A)) /\ (t \in B => t[1] \in RolesOf(B))
  BY DEF RolesOf
<1>3. (s \in A /\ t \in A) \/ (s \in B /\ t \in B)
  BY <1>1, <1>2
<1> QED BY <1>3 DEF OneOfEach

LEMMA NewRoles ==
    ASSUME NEW says, NEW id
    PROVE  OneOfEach(says \X {id})
BY DEF OneOfEach

LEMMA NothingRead ==
    /\ ReadOnce(NoRequest) /\ ReadOnce(Ended)
    /\ NotYet.roles = {} /\ ~NotYet.is /\ OneOfEach(FirstMember.roles)
<1>1. NotYet.roles = {} /\ ~NotYet.is
  BY DEF NotYet
<1>2. NoRequest.entity = NotYet /\ NoRequest.gone = {}
  BY DEF NoRequest
<1>3. Ended.entity = NotYet /\ Ended.gone = {}
  BY DEF NoRequest, Ended
<1>4. OneOfEach({<<Admin, 0>>}) /\ FirstMember.roles = {<<Admin, 0>>}
  BY DEF OneOfEach, FirstMember
<1> QED BY <1>1, <1>2, <1>3, <1>4, NoRoles DEF ReadOnce

LEMMA KeysStart == MembersInit => KeysInv
<1> SUFFICES ASSUME MembersInit PROVE KeysInv
  OBVIOUS
<1>1. \A p \in People : members[p] = (IF p = Founder THEN FirstMember ELSE NotYet)
  BY DEF MembersInit
<1>2. \A r \in Requests : requests[r] = NoRequest
  BY DEF MembersInit
<1>3. \A p \in People : OneOfEach(members[p].roles)
  BY <1>1, NothingRead, NoRoles
<1>4. \A p \in People : \A q \in People \ {p} : Apart(members[p], members[q])
  BY <1>1, NothingRead DEF Apart
<1> QED BY <1>2, <1>3, <1>4, NothingRead DEF KeysInv

(* One request moves on, and the members stay as they are. *)
LEMMA OneRequest ==
    ASSUME MembersTypes, KeysInv, NEW r \in Requests, NEW request, ReadOnce(request),
           requests' = [requests EXCEPT ![r] = request], members' = members
    PROVE  KeysInv'
<1>1. \A q \in Requests : requests'[q] = request \/ requests'[q] = requests[q]
  BY DEF MembersTypes
<1>2. \A q \in Requests : ReadOnce(requests'[q])
  BY <1>1 DEF KeysInv
<1> QED BY <1>2 DEF KeysInv

(* One member changes, to what the keys allow beside the others. *)
LEMMA OneMember ==
    ASSUME MembersTypes, KeysInv, NEW r \in Requests, NEW request, ReadOnce(request),
           requests' = [requests EXCEPT ![r] = request],
           NEW p \in People, NEW member, members' = [members EXCEPT ![p] = member],
           OneOfEach(member.roles), \A q \in People \ {p} : Apart(member, members[q])
    PROVE  KeysInv'
<1>1. \A q \in Requests : requests'[q] = request \/ requests'[q] = requests[q]
  BY DEF MembersTypes
<1>2. \A q \in Requests : ReadOnce(requests'[q])
  BY <1>1 DEF KeysInv
<1>3. members'[p] = member /\ \A q \in People \ {p} : members'[q] = members[q]
  BY DEF MembersTypes
<1>4. \A q \in People : OneOfEach(members'[q].roles)
  BY <1>3 DEF KeysInv
<1>5. ASSUME NEW s \in People, NEW q \in People \ {s}
      PROVE  Apart(members'[s], members'[q])
  <2>1. CASE s = p
    BY <1>3, <2>1
  <2>2. CASE q = p
    <3>1. Apart(member, members[s])
      BY <2>2
    <3> QED BY <1>3, <2>2, <3>1 DEF Apart
  <2>3. CASE s # p /\ q # p
    BY <1>3, <2>3 DEF KeysInv
  <2> QED BY <2>1, <2>2, <2>3
<1> QED BY <1>2, <1>4, <1>5 DEF KeysInv

LEMMA TurnedDownKeys ==
    ASSUME MembersTypes, KeysInv, NEW r \in Requests, TurnedDown(r)
    PROVE  KeysInv'
BY NothingRead, OneRequest DEF TurnedDown

LEMMA BeginsKeys ==
    ASSUME MembersTypes, KeysInv, NEW r \in Requests, NEW request \in RequestRecords,
           ReadOnce(request), Begins(r, request)
    PROVE  KeysInv'
<1> DEFINE met == IF request.sets THEN Setting(request.person) ELSE {}
           begun == [request EXCEPT !.alone = met = {}]
<1>1. /\ members' = members
      /\ \A q \in Requests : requests'[q] =
             IF q = r THEN begun
             ELSE IF q \in met THEN [requests[q] EXCEPT !.alone = FALSE] ELSE requests[q]
  BY DEF Begins
<1>2. ReadOnce(begun)
  BY DEF ReadOnce, RequestRecords
<1>3. ASSUME NEW q \in Requests
      PROVE  ReadOnce([requests[q] EXCEPT !.alone = FALSE]) /\ ReadOnce(requests[q])
  <2>1. requests[q] \in RequestRecords /\ ReadOnce(requests[q])
    BY DEF MembersTypes, KeysInv
  <2> QED BY <2>1 DEF ReadOnce, RequestRecords
<1> HIDE DEF met, begun
<1>4. \A q \in Requests : ReadOnce(requests'[q])
  BY <1>1, <1>2, <1>3
<1> QED BY <1>1, <1>4 DEF KeysInv

LEMMA CreateMemberKeys ==
    ASSUME MembersTypes, KeysInv, NEW r \in Requests, NEW p \in People, NEW email \in Addresses,
           NEW says \in SUBSET Roles, CreateMember(r, p, email, says)
    PROVE  KeysInv'
<1> DEFINE any == NoRequest
           place == IF email = NoEmail THEN "name" ELSE "email"
           new == IF says = {} THEN {Basic} ELSE says
           request == [any EXCEPT !.at = place, !.person = p, !.creates = TRUE,
                                  !.email = email, !.sets = TRUE, !.says = new]
<1>1. any \in RequestRecords /\ ReadOnce(any)
  BY NotYetTyped, NothingRead
<1>2. new \in SUBSET Roles /\ place \in {"name", "email"}
  BY MembersAssumption
<1>3. Begins(r, request)
  BY DEF CreateMember
<1> HIDE DEF any, new, place
<1>4. request \in RequestRecords /\ ReadOnce(request)
  BY <1>1, <1>2 DEF RequestRecords, ReadOnce, Places
<1> HIDE DEF request
<1> QED BY <1>3, <1>4, BeginsKeys

LEMMA ChangeMemberKeys ==
    ASSUME MembersTypes, KeysInv, NEW r \in Requests, NEW p \in People, NEW email \in Addresses,
           NEW sets \in BOOLEAN, NEW says \in SUBSET Roles,
           ChangeMember(r, p, email, sets, says)
    PROVE  KeysInv'
<1> DEFINE any == NoRequest
           request == [any EXCEPT !.at = "load", !.person = p, !.email = email,
                                  !.sets = sets, !.says = says]
<1>1. any \in RequestRecords /\ ReadOnce(any)
  BY NotYetTyped, NothingRead
<1>2. Begins(r, request)
  BY DEF ChangeMember
<1> HIDE DEF any
<1>3. request \in RequestRecords /\ ReadOnce(request)
  BY <1>1 DEF RequestRecords, ReadOnce, Places
<1> HIDE DEF request
<1> QED BY <1>2, <1>3, BeginsKeys

(* What reads only. *)
LEMMA ReadsKeys ==
    ASSUME MembersTypes, KeysInv, NEW r \in Requests,
           ReadMember(r) \/ CheckEmail(r) \/ GenerateUsername(r) \/ Reread(r)
    PROVE  KeysInv'
<1>1. requests[r] \in RequestRecords /\ ReadOnce(requests[r])
  BY DEF MembersTypes, KeysInv
<1>2. Row(r) \in MemberRecords /\ OneOfEach(Row(r).roles)
  BY <1>1 DEF MembersTypes, KeysInv, Row, RequestRecords
<1>3. requests[r].entity \in MemberRecords
  BY <1>1 DEF RequestRecords
<1>4. CASE ReadMember(r)
  <2> DEFINE place == IF requests[r].email \in {NoEmail, Row(r).email} THEN "reload" ELSE "email"
             request == [requests[r] EXCEPT !.entity = Row(r), !.at = place]
  <2>1. ReadOnce(request)
    BY <1>1, <1>2 DEF ReadOnce, RequestRecords
  <2>2. requests' = [requests EXCEPT ![r] = request] /\ members' = members
    BY <1>4 DEF ReadMember, GoesOn
  <2> QED BY <2>1, <2>2, OneRequest
<1>5. CASE CheckEmail(r) /\ ~TurnedDown(r)
  <2> DEFINE entity == [requests[r].entity EXCEPT !.email = requests[r].email]
             request == IF requests[r].creates THEN [requests[r] EXCEPT !.at = "name"]
                        ELSE [requests[r] EXCEPT !.at = "reload", !.entity = entity]
  <2>1. requests' = [requests EXCEPT ![r] = request] /\ members' = members
    BY <1>1, <1>5 DEF CheckEmail, GoesOn, RequestRecords
  <2>2. entity.roles = requests[r].entity.roles
    BY <1>3 DEF MemberRecords
  <2> HIDE DEF entity
  <2>3. ReadOnce(request)
    BY <1>1, <2>2 DEF ReadOnce, RequestRecords
  <2> QED BY <2>1, <2>3, OneRequest
<1>6. CASE GenerateUsername(r)
  <2> DEFINE request == IF NameTaken(requests[r].name)
                        THEN [requests[r] EXCEPT !.name = @ + 1]
                        ELSE [requests[r] EXCEPT !.at = "create"]
  <2>1. ReadOnce(request)
    BY <1>1 DEF ReadOnce, RequestRecords
  <2>2. requests' = [requests EXCEPT ![r] = request] /\ members' = members
    BY <1>6 DEF GenerateUsername, GoesOn
  <2> QED BY <2>1, <2>2, OneRequest
<1>7. CASE Reread(r)
  <2> DEFINE read == requests[r].entity.roles
             dirty == requests[r].entity.email # Row(r).email
             same == read = Row(r).roles /\ ~dirty
             gone == read \ Row(r).roles
             come == Row(r).roles \ read
             place == IF ~same THEN "save" ELSE IF requests[r].sets THEN "delete" ELSE "over"
             request == [requests[r] EXCEPT !.gone = gone, !.come = come, !.dirty = dirty,
                                            !.at = place]
  <2>1. requests' = [requests EXCEPT ![r] = request] /\ members' = members
    BY <1>7 DEF Reread, GoesOn
  <2>2. OneOfEach(gone)
    BY <1>1, FewerRoles DEF ReadOnce
  <2> HIDE DEF gone, come, place, dirty
  <2>3. ReadOnce(request)
    BY <1>1, <2>2 DEF ReadOnce, RequestRecords
  <2> QED BY <2>1, <2>3, OneRequest
<1> QED BY <1>4, <1>5, <1>6, <1>7, TurnedDownKeys

(* A save puts back only roles that are not there, and sets an address that *)
(* nobody else has.                                                          *)
LEMMA SaveMemberKeys ==
    ASSUME MembersTypes, KeysInv, NEW r \in Requests, SaveMember(r)
    PROVE  KeysInv'
<1> DEFINE p == requests[r].person
           kept == Row(r).roles \ requests[r].come
           gone == requests[r].gone
           address == IF requests[r].dirty THEN requests[r].entity.email ELSE members[p].email
           member == [members[p] EXCEPT !.roles = kept \cup gone, !.email = address]
           request == IF requests[r].sets THEN [requests[r] EXCEPT !.at = "delete"] ELSE Ended
<1>1. CASE TurnedDown(r)
  BY <1>1, TurnedDownKeys
<1>2. CASE ~TurnedDown(r)
  <2>1. requests[r] \in RequestRecords /\ ReadOnce(requests[r])
    BY DEF MembersTypes, KeysInv
  <2>2. p \in People /\ members[p] \in MemberRecords /\ OneOfEach(members[p].roles)
    BY <2>1 DEF RequestRecords, MembersTypes, KeysInv
  <2>3. /\ RolesOf(gone) \cap RolesOf(kept) = {}
        /\ ~(requests[r].dirty /\ EmailTaken(r, requests[r].entity.email))
        /\ members' = [members EXCEPT ![p] = member]
        /\ requests' = [requests EXCEPT ![r] = request]
    BY <1>2, <2>2 DEF SaveMember, Row, MembersTypes
  <2>4. OneOfEach(kept \cup gone)
    <3>1. OneOfEach(kept) /\ OneOfEach(gone)
      BY <2>1, <2>2, FewerRoles DEF ReadOnce, Row
    <3> HIDE DEF kept, gone
    <3> QED BY <2>3, <3>1, MoreRoles
  <2>5. /\ member.roles = kept \cup gone /\ member.email = address
        /\ member.is = members[p].is /\ member.name = members[p].name
    BY <2>2 DEF MemberRecords
  <2>6. ASSUME NEW q \in People \ {p}
        PROVE  Apart(member, members[q])
    <3>1. Apart(members[p], members[q])
      BY <2>2 DEF KeysInv
    <3>2. CASE ~requests[r].dirty
      BY <2>5, <3>1, <3>2 DEF Apart
    <3>3. CASE requests[r].dirty
      <4>1. members[q].is => address = NoEmail \/ members[q].email # address
        BY <2>3, <3>3 DEF EmailTaken, Others
      <4> QED BY <2>5, <3>1, <4>1 DEF Apart
    <3> QED BY <3>2, <3>3
  <2>7. ReadOnce(request)
    BY <2>1, NothingRead DEF ReadOnce, RequestRecords
  <2> HIDE DEF member, request, p, kept, gone, address
  <2> QED BY <2>2, <2>3, <2>4, <2>5, <2>6, <2>7, OneMember
<1> QED BY <1>1, <1>2

LEMMA DeleteRolesKeys ==
    ASSUME MembersTypes, KeysInv, NEW r \in Requests, DeleteRoles(r)
    PROVE  KeysInv'
<1> DEFINE p == requests[r].person
           member == [members[p] EXCEPT !.roles = {}]
           request == [requests[r] EXCEPT !.at = "insert"]
<1>1. requests[r] \in RequestRecords /\ ReadOnce(requests[r])
  BY DEF MembersTypes, KeysInv
<1>2. p \in People /\ members[p] \in MemberRecords
  BY <1>1 DEF RequestRecords, MembersTypes
<1>3. members' = [members EXCEPT ![p] = member] /\ requests' = [requests EXCEPT ![r] = request]
  BY <1>1, <1>2 DEF DeleteRoles, MembersTypes
<1>4. ReadOnce(request)
  BY <1>1 DEF ReadOnce, RequestRecords
<1>5. OneOfEach(member.roles) /\ \A q \in People \ {p} : Apart(member, members[q])
  BY <1>2, NoRoles DEF MemberRecords, Apart, KeysInv
<1> HIDE DEF p, member, request
<1> QED BY <1>2, <1>3, <1>4, <1>5, OneMember

(* A new member has a name and an address that nobody has. *)
LEMMA InsertMemberKeys ==
    ASSUME MembersTypes, KeysInv, NEW r \in Requests, InsertMember(r)
    PROVE  KeysInv'
<1> DEFINE p == requests[r].person
           member == [is |-> TRUE, name |-> requests[r].name, email |-> requests[r].email,
                      roles |-> requests[r].says \X {rowIds + 1}]
<1>1. CASE TurnedDown(r)
  BY <1>1, TurnedDownKeys
<1>2. CASE ~TurnedDown(r)
  <2>1. p \in People
    BY DEF RequestRecords, MembersTypes
  <2>2. /\ ~NameTaken(requests[r].name) /\ ~EmailTaken(r, requests[r].email)
        /\ members' = [members EXCEPT ![p] = member]
        /\ requests' = [requests EXCEPT ![r] = Ended]
    BY <1>2 DEF InsertMember, RolesSet
  <2>3. OneOfEach(member.roles)
    BY NewRoles
  <2>4. ASSUME NEW q \in People \ {p}
        PROVE  Apart(member, members[q])
    BY <2>2 DEF Apart, NameTaken, EmailTaken, Others
  <2> HIDE DEF p, member
  <2> QED BY <2>1, <2>2, <2>3, <2>4, NothingRead, OneMember
<1> QED BY <1>1, <1>2

LEMMA InsertRolesKeys ==
    ASSUME MembersTypes, KeysInv, NEW r \in Requests, InsertRoles(r)
    PROVE  KeysInv'
<1> DEFINE p == requests[r].person
           says == requests[r].says
           new == says \X {rowIds + 1}
           member == [members[p] EXCEPT !.roles = members[p].roles \cup new]
<1>1. CASE TurnedDown(r)
  BY <1>1, TurnedDownKeys
<1>2. CASE ~TurnedDown(r)
  <2>1. p \in People /\ members[p] \in MemberRecords /\ OneOfEach(members[p].roles)
    BY DEF RequestRecords, MembersTypes, KeysInv
  <2>2. /\ RolesOf(members[p].roles) \cap says = {}
        /\ members' = [members EXCEPT ![p] = member]
        /\ requests' = [requests EXCEPT ![r] = Ended]
    BY <1>2, <2>1 DEF InsertRoles, RolesSet, Row, MembersTypes
  <2>3. OneOfEach(new) /\ RolesOf(new) = says
    BY NewRoles, RolesOfNew
  <2> HIDE DEF says, new
  <2>4. OneOfEach(members[p].roles \cup new)
    BY <2>1, <2>2, <2>3, MoreRoles
  <2>5. /\ member.roles = members[p].roles \cup new /\ member.is = members[p].is
        /\ member.name = members[p].name /\ member.email = members[p].email
    BY <2>1 DEF MemberRecords
  <2>6. \A q \in People \ {p} : Apart(member, members[q])
    BY <2>1, <2>5 DEF Apart, KeysInv
  <2> HIDE DEF p, member
  <2> QED BY <2>1, <2>2, <2>4, <2>5, <2>6, NothingRead, OneMember
<1> QED BY <1>1, <1>2

LEMMA KeysStepOK == MembersTypes /\ KeysInv /\ MembersNext => KeysInv'
<1> SUFFICES ASSUME MembersTypes, KeysInv, NEW r \in Requests,
                    \/ \E p \in People, email \in Addresses, says \in SUBSET Roles :
                          \/ CreateMember(r, p, email, says)
                          \/ \E sets \in BOOLEAN : ChangeMember(r, p, email, sets, says)
                    \/ ReadMember(r) \/ CheckEmail(r) \/ GenerateUsername(r) \/ InsertMember(r)
                    \/ Reread(r) \/ SaveMember(r) \/ DeleteRoles(r) \/ InsertRoles(r)
                    \/ BreakOff(r)
             PROVE  KeysInv'
  BY DEF MembersNext, Addresses
<1>1. CASE BreakOff(r)
  BY <1>1, TurnedDownKeys DEF BreakOff
<1> QED BY <1>1, CreateMemberKeys, ChangeMemberKeys, ReadsKeys, SaveMemberKeys, DeleteRolesKeys,
           InsertMemberKeys, InsertRolesKeys

(* However requests overlap, no two members come to share a user name or an *)
(* address, and no member has a role twice, though each is looked up before *)
(* the row is written (UsersService.create and update, with the unique      *)
(* indexes of users and user_roles).                                        *)
THEOREM MembersTypeCorrect == MembersSpec => []MembersTypeOK
<1>1. MembersTypes /\ KeysInv /\ [MembersNext]_membersVars => KeysInv'
  <2>1. KeysInv /\ UNCHANGED membersVars => KeysInv'
    BY DEF KeysInv, membersVars
  <2> QED BY <2>1, KeysStepOK
<1>2. MembersInv => MembersTypes
  BY DEF MembersInv
<1>3. MembersTypes /\ KeysInv => MembersTypeOK
  BY DEF MembersTypes, KeysInv, MembersTypeOK, MemberRecords, RequestRecords, Places, Addresses,
     OneOfEach, Apart
<1> QED BY MembersInvariance, KeysStart, <1>1, <1>2, <1>3, PTL DEF MembersSpec
-----------------------------------------------------------------------------
(* The office: six parts, of which one moves. *)

(* A behaviour of the office is one of each part, which takes all steps or  *)
(* none.                                                                    *)
LEMMA EachPart ==
    OfficeSpec => PortalSpec /\ FormsSpec /\ ResponsesSpec /\ NoticesSpec /\ DeadlinesSpec
                  /\ MembersSpec
<1>1. OfficeInit => PortalInit /\ FormsInit /\ ResponsesInit /\ NoticesInit /\ DeadlinesInit
                    /\ MembersInit
  BY DEF OfficeInit
<1>2. [OfficeNext]_<<part, portalVars, formsVars, responsesVars, noticesVars, deadlinesVars,
                     membersVars>>
      => /\ [PortalNext]_portalVars /\ [FormsNext]_formsVars /\ [ResponsesNext]_responsesVars
         /\ [NoticesNext]_noticesVars /\ [DeadlinesNext]_deadlinesVars
         /\ [MembersNext]_membersVars
  BY DEF OfficeNext
<1> QED BY <1>1, <1>2, PTL DEF OfficeSpec, PortalSpec, FormsSpec, ResponsesSpec, NoticesSpec,
           DeadlinesSpec, MembersSpec

LEMMA OnePartMoves == OfficeSpec => [](part \in Parts)
<1>1. OfficeInit => part \in Parts
  BY DEF OfficeInit
<1>2. part \in Parts /\ [OfficeNext]_<<part, portalVars, formsVars, responsesVars, noticesVars,
                                       deadlinesVars, membersVars>>
      => (part \in Parts)'
  BY DEF OfficeNext
<1> QED BY <1>1, <1>2, PTL DEF OfficeSpec

(* The parts keep their types, and the list of members its keys, in every   *)
(* office whatever the constants.                                           *)
THEOREM OfficeTypeCorrect == OfficeSpec => []OfficeTypeOK
<1>1. part \in Parts /\ PortalTypeOK /\ FormsTypeOK /\ ResponsesTypeOK /\ NoticesTypeOK
      /\ DeadlinesTypeOK /\ MembersTypeOK => OfficeTypeOK
  BY DEF Parts, OfficeTypeOK
<1> QED BY EachPart, OnePartMoves, PortalTypeCorrect, FormsTypeCorrect, ResponsesTypeCorrect,
           NoticesTypeCorrect, DeadlinesTypeCorrect, MembersTypeCorrect, <1>1, PTL

(* What the parts promise each on its own, an office keeps whichever of them *)
(* it is: the same specification that the small instances are of.           *)
COROLLARY OfficeKeepsPromises ==
    OfficeSpec => /\ [](WaitersAreServed /\ OwnSavesShown /\ AnswersStand /\ SentToAll)
                  /\ [](NoDailyRepeat /\ AllDueTold /\ RolesAsSent)
                  /\ SignedOutStays /\ OnlyTypedChanges /\ TypingStays /\ LiveTokensKept
BY EachPart, NoneLeftWaiting, NoOldRecordShown, AnswersKept, SentToEverybody, RemindersSpaced,
   DueIsTold, RolesStand, SignOutForAllTabs, OnlyTypedSaved, TypingKept, TokensKept, PTL
=============================================================================
