------------------------------ MODULE MCOffice ------------------------------
(***************************************************************************)
(* Small instances for TLC of six parts that share no state: the session  *)
(* of the portal, its forms, the answers of members, the mailing of         *)
(* notifications, the daily checks and the list of members. A behaviour is   *)
(* one of any of them.                                                      *)
(***************************************************************************)
EXTENDS Portal, Forms, Responses, Notices, Deadlines, Membership, TLC

CONSTANTS ana, bor, cene   \* members

VARIABLE part

Parts == {"portal", "forms", "responses", "notices", "deadlines", "members"}

\* Two societies: in the first things of four kinds fall due, the second has
\* a training that is yet to be entered.
MCThings == {"truck", "mask", "first aid", "term", "driving"}
MCSocietyOf == [t \in MCThings |-> IF t = "driving" THEN "b" ELSE "a"]
MCKindOf == [t \in MCThings |->
    CASE t = "truck" -> "vehicle" [] t = "mask" -> "inspection"
      [] t = "term" -> "subscription" [] OTHER -> "training"]
MCFirstDue == [t \in MCThings |->
    CASE t \in {"truck", "mask"} -> 2 [] t = "driving" -> NoDeadline [] OTHER -> 1]
MCAnnounced == [k \in Kinds |->
    CASE k \in {"vehicle", "inspection"} -> {2, 1} [] k = "expiry" -> {1}
      [] k = "training" -> {1} [] OTHER -> {1, 0}]

\* A record with both boxes filled.
MCFirstRows == {[b \in Boxes |-> "a"]}

\* Who is in the groups of the society at the start.
MCFirstGroups == ana :> {"operative", "leadership"} @@ bor :> {"youth"}

OfficeInit ==
    /\ part \in Parts
    /\ PortalInit /\ FormsInit /\ ResponsesInit /\ NoticesInit /\ DeadlinesInit
    /\ MembersInit

OfficeNext ==
    /\ UNCHANGED part
    /\ \/ /\ part = "portal" /\ PortalNext
          /\ UNCHANGED <<formsVars, responsesVars, noticesVars, deadlinesVars, membersVars>>
       \/ /\ part = "forms" /\ FormsNext
          /\ UNCHANGED <<portalVars, responsesVars, noticesVars, deadlinesVars, membersVars>>
       \/ /\ part = "responses" /\ ResponsesNext
          /\ UNCHANGED <<portalVars, formsVars, noticesVars, deadlinesVars, membersVars>>
       \/ /\ part = "notices" /\ NoticesNext
          /\ UNCHANGED <<portalVars, formsVars, responsesVars, deadlinesVars, membersVars>>
       \/ /\ part = "deadlines" /\ DeadlinesNext
          /\ UNCHANGED <<portalVars, formsVars, responsesVars, noticesVars, membersVars>>
       \/ /\ part = "members" /\ MembersNext
          /\ UNCHANGED <<portalVars, formsVars, responsesVars, noticesVars, deadlinesVars>>

OfficeSpec ==
    OfficeInit /\ [][OfficeNext]_<<part, portalVars, formsVars, responsesVars,
                                   noticesVars, deadlinesVars, membersVars>>

\* The type invariant of the part that moves.
OfficeTypeOK ==
    CASE part = "portal" -> PortalTypeOK
      [] part = "forms" -> FormsTypeOK
      [] part = "responses" -> ResponsesTypeOK
      [] part = "notices" -> NoticesTypeOK
      [] part = "deadlines" -> DeadlinesTypeOK
      [] part = "members" -> MembersTypeOK
=============================================================================
