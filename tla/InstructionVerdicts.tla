------------------------- MODULE InstructionVerdicts -------------------------
(***************************************************************************)
(* What the instruction.lifecycle policy says besides yes and no: the      *)
(* violations it names when it refuses, whether one of them is an alert,   *)
(* and the basis it gives when it allows.  They are rules of their own,    *)
(* written next to the allow rules and not derived from them.              *)
(***************************************************************************)
EXTENDS InstructionPolicy

Creating == {"CREATE", "UPDATE", "DELETE", "SUBMIT"}
Deciding == {"APPROVE", "REJECT", "SUSPEND", "REACTIVATE"}

Creator(s)  == HasRole(s, "INSTRUCTION_CREATOR")
Approver(s) == HasRole(s, "INSTRUCTION_APPROVER")

ValidTransition(act, i) ==
  \/ act \in {"UPDATE", "SUBMIT"}  /\ i.status = "DRAFT"
  \/ act = "DELETE"                /\ i.status \in {"DRAFT", "PENDING"}
  \/ act \in {"APPROVE", "REJECT"} /\ i.status = "PENDING"
  \/ act = "SUSPEND"               /\ i.status \in Approved
  \/ act = "REACTIVATE"            /\ i.status = "SUSPENDED"

-----------------------------------------------------------------------------
(* violations[v], by who or what is at fault.                              *)

\* The caller may not create or change instructions.
CreatorBreach(v, act, s, i) ==
  /\ act \in Creating
  /\ \/ v = "MISSING_ROLE_INSTRUCTION_CREATOR" /\ ~Creator(s)
     \/ v = "NOT_MIDDLE_OFFICE_GROUP" /\ Creator(s) /\ ~IsMiddleOffice(s)
     \/ /\ v = "CREATOR_TITLE_INELIGIBLE"
        /\ Creator(s) /\ IsMiddleOffice(s) /\ ~CreatorEligible(s)
     \/ /\ v = "ACCOUNT_LOB_MISMATCH" /\ act # "SUBMIT"
        /\ Creator(s) /\ IsMiddleOffice(s) /\ ~AccountLobMatches(i)

\* The instruction is not one the action may be taken on.
InstructionBreach(v, act, i) ==
  \/ v = "INVALID_PROFIT_CENTER" /\ ~ValidProfitCenter(i)
  \/ v = "INVALID_INSTRUCTION_TYPE" /\ act = "CREATE" /\ i.type \notin Types
  \/ /\ v = "INVALID_INSTRUCTION_STATUS"
     /\ \/ act \in {"CREATE", "UPDATE", "SUBMIT"} /\ i.status # "DRAFT"
        \/ act = "DELETE" /\ i.status \notin {"DRAFT", "PENDING"}
  \/ /\ v = "INSTRUCTION_DURATION_EXCEEDS_3Y"
     /\ act \in {"CREATE", "UPDATE", "APPROVE"} /\ ~WithinThreeYears(i)
  \/ /\ v = "INVALID_STATE_TRANSITION"
     /\ act \in (Creating \ {"CREATE"}) \cup Deciding /\ ~ValidTransition(act, i)

\* Mutant of ApproverBreach: without the approval matrix.
ApproverBreachNoMatrix(v, act, s, i) ==
  \/ /\ act \in Deciding
     /\ \/ v = "MISSING_ROLE_INSTRUCTION_APPROVER" /\ ~Approver(s)
        \/ v = "ALERT_LOB_MISMATCH" /\ Approver(s) /\ ~SameLob(s, i)
  \/ /\ act = "APPROVE"
     /\ \/ v = "SELF_APPROVAL" /\ ~CreatorIsNotApprover(s, i)
        \/ /\ v = "ALERT_SUPERVISOR_APPROVING_SUBORDINATE"
           /\ Approver(s) /\ ~NotSupervisorOfCreator(s, i)
        \/ /\ v = "ALERT_SUBORDINATE_APPROVING_CREATOR"
           /\ Approver(s) /\ ~ApproverNotSubordinateOfCreator(s, i)

\* The caller may not take this decision on this instruction.
ApproverBreach(v, act, s, i) ==
  \/ /\ act \in Deciding
     /\ \/ v = "MISSING_ROLE_INSTRUCTION_APPROVER" /\ ~Approver(s)
        \/ v = "ALERT_LOB_MISMATCH" /\ Approver(s) /\ ~SameLob(s, i)
  \/ /\ act = "APPROVE"
     /\ \/ v = "SELF_APPROVAL" /\ ~CreatorIsNotApprover(s, i)
        \/ /\ v = "ALERT_SUPERVISOR_APPROVING_SUBORDINATE"
           /\ Approver(s) /\ ~NotSupervisorOfCreator(s, i)
        \/ /\ v = "ALERT_SUBORDINATE_APPROVING_CREATOR"
           /\ Approver(s) /\ ~ApproverNotSubordinateOfCreator(s, i)
        \/ /\ v = "ALERT_APPROVAL_MATRIX_VIOLATION"
           /\ Approver(s) /\ SameLob(s, i) /\ ~ApproverIsAllowed(s, i)
  \/ /\ act = "SUSPEND" /\ v = "SUSPEND_REQUIRES_MANAGING_DIRECTOR"
     /\ Approver(s) /\ Directory[s].title # "Managing Director"
  \/ /\ act = "REACTIVATE" /\ v = "SELF_REACTIVATION"
     /\ Approver(s) /\ s = i.suspendedBy

\* The instruction may not be used, or not by this caller, or not be seen.
UseBreach(v, act, s, delegated, i, now) ==
  \/ /\ act = "USE"
     /\ \/ v = "ALERT_UNAUTHORIZED_SERVICE" /\ "INSTRUCTION_MARKER" \notin delegated
        \/ v = "ALERT_UNAPPROVED_INSTRUCTION" /\ i.status \notin Approved
        \/ v = "ALERT_EXPIRED_INSTRUCTION" /\ ~NotExpired(i, now)
  \/ v = "VIEWER_ACCESS_DENIED" /\ act \in {"VIEW", "USE"} /\ ~HasViewerAccess(s)

\* The names with the prefix ALERT_, and the others.
Alerts == {"ALERT_LOB_MISMATCH", "ALERT_SUPERVISOR_APPROVING_SUBORDINATE",
           "ALERT_SUBORDINATE_APPROVING_CREATOR", "ALERT_APPROVAL_MATRIX_VIOLATION",
           "ALERT_UNAUTHORIZED_SERVICE", "ALERT_UNAPPROVED_INSTRUCTION",
           "ALERT_EXPIRED_INSTRUCTION"}

Breaches == Alerts \cup
  {"MISSING_ROLE_INSTRUCTION_CREATOR", "MISSING_ROLE_INSTRUCTION_APPROVER",
   "NOT_MIDDLE_OFFICE_GROUP", "CREATOR_TITLE_INELIGIBLE", "ACCOUNT_LOB_MISMATCH",
   "INVALID_PROFIT_CENTER", "INVALID_INSTRUCTION_TYPE", "INVALID_INSTRUCTION_STATUS",
   "INSTRUCTION_DURATION_EXCEEDS_3Y", "INVALID_STATE_TRANSITION", "SELF_APPROVAL",
   "SUSPEND_REQUIRES_MANAGING_DIRECTOR", "SELF_REACTIVATION", "VIEWER_ACCESS_DENIED"}

Violations(act, s, delegated, i, now) ==
  {v \in Breaches :
     \/ CreatorBreach(v, act, s, i)
     \/ InstructionBreach(v, act, i)
     \/ ApproverBreach(v, act, s, i)
     \/ UseBreach(v, act, s, delegated, i, now)}

-----------------------------------------------------------------------------
(* allow_basis: every reason that holds, by the words it is given in.      *)

CreatorBasis(r, act, s, i) ==
  /\ act \in Creating
  /\ \/ r = "role" /\ Creator(s)
     \/ r = "group" /\ IsMiddleOffice(s)
     \/ r = "creator title" /\ CreatorEligible(s)
     \/ r = "account LOB" /\ act # "SUBMIT" /\ AccountLobMatches(i)

InstructionBasis(r, act, i) ==
  \/ r = "profit center" /\ ValidProfitCenter(i)
  \/ r = "duration" /\ act \in {"CREATE", "UPDATE", "APPROVE"} /\ WithinThreeYears(i)
  \/ r = "transition" /\ act # "CREATE" /\ ValidTransition(act, i)

DecisionBasis(r, act, s, i) ==
  \/ /\ act \in Deciding
     /\ \/ r = "role" /\ Approver(s)
        \/ r = "approver LOB" /\ SameLob(s, i)
  \/ /\ act = "APPROVE"
     /\ \/ r = "not self-approval" /\ CreatorIsNotApprover(s, i)
        \/ r = "not supervisor" /\ NotSupervisorOfCreator(s, i)
        \/ r = "not subordinate" /\ ApproverNotSubordinateOfCreator(s, i)
        \/ r = "approval matrix" /\ ApproverIsAllowed(s, i)
  \/ act = "SUSPEND" /\ r = "Managing Director" /\ Directory[s].title = "Managing Director"
  \/ act = "REACTIVATE" /\ r = "not suspender" /\ s # i.suspendedBy

UseBasis(r, act, s, delegated, i, now) ==
  \/ /\ act = "USE"
     /\ \/ r = "service" /\ "INSTRUCTION_MARKER" \in delegated
        \/ r = "not expired" /\ NotExpired(i, now)
        \/ r = "status" /\ i.status \in Approved
  \/ r = "viewer" /\ act \in {"USE", "VIEW"} /\ HasViewerAccess(s)

Reasons == {"role", "group", "creator title", "account LOB", "profit center", "duration",
            "transition", "approver LOB", "not self-approval", "not supervisor",
            "not subordinate", "approval matrix", "Managing Director", "not suspender",
            "service", "viewer", "not expired", "status"}

AllowBasis(act, s, delegated, i, now) ==
  {r \in Reasons :
     \/ CreatorBasis(r, act, s, i)
     \/ InstructionBasis(r, act, i)
     \/ DecisionBasis(r, act, s, i)
     \/ UseBasis(r, act, s, delegated, i, now)}

=============================================================================
