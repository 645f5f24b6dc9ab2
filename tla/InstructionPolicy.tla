------------------------- MODULE InstructionPolicy -------------------------
(***************************************************************************)
(* The instruction.lifecycle policy that OPA evaluates for every lifecycle *)
(* call of instruction-service: who may do what to an instruction in which *)
(* state.  Nothing here changes state: Allowed is the decision of the Rego *)
(* package, one operator per rule and one per helper rule.                 *)
(*                                                                         *)
(* An instruction is seen through the fields to_opa_instruction and        *)
(* to_opa_account send (createdBy stands for the created_by object: the    *)
(* title and supervisor it carries are the creator's directory entry).     *)
(***************************************************************************)
EXTENDS Integers

CONSTANTS
  Users,           \* user ids, service accounts included
  NoUser,          \* an absent user reference (null)
  Lobs,            \* values of owning_lob the API accepts
  NoLob,           \* a subject without a line of business (null)
  ProfitCenters,   \* the lines of business the policy recognises
  Directory,       \* identity-provider record of every user
  MaxTerm          \* 26280h: the longest term of an instruction

Titles == {"Analyst", "Associate", "Vice President", "Managing Director",
           "Partner", "Service Account"}

Roles == {"INSTRUCTION_CREATOR", "INSTRUCTION_APPROVER", "INSTRUCTION_VIEWER",
          "INSTRUCTION_MARKER", "PAYMENT_CREATOR", "FUNDING_APPROVER"}

Person == [title : Titles, roles : SUBSET Roles, groups : SUBSET STRING,
           lob : Lobs \cup {NoLob}, supervisor : Users \cup {NoUser}]

ASSUME DirectoryAssumption ==
  /\ Directory \in [Users -> Person]
  /\ NoUser \notin Users
  /\ NoLob \notin Lobs
  /\ ProfitCenters \subseteq Lobs
  /\ MaxTerm \in Nat

Types    == {"STANDING", "SINGLE_USE"}
Approved == {"STANDING", "SINGLE_USE"}      \* the statuses of an active instruction
Actions  == {"CREATE", "UPDATE", "DELETE", "SUBMIT", "APPROVE", "REJECT",
             "SUSPEND", "REACTIVATE", "USE", "VIEW"}

-----------------------------------------------------------------------------
(* Helper rules.                                                           *)

HasRole(s, role) == role \in Directory[s].roles

HasViewerAccess(s) ==
  \E role \in {"INSTRUCTION_VIEWER", "INSTRUCTION_CREATOR", "INSTRUCTION_APPROVER",
               "PAYMENT_CREATOR", "FUNDING_APPROVER"} : HasRole(s, role)

IsMiddleOffice(s) == "MIDDLE_OFFICE" \in Directory[s].groups

CreatorEligible(s) ==
  Directory[s].title \in {"Analyst", "Associate", "Vice President", "Managing Director"}

SameLob(s, i) == Directory[s].lob = i.lob

AccountLobMatches(i) == i.accountLob = i.lob

ValidProfitCenter(i) == i.lob \in ProfitCenters

WithinThreeYears(i) == i.end > i.start /\ i.end - i.start <= MaxTerm

NotExpired(i, now) == now < i.end

CreatorIsNotApprover(s, i) == s # i.createdBy

NotSupervisorOfCreator(s, i) == s # Directory[i.createdBy].supervisor

ApproverNotSubordinateOfCreator(s, i) == i.createdBy # Directory[s].supervisor

\* Who may approve the work of a creator with this title: strictly senior titles.
\* A title without an entry approves nothing (the lookup is undefined).
SeniorTo(title) ==
  CASE title = "Analyst"           -> {"Associate", "Vice President",
                                       "Managing Director", "Partner"}
    [] title = "Associate"         -> {"Vice President", "Managing Director", "Partner"}
    [] title = "Vice President"    -> {"Managing Director", "Partner"}
    [] title = "Managing Director" -> {"Partner"}
    [] OTHER                       -> {}

ApproverIsAllowed(s, i) ==
  Directory[s].title \in SeniorTo(Directory[i.createdBy].title)

-----------------------------------------------------------------------------
(* The allow rules, one per action.                                        *)

MiddleOfficeCreator(s, i) ==
  /\ HasRole(s, "INSTRUCTION_CREATOR")
  /\ IsMiddleOffice(s)
  /\ CreatorEligible(s)
  /\ AccountLobMatches(i)
  /\ ValidProfitCenter(i)

AllowDraft(s, i) ==                              \* CREATE and UPDATE
  /\ MiddleOfficeCreator(s, i)
  /\ i.status = "DRAFT"
  /\ WithinThreeYears(i)

AllowDelete(s, i) ==
  /\ MiddleOfficeCreator(s, i)
  /\ i.status \in {"DRAFT", "PENDING"}

AllowSubmit(s, i) ==
  /\ HasRole(s, "INSTRUCTION_CREATOR")
  /\ IsMiddleOffice(s)
  /\ i.status = "DRAFT"

DeskApprover(s, i) ==
  /\ HasRole(s, "INSTRUCTION_APPROVER")
  /\ SameLob(s, i)
  /\ ValidProfitCenter(i)

\* Mutant of IndependentApprover: without the rule on the creator's supervisor.
IndependentApproverOrSupervisor(s, i) ==
  /\ CreatorIsNotApprover(s, i)
  /\ ApproverNotSubordinateOfCreator(s, i)
  /\ ApproverIsAllowed(s, i)

IndependentApprover(s, i) ==
  /\ CreatorIsNotApprover(s, i)
  /\ NotSupervisorOfCreator(s, i)
  /\ ApproverNotSubordinateOfCreator(s, i)
  /\ ApproverIsAllowed(s, i)

AllowApprove(s, i) ==
  /\ DeskApprover(s, i)
  /\ i.status = "PENDING"
  /\ IndependentApprover(s, i)
  /\ WithinThreeYears(i)

AllowReject(s, i) == DeskApprover(s, i) /\ i.status = "PENDING"

AllowSuspend(s, i) ==
  /\ DeskApprover(s, i)
  /\ Directory[s].title = "Managing Director"
  /\ i.status \in Approved

\* Mutant of AllowReactivate: without the second person.
AllowReactivateAnyone(s, i) ==
  /\ DeskApprover(s, i)
  /\ i.status = "SUSPENDED"

AllowReactivate(s, i) ==
  /\ DeskApprover(s, i)
  /\ i.status = "SUSPENDED"
  /\ s # i.suspendedBy

AllowUse(s, delegated, i, now) ==
  /\ "INSTRUCTION_MARKER" \in delegated
  /\ HasViewerAccess(s)
  /\ ValidProfitCenter(i)
  /\ NotExpired(i, now)
  /\ i.status \in Approved

AllowView(s, i) == HasViewerAccess(s) /\ ValidProfitCenter(i)

\* The decision: the subject, the roles of the service that delegates for it,
\* the instruction as the caller presents it and OPA's clock.
Allowed(act, s, delegated, i, now) ==
  \/ act \in {"CREATE", "UPDATE"} /\ AllowDraft(s, i)
  \/ act = "DELETE"     /\ AllowDelete(s, i)
  \/ act = "SUBMIT"     /\ AllowSubmit(s, i)
  \/ act = "APPROVE"    /\ AllowApprove(s, i)
  \/ act = "REJECT"     /\ AllowReject(s, i)
  \/ act = "SUSPEND"    /\ AllowSuspend(s, i)
  \/ act = "REACTIVATE" /\ AllowReactivate(s, i)
  \/ act = "USE"        /\ AllowUse(s, delegated, i, now)
  \/ act = "VIEW"       /\ AllowView(s, i)

=============================================================================
