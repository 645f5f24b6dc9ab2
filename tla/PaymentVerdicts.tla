--------------------------- MODULE PaymentVerdicts ---------------------------
(***************************************************************************)
(* The violations, alerts and basis of the payment.lifecycle policy.  Most *)
(* of its violations are about amounts, the instruction and the approver;  *)
(* a refusal for another reason has no name.                               *)
(***************************************************************************)
EXTENDS PaymentPolicy

\* limits is the set of the ceilings of the subject's clubs.
ExceedsAbsoluteLimit(p) == p.amount > AbsoluteLimit

ExceedsSubjectLimit(s, p) ==
  /\ ~ExceedsAbsoluteLimit(p)
  /\ Staff[s].limits # {}
  /\ \A limit \in Staff[s].limits : p.amount > limit

AmountBreach(v, act, s, p) ==
  /\ act \in {"CREATE", "APPROVE"}
  /\ \/ v = "ALERT_AMOUNT_EXCEEDS_100B_LIMIT" /\ ExceedsAbsoluteLimit(p)
     \/ v = "ALERT_AMOUNT_EXCEEDS_SUBJECT_LIMIT" /\ ExceedsSubjectLimit(s, p)
     \/ v = "NO_LIMIT_GROUP_ASSIGNED" /\ Staff[s].limits = {}

InstructionBreach(v, act, status, end, now) ==
  /\ act \in {"CREATE", "APPROVE"}
  /\ \/ v = "ALERT_UNAPPROVED_INSTRUCTION" /\ status \notin Active
     \/ v = "ALERT_EXPIRED_INSTRUCTION" /\ now >= end

FundingApprover(s) == HasRole(s, "FUNDING_APPROVER")

ApproverBreach(v, act, s, p) ==
  /\ act = "APPROVE"
  /\ \/ /\ v = "ALERT_NOT_MIDDLE_OFFICE_GROUP"
        /\ FundingApprover(s) /\ ~InMiddleOffice(s)
     \/ /\ v = "ALERT_LOB_COVERAGE_VIOLATION"
        /\ FundingApprover(s) /\ InMiddleOffice(s) /\ ~CoversLob(s, p.lob)
     \/ v = "SELF_APPROVAL" /\ ~PaymentCreatorIsNotApprover(s, p)
     \/ /\ v = "ALERT_SUBORDINATE_APPROVING_CREATOR"
        /\ FundingApprover(s) /\ ~PaymentApproverNotSubordinateOfCreator(s, p)

Alerts == {"ALERT_AMOUNT_EXCEEDS_100B_LIMIT", "ALERT_AMOUNT_EXCEEDS_SUBJECT_LIMIT",
           "ALERT_UNAPPROVED_INSTRUCTION", "ALERT_EXPIRED_INSTRUCTION",
           "ALERT_NOT_MIDDLE_OFFICE_GROUP", "ALERT_LOB_COVERAGE_VIOLATION",
           "ALERT_SUBORDINATE_APPROVING_CREATOR"}

Breaches == Alerts \cup {"NO_LIMIT_GROUP_ASSIGNED", "SELF_APPROVAL"}

Violations(act, s, p, status, end, now) ==
  {v \in Breaches :
     \/ AmountBreach(v, act, s, p)
     \/ InstructionBreach(v, act, status, end, now)
     \/ ApproverBreach(v, act, s, p)}

-----------------------------------------------------------------------------
(* allow_basis                                                             *)

DeskBasis(r, act, s, p) ==
  \/ /\ act \in {"CREATE", "APPROVE", "REJECT"}
     /\ \/ r = "group" /\ InMiddleOffice(s)
        \/ r = "covers LOB" /\ CoversLob(s, p.lob)
  \/ r = "role" /\ act \in {"CREATE", "SUBMIT"} /\ HasRole(s, "PAYMENT_CREATOR")
  \/ r = "role" /\ act \in {"APPROVE", "REJECT"} /\ FundingApprover(s)
  \/ r = "desk LOB" /\ act = "SUBMIT" /\ Staff[s].lob = p.lob

PaymentBasis(r, act, s, p, status, end, now) ==
  \/ /\ act \in {"CREATE", "SUBMIT", "APPROVE"}
     /\ \/ r = "status" /\ status \in Active
        \/ r = "not expired" /\ now < end
  \/ r = "amount" /\ act \in {"CREATE", "APPROVE"} /\ WithinAmountLimit(s, p)
  \/ r = "not self-approval" /\ act = "APPROVE" /\ PaymentCreatorIsNotApprover(s, p)
  \/ r = "not subordinate" /\ act = "APPROVE" /\ PaymentApproverNotSubordinateOfCreator(s, p)

Reasons == {"role", "group", "covers LOB", "desk LOB", "status", "not expired", "amount",
            "not self-approval", "not subordinate"}

AllowBasis(act, s, p, status, end, now) ==
  {r \in Reasons : DeskBasis(r, act, s, p) \/ PaymentBasis(r, act, s, p, status, end, now)}

=============================================================================
