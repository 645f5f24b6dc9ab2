---------------------------- MODULE PaymentPolicy ----------------------------
(***************************************************************************)
(* The payment.lifecycle policy that OPA evaluates for every lifecycle     *)
(* call of payment-service: who may create, submit, approve and reject a   *)
(* payment, up to which amount and on which instruction.  Nothing here     *)
(* changes state.                                                          *)
(*                                                                         *)
(* The policy sees the payment through to_opa_payment, with the status and *)
(* the end of the instruction as the handler fetched them.                 *)
(***************************************************************************)
EXTENDS Integers

CONSTANTS
  Users,           \* user ids
  NoUser,          \* an absent user reference (null)
  Lobs,            \* lines of business
  NoLob,           \* a subject without a line of business (null)
  Staff,           \* identity-provider record of every user
  AbsoluteLimit    \* the ceiling nobody exceeds

PaymentRoles == {"PAYMENT_CREATOR", "FUNDING_APPROVER"}

\* limits: the ceilings of the clubs the person belongs to.
Person == [roles : SUBSET PaymentRoles, groups : SUBSET STRING, limits : SUBSET Nat,
           lob : Lobs \cup {NoLob}, covering : SUBSET Lobs,
           supervisor : Users \cup {NoUser}]

ASSUME StaffAssumption ==
  /\ Staff \in [Users -> Person]
  /\ NoUser \notin Users
  /\ NoLob \notin Lobs
  /\ AbsoluteLimit \in Nat

Active == {"STANDING", "SINGLE_USE"}       \* the statuses of a usable instruction

PaymentActions == {"CREATE", "SUBMIT", "APPROVE", "REJECT", "CANCEL"}

-----------------------------------------------------------------------------
(* Helper rules.                                                           *)

HasRole(s, role) == role \in Staff[s].roles

InMiddleOffice(s) == "MIDDLE_OFFICE" \in Staff[s].groups

CoversLob(s, lob) == lob \in Staff[s].covering

\* The middle-office desk that enters and funds the payments of a line of business.
Desk(s, role, p) == HasRole(s, role) /\ InMiddleOffice(s) /\ CoversLob(s, p.lob)

InstructionUsable(status, end, now) == status \in Active /\ now < end

\* The highest club counts; someone in no club has no limit group and is refused.
WithinAmountLimit(s, p) ==
  /\ \E limit \in Staff[s].limits : p.amount <= limit
  /\ p.amount <= AbsoluteLimit

PaymentCreatorIsNotApprover(s, p) == s # p.createdBy

PaymentApproverNotSubordinateOfCreator(s, p) == Staff[s].supervisor # p.createdBy

-----------------------------------------------------------------------------
(* The allow rules, one per action.                                        *)

AllowCreate(s, p, status, end, now) ==
  /\ Desk(s, "PAYMENT_CREATOR", p)
  /\ InstructionUsable(status, end, now)
  /\ p.amount > 0
  /\ WithinAmountLimit(s, p)

AllowSubmit(s, p, status, end, now) ==
  /\ HasRole(s, "PAYMENT_CREATOR")
  /\ Staff[s].lob = p.lob
  /\ InstructionUsable(status, end, now)

\* Mutant of AllowApprove: without the two rules on the creator.
AllowApproveOwn(s, p, status, end, now) ==
  /\ Desk(s, "FUNDING_APPROVER", p)
  /\ InstructionUsable(status, end, now)
  /\ WithinAmountLimit(s, p)

AllowApprove(s, p, status, end, now) ==
  /\ Desk(s, "FUNDING_APPROVER", p)
  /\ InstructionUsable(status, end, now)
  /\ WithinAmountLimit(s, p)
  /\ PaymentCreatorIsNotApprover(s, p)
  /\ PaymentApproverNotSubordinateOfCreator(s, p)

AllowReject(s, p) == Desk(s, "FUNDING_APPROVER", p)

\* The decision: the subject, the payment as the handler holds it, the instruction's
\* status and end as it was fetched, and OPA's clock.
Allowed(act, s, p, status, end, now) ==
  \/ act = "CREATE"  /\ AllowCreate(s, p, status, end, now)
  \/ act = "SUBMIT"  /\ AllowSubmit(s, p, status, end, now)
  \/ act = "APPROVE" /\ AllowApprove(s, p, status, end, now)
  \/ act = "REJECT"  /\ AllowReject(s, p)

=============================================================================
