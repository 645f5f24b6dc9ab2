----------------------- MODULE MCAuthorizationService -----------------------
(***************************************************************************)
(* Small questions for AuthorizationService: a desk of six people, an      *)
(* instruction in three states and a payment, asked about by those whom    *)
(* the policies permit and by those whom a single rule refuses.            *)
(***************************************************************************)
EXTENDS AuthorizationService, TLC

CONSTANTS mo, as, vp, md, fx, svc

Employee(title, roles, lob, supervisor) ==
  [title |-> title, roles |-> roles, groups |-> {}, lob |-> lob, supervisor |-> supervisor]

MCDirectory ==
  (mo :> [Employee("Vice President", {"INSTRUCTION_CREATOR", "PAYMENT_CREATOR"}, NoLob, md)
            EXCEPT !.groups = {"MIDDLE_OFFICE"}]) @@
  (as :> Employee("Associate", {"INSTRUCTION_APPROVER", "FUNDING_APPROVER"}, "FICC", vp)) @@
  (vp :> Employee("Partner", {"INSTRUCTION_APPROVER"}, "FICC", NoUser)) @@
  (md :> Employee("Managing Director", {"INSTRUCTION_APPROVER"}, "FICC", NoUser)) @@
  (fx :> [Employee("Managing Director", {"FUNDING_APPROVER"}, "FX", NoUser)
            EXCEPT !.groups = {"MIDDLE_OFFICE"}]) @@
  (svc :> Employee("Service Account", {"INSTRUCTION_MARKER"}, NoLob, NoUser))

\* Clubs and covered lines of business are what the payment policy adds.
MCStaff ==
  [u \in Users |->
    [roles |-> Directory[u].roles \cap {"PAYMENT_CREATOR", "FUNDING_APPROVER"},
     groups |-> Directory[u].groups, lob |-> Directory[u].lob,
     supervisor |-> Directory[u].supervisor,
     covering |-> IF u \in {mo, fx} THEN {"FICC"} ELSE {},
     limits |-> IF u = svc THEN {} ELSE {2}]]

Instruction(status) ==
  [type |-> "STANDING", lob |-> "FICC", accountLob |-> "FICC", start |-> 0, end |-> 1,
   status |-> status, createdBy |-> mo, suspendedBy |-> NoUser,
   delegated |-> {"INSTRUCTION_MARKER"}]

Payment(amount) ==
  [lob |-> "FICC", amount |-> amount, createdBy |-> mo, status |-> "STANDING", end |-> 1]

Pending == Instruction("PENDING")

MCQuestions ==
  {Ask("instruction", "APPROVE", s, Pending) : s \in {vp, as, md}} \cup
  {Ask("instruction", "USE", mo, Instruction("STANDING")),
   Ask("instruction", "SUSPEND", as, Instruction("STANDING")),
   Ask("payment", "CREATE", mo, Payment(1)),
   Ask("payment", "APPROVE", fx, Payment(3)),
   Ask("payment", "APPROVE", as, Payment(1)),
   AskEligible("instruction", Pending),
   AskEligible("payment", Payment(1))}

=============================================================================
