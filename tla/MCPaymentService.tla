--------------------------- MODULE MCPaymentService ---------------------------
(***************************************************************************)
(* A funding desk for PaymentService: a front-office submitter, and two    *)
(* people of the middle office who may both create and approve, one        *)
(* reporting to the other.                                                 *)
(***************************************************************************)
EXTENDS PaymentService, TLC

CONSTANTS cr, fo, hd, t1, t2, ssi

Everyone == {cr, fo, hd}

MiddleOffice(supervisor) ==
  [roles |-> {"PAYMENT_CREATOR", "FUNDING_APPROVER"}, groups |-> {"MIDDLE_OFFICE"},
   limits |-> {2}, lob |-> NoLob, covering |-> {"FICC"}, supervisor |-> supervisor]

MCStaff ==
  (fo :> [roles |-> {"PAYMENT_CREATOR"}, groups |-> {}, limits |-> {2}, lob |-> "FICC",
          covering |-> {}, supervisor |-> NoUser]) @@
  (cr :> MiddleOffice(hd)) @@ (hd :> MiddleOffice(NoUser))

MCTerms == ssi :> [lob |-> "FICC", start |-> 0, end |-> 1]

Symmetry == Permutations(Tasks)

-----------------------------------------------------------------------------
(* The start: an approved instruction and no payment yet, or one that has  *)
(* been created, or also submitted; two calls have been served.            *)

VersionOf(k, status, act) ==
  [id |-> ssi, ver |-> k, status |-> status, act |-> act, user |-> hd]

Approved(type) ==
  {VersionOf(1, "DRAFT", "CREATE"), VersionOf(2, "PENDING", "SUBMIT"),
   VersionOf(3, type, "APPROVE")}

\* The payment of creator u after its first k calls.
Earlier(type, u, k) ==
  LET p == NewPayment(<<"FICC", 1>>, ssi, VersionOf(3, type, "APPROVE"), 1, u)
  IN  IF k = 1 THEN p ELSE Outcome("SUBMIT", p, fo)

Logged(p, act, u) == [act |-> act, user |-> u, pay |-> p, outcome |-> "success"]

LaterInit ==
  /\ \E type \in Active, u \in {cr, hd}, k \in 0..2 :
       LET p == Earlier(type, u, k)
           used == type = "SINGLE_USE" /\ k > 0
       IN  /\ ledger = Approved(type)
                         \cup (IF used THEN {[VersionOf(4, "USED", "USE") EXCEPT !.user = u]}
                                       ELSE {})
           /\ uses = IF used THEN {[pay |-> p.id, inst |-> ssi, ver |-> 4]} ELSE {}
           /\ payments = [id \in PaymentIds |->
                            IF k > 0 /\ id = p.id THEN p ELSE NoPayment]
           /\ events = (IF k > 0 THEN {Logged(Earlier(type, u, 1), "CREATE", u)} ELSE {})
                         \cup (IF k = 2 THEN {Logged(p, "SUBMIT", fo)} ELSE {})
           /\ nextPayment = [l \in Lobs |-> IF k > 0 THEN 1 ELSE 2]
  /\ eventTopic = {}
  /\ factTopic = <<>>
  /\ pc = [t \in Tasks |-> "idle"]
  /\ call = [t \in Tasks |-> NoCall]
  /\ wire = {}
  /\ calls = 2
  /\ now = 0

LaterSpec == LaterInit /\ [][Next]_vars

=============================================================================
