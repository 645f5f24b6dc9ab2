---------------------------- MODULE MCDelegation ----------------------------
(***************************************************************************)
(* A small instance of Delegation: a request for a payment or for its      *)
(* approvers and one for an instruction, with logins of two attempts.      *)
(***************************************************************************)
EXTENDS Delegation, TLC

CONSTANTS q1, q2

MCRequests == {q1, q2}

\* A user who may do everything and one of a line of business instruction-service does
\* not know; of the services only payment-service has INSTRUCTION_MARKER.
MCMetadata ==
  [u \in Users \cup Services |->
     {"title", "roles"} \cup CASE u = "equities" -> {"foreign lob"}
                             [] u = Payment    -> {"marker"}
                             [] OTHER          -> {}]

MCKinds == (q1 :> {"create", "approvers"}) @@ (q2 :> {"instruction"})

=============================================================================
