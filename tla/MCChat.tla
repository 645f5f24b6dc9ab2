------------------------------- MODULE MCChat -------------------------------
(***************************************************************************)
(* Small histories for Chat: a payment that one user was refused and       *)
(* another approved, beside a second payment; an instruction through its   *)
(* life; and a payment approved on an approved instruction.                *)
(***************************************************************************)
EXTENDS Chat

CONSTANTS i, p1, p2

MCPayments == {p1, p2}

Did(act, user)     == [act |-> act, user |-> user, ok |-> TRUE]
Refused(act, user) == [act |-> act, user |-> user, ok |-> FALSE]

PaymentsApproved ==
  (i  :> <<>>) @@
  (p1 :> <<Refused("APPROVE", "x"), Did("APPROVE", "f1")>>) @@
  (p2 :> <<Did("APPROVE", "f2")>>)

InstructionSuspended ==
  (i  :> <<Did("SUBMIT", "mo"), Did("APPROVE", "a"), Did("SUSPEND", "s")>>) @@
  (p1 :> <<>>) @@ (p2 :> <<>>)

PaidAfterwards ==
  (i  :> <<Did("SUBMIT", "mo"), Did("APPROVE", "a")>>) @@
  (p1 :> <<Did("APPROVE", "f1")>>) @@ (p2 :> <<>>)

MCHistories == {PaymentsApproved, InstructionSuspended, PaidAfterwards}

About(r, mode, asks) == [about |-> r, mode |-> mode, asks |-> asks]

MCQuestions ==
  (PaymentsApproved :>
     {About(p1, m, "approver") : m \in {"payments", "events", "all"}}
       \cup {About(p1, "events", "live")}) @@
  (InstructionSuspended :>
     {About(i, "instructions", "approver")}) @@
  (PaidAfterwards :> {About(p1, "payments", "through")})

=============================================================================
