------------------------ MODULE MCInstructionService ------------------------
(***************************************************************************)
(* A small desk for InstructionService: an analyst of the middle office    *)
(* whose supervisor is the desk's managing director, a vice president and  *)
(* the managing director of FICC as approvers, payment-service's account   *)
(* and an account kept out of the security-event log.                      *)
(***************************************************************************)
EXTENDS InstructionRefinement, TLC

CONSTANTS mo, vp, md, svc, etl, t1, t2

Everyone == {mo, vp, md, svc, etl}

Recorded == Everyone \ {etl}

People ==
  (mo  :> [title |-> "Analyst", roles |-> {"INSTRUCTION_CREATOR"},
           groups |-> {"MIDDLE_OFFICE"}, lob |-> NoLob, supervisor |-> md]) @@
  (vp  :> [title |-> "Vice President", roles |-> {"INSTRUCTION_APPROVER"},
           groups |-> {}, lob |-> "FICC", supervisor |-> md]) @@
  (md  :> [title |-> "Managing Director", roles |-> {"INSTRUCTION_APPROVER"},
           groups |-> {}, lob |-> "FICC", supervisor |-> NoUser]) @@
  (svc :> [title |-> "Service Account",
           roles |-> {"INSTRUCTION_VIEWER", "INSTRUCTION_MARKER"},
           groups |-> {}, lob |-> NoLob, supervisor |-> NoUser]) @@
  (etl :> [title |-> "Service Account", roles |-> {"INSTRUCTION_VIEWER"},
           groups |-> {}, lob |-> NoLob, supervisor |-> NoUser])

\* A smaller run leaves people out; whoever reported to them reports to nobody.
MCDirectory ==
  [u \in Users |->
    [People[u] EXCEPT !.supervisor = IF @ \in Users THEN @ ELSE NoUser]]

MCLobs == {"FICC", "FX"}

SingleUse == [type |-> "SINGLE_USE", lob |-> "FICC", accountLob |-> "FICC",
              start |-> 0, end |-> 1]

Standing == [SingleUse EXCEPT !.type = "STANDING"]

\* FX money may not fund a FICC instruction: the policy denies this one.
Mismatched == [type |-> "STANDING", lob |-> "FICC", accountLob |-> "FX",
               start |-> 0, end |-> 2]

MCRequests == {SingleUse, Mismatched}

Symmetry == Permutations(Tasks)

-----------------------------------------------------------------------------
(* A later start: the desk has created, submitted and approved one         *)
(* instruction, and perhaps suspended it, one call after the other, while  *)
(* Kafka was down.  The calls that follow race on it.                      *)

LaterRequests == {SingleUse, Standing}

Steps == <<[act |-> "SUBMIT", user |-> mo], [act |-> "APPROVE", user |-> vp],
           [act |-> "SUSPEND", user |-> md]>>

\* The bodies of the versions after the first k calls of the history.
Histories(req) ==
  LET created == Outcome("CREATE", NewInstruction(req, mo), mo)
      body[k \in 1..4] ==
        IF k = 1 THEN created
                 ELSE Outcome(Steps[k - 1].act, body[k - 1], Steps[k - 1].user)
  IN  body

LaterInit ==
  /\ \E req \in LaterRequests, last \in 3..4 :
       LET body == Histories(req)
           id   == <<"FICC", 1>>
           entry(k) == LastEntry(body[k])
       IN  /\ docs = {[id |-> id, ver |-> k, out |-> k < last, body |-> body[k]] :
                        k \in 1..last}
           /\ events = {[res |-> id, n |-> k, act |-> entry(k).act, user |-> entry(k).user,
                         outcome |-> "success", ver |-> k] : k \in 1..last}
           /\ nextId = [l \in Lobs |-> IF l = "FICC" THEN 1 ELSE 0]
           /\ nextEvent = [i \in Ids |-> IF i = id THEN last ELSE 0]
  /\ pc = [t \in Tasks |-> "idle"]
  /\ call = [t \in Tasks |-> NoCall]
  /\ eventTopic = {}
  /\ factTopic = <<>>
  /\ calls = 4
  /\ now = 0

LaterSpec == LaterInit /\ [][Next]_vars

LaterFairSpec == LaterSpec /\ \A t \in Tasks : WF_vars(Step(t))

=============================================================================
