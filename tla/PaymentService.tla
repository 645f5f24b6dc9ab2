---------------------------- MODULE PaymentService ----------------------------
(***************************************************************************)
(* payment-service: the lifecycle handlers of service.py, the collection   *)
(* they write without a transaction, and the saga of a payment on a        *)
(* single-use instruction, which instruction-service must mark used first. *)
(*                                                                         *)
(* instruction-service is the ledger it implements (InstructionLedger):    *)
(* payment-service reads the current version of an instruction and asks    *)
(* for a use; everybody else's calls are InstructionMoves.                 *)
(*                                                                         *)
(* A task is one request being served; its phases are                      *)
(*                                                                         *)
(*   create:    authorize [-> use] -> write -> event -> publish            *)
(*   the rest:  fetch -> authorize -> write -> event -> publish            *)
(*   refused:   ... -> event -> publish                                    *)
(***************************************************************************)
EXTENDS PaymentPolicy, Sequences, FiniteSets

CONSTANTS
  Tasks,           \* requests in flight at once
  Instructions,    \* instruction ids
  Terms,           \* line of business, effective date and end of an instruction
  Colleagues,      \* who calls instruction-service directly
  Amounts,         \* amounts of the requested payments
  NoPayment,       \* a payment id without a document
  NoCall,          \* the call of an idle task
  MaxCalls,        \* bound: requests the service accepts in a behaviour
  MaxVersions,     \* bound: versions of an instruction others make
  MaxNow           \* bound: how far the clock runs

ASSUME PaymentAssumption ==
  /\ Terms \in [Instructions -> [lob : Lobs, start : Nat, end : Nat]]
  /\ Colleagues \subseteq Users
  /\ Amounts \subseteq Nat
  /\ MaxCalls \in Nat
  /\ MaxVersions \in Nat
  /\ MaxNow \in Nat

VARIABLES
  payments,        \* the payments collection
  events,          \* documents of payment-service's security_events collection
  nextPayment,     \* sequence-service counter per line of business
  eventTopic,      \* security events published to Kafka
  factTopic,       \* payment facts published to Kafka, in broker order
  pc,              \* phase of each task
  call,            \* local state of each task
  ledger,          \* versions of the instructions
  wire,            \* USE requests that instruction-service has not finished
  uses,            \* uses instruction-service has committed for a payment
  calls,           \* requests accepted so far
  now              \* the clock of the services

topics == <<eventTopic, factTopic>>
instructionSide == <<ledger, wire, uses>>
vars == <<payments, events, nextPayment, topics, pc, call, instructionSide, calls, now>>

\* instruction-service keeps its own log of its calls; payment-service never reads it.
Service == INSTANCE InstructionLedger
             WITH Ids <- Instructions, Unrecorded <- {}, Numbers <- {}, log <- {}

-----------------------------------------------------------------------------
(* Data.                                                                   *)

PaymentIds == Lobs \X (1..MaxCalls)

PaymentStatuses == {"DRAFT", "SUBMITTED", "APPROVED", "REJECTED", "CANCELLED"}

Optional(S) == S \cup {NoUser}

LifecycleEvent == [act : PaymentActions, user : Users]

\* inst, ver, type: the instruction, and its version and status when it was read.
Payment == [id : PaymentIds, inst : Instructions, ver : Nat, type : Active,
            amount : Nat, lob : Lobs, status : PaymentStatuses, createdBy : Users,
            submittedBy : Optional(Users), approvedBy : Optional(Users),
            rejectedBy : Optional(Users), cancelledBy : Optional(Users),
            trail : Seq(LifecycleEvent)]

ASSUME NoPaymentAssumption == NoPayment \notin Payment

\* A security event and its snapshot of the payment; a fact is a successful one.
Event == [act : PaymentActions, user : Users, pay : Payment,
          outcome : {"success", "failure"}]

Fact == [act : PaymentActions, user : Users, pay : Payment]

\* The stored versions of instruction-service.
InstructionStatuses == {t[3] : t \in Service!LifeCycle}

Version == [id : Instructions, ver : Nat, status : InstructionStatuses,
            act : {t[2] : t \in Service!LifeCycle}, user : Users]

\* The instruction has not been read yet.
NotRead == "unread"

\* pay: the copy of the payment the handler works on; status: the instruction's
\* status as it was fetched; denied: the call is refused.
Call == [act : PaymentActions, user : Users, pay : Payment,
         status : InstructionStatuses \cup {NotRead}, denied : BOOLEAN]

Phases == {"idle", "fetch", "authorize", "use", "write", "event", "publish"}

\* from: the status the use handler has read, or NotRead.
UseRequest == [pay : PaymentIds, inst : Instructions, user : Users,
               from : Active \cup {NotRead}]

Use == [pay : PaymentIds, inst : Instructions, ver : Nat]

-----------------------------------------------------------------------------
(* The instruction as payment-service sees it.                             *)

\* The answer of GET /instructions/{id}.
Current(i) == {v \in Service!Of(i) : v.ver = Cardinality(Service!Of(i))}

\* _validate_instruction_at_create, which still lets the very end date pass.
ValidAtCreate(i, v) == v.status \in Active /\ ~(Terms[i].end < now)

\* _check_instruction_validity_for_approval: drift, status, expiry, effective date.  The
\* type of a usable instruction is its status, so the last check adds nothing to drift.
InvalidForApproval(p, v) ==
  \/ v.ver # p.ver
  \/ v.status \notin Active
  \/ Terms[p.inst].end < now
  \/ Terms[p.inst].start > now
  \/ v.status # p.type

-----------------------------------------------------------------------------
(* What a handler does to its copy of the payment.                         *)

NewPayment(id, i, v, amount, user) ==
  [id |-> id, inst |-> i, ver |-> v.ver, type |-> v.status, amount |-> amount,
   lob |-> Terms[i].lob, status |-> "DRAFT", createdBy |-> user,
   submittedBy |-> NoUser, approvedBy |-> NoUser, rejectedBy |-> NoUser,
   cancelledBy |-> NoUser, trail |-> <<[act |-> "CREATE", user |-> user]>>]

\* Mutant of OpenTo: a decision is taken whether or not the payment was submitted.
OpenToAnyDecision(act) ==
  IF act = "SUBMIT" THEN {"DRAFT"} ELSE {"SUBMITTED", "REJECTED", "APPROVED"}

\* The statuses from which a handler goes on; any other is answered with 409.
OpenTo(act) == IF act = "SUBMIT" THEN {"DRAFT"} ELSE {"SUBMITTED"}

\* Mutant of Decided: a submission sets the status of a submitted instruction.
DecidedPending(act, p, user) ==
  IF act = "SUBMIT" THEN [p EXCEPT !.status = "PENDING", !.submittedBy = user]
                    ELSE [p EXCEPT !.status = "CANCELLED", !.cancelledBy = user]

SubmittedBy(p, user) == [p EXCEPT !.status = "SUBMITTED", !.submittedBy = user]
ApprovedBy(p, user)  == [p EXCEPT !.status = "APPROVED", !.approvedBy = user]
RejectedBy(p, user)  == [p EXCEPT !.status = "REJECTED", !.rejectedBy = user]
CancelledBy(p, user) == [p EXCEPT !.status = "CANCELLED", !.cancelledBy = user]

Decided(act, p, user) ==
  CASE act = "SUBMIT"  -> SubmittedBy(p, user)
    [] act = "APPROVE" -> ApprovedBy(p, user)
    [] act = "REJECT"  -> RejectedBy(p, user)
    [] act = "CANCEL"  -> CancelledBy(p, user)

Outcome(act, p, user) ==
  [Decided(act, p, user) EXCEPT !.trail = Append(@, [act |-> act, user |-> user])]

-----------------------------------------------------------------------------
Init ==
  /\ payments = [id \in PaymentIds |-> NoPayment]
  /\ events = {}
  /\ nextPayment = [l \in Lobs |-> 0]
  /\ eventTopic = {}
  /\ factTopic = <<>>
  /\ pc = [t \in Tasks |-> "idle"]
  /\ call = [t \in Tasks |-> NoCall]
  /\ ledger = {}
  /\ wire = {}
  /\ uses = {}
  /\ calls = 0
  /\ now = 0

Goto(t, phase) == pc' = [pc EXCEPT ![t] = phase]

Finish(t) ==
  /\ pc' = [pc EXCEPT ![t] = "idle"]
  /\ call' = [call EXCEPT ![t] = NoCall]

Accept(t, phase, act, user, p, status) ==
  /\ pc[t] = "idle"
  /\ calls < MaxCalls
  /\ calls' = calls + 1
  /\ call' = [call EXCEPT ![t] = [act |-> act, user |-> user, pay |-> p,
                                  status |-> status, denied |-> FALSE]]
  /\ Goto(t, phase)

\* create reads the instruction, checks it and takes a payment id.
BeginCreate(t, user, i, amount) ==
  LET lob == Terms[i].lob
      id  == <<lob, nextPayment[lob] + 1>>
  IN  /\ \E v \in Current(i) :
           /\ ValidAtCreate(i, v)
           /\ Accept(t, "authorize", "CREATE", user, NewPayment(id, i, v, amount, user),
                     v.status)
      /\ nextPayment' = [nextPayment EXCEPT ![lob] = @ + 1]
      /\ UNCHANGED <<payments, events, topics, instructionSide, now>>

\* submit, approve and reject read the payment first.
Begin(t, act, user, id) ==
  /\ payments[id] # NoPayment
  /\ payments[id].status \in OpenTo(act)
  /\ Accept(t, "fetch", act, user, payments[id], NotRead)
  /\ UNCHANGED <<payments, events, nextPayment, topics, instructionSide, now>>

BeginAny(t) ==
  \E user \in Users :
    \/ \E i \in Instructions, amount \in Amounts : BeginCreate(t, user, i, amount)
    \/ \E act \in {"SUBMIT", "APPROVE", "REJECT"}, id \in PaymentIds :
         Begin(t, act, user, id)

\* Then the instruction, whose status is put to the policy.
Fetch(t) ==
  LET c == call[t] IN
  /\ pc[t] = "fetch"
  /\ \E v \in Current(c.pay.inst) :
       /\ ~(c.act = "APPROVE" /\ InvalidForApproval(c.pay, v))
       /\ call' = [call EXCEPT ![t].status = v.status]
  /\ Goto(t, "authorize")
  /\ UNCHANGED <<payments, events, nextPayment, topics, instructionSide, calls, now>>

\* approve cancels the payment when the instruction has become invalid, before and
\* without asking the policy.
FetchInvalid(t) ==
  LET c == call[t] IN
  /\ pc[t] = "fetch" /\ c.act = "APPROVE"
  /\ \E v \in Current(c.pay.inst) : InvalidForApproval(c.pay, v)
  /\ call' = [call EXCEPT ![t].act = "CANCEL",
                          ![t].pay = Outcome("CANCEL", c.pay, c.user)]
  /\ Goto(t, "write")
  /\ UNCHANGED <<payments, events, nextPayment, topics, instructionSide, calls, now>>

-----------------------------------------------------------------------------
(* The policy decision.                                                    *)

Decision(t) ==
  Allowed(call[t].act, call[t].user, call[t].pay, call[t].status,
          Terms[call[t].pay.inst].end, now)

AuthorizeCreate(t) ==
  LET p == call[t].pay IN
  /\ pc[t] = "authorize" /\ call[t].act = "CREATE" /\ Decision(t)
  /\ IF p.type = "SINGLE_USE"
       THEN /\ wire' = wire \cup {[pay |-> p.id, inst |-> p.inst, user |-> call[t].user,
                                   from |-> NotRead]}
            /\ Goto(t, "use")
       ELSE UNCHANGED wire /\ Goto(t, "write")
  /\ UNCHANGED <<payments, events, nextPayment, topics, call, ledger, uses, calls, now>>

AuthorizeDecision(t) ==
  LET c == call[t] IN
  /\ pc[t] = "authorize" /\ c.act # "CREATE" /\ Decision(t)
  /\ call' = [call EXCEPT ![t].pay = Outcome(c.act, c.pay, c.user)]
  /\ Goto(t, "write")
  /\ UNCHANGED <<payments, events, nextPayment, topics, instructionSide, calls, now>>

Refuse(t) ==
  /\ call' = [call EXCEPT ![t].denied = TRUE]
  /\ Goto(t, "event")
  /\ UNCHANGED <<payments, events, nextPayment, topics, instructionSide, calls, now>>

Deny(t) == pc[t] = "authorize" /\ ~Decision(t) /\ Refuse(t)

-----------------------------------------------------------------------------
(* The saga: POST /instructions/{id}/use, with a timeout of ten seconds.   *)

UsedFor(p) == \E u \in uses : u.pay = p.id

\* Mutant of UseAnswered: a timeout is taken for the answer.
UseTimeoutIgnored(t) ==
  /\ pc[t] = "use"
  /\ Goto(t, "write")
  /\ UNCHANGED <<payments, events, nextPayment, topics, call, instructionSide, calls, now>>

UseAnswered(t) ==
  /\ pc[t] = "use"
  /\ UsedFor(call[t].pay)
  /\ Goto(t, "write")
  /\ UNCHANGED <<payments, events, nextPayment, topics, call, instructionSide, calls, now>>

\* 404, 409, any other error, or no answer in time, which says nothing about the use:
\* instruction-service may have committed it, or commit it later.
UseFailed(t) == pc[t] = "use" /\ Refuse(t)

\* instruction-service's handler reads the current version of the instruction ...
UseRead(r) ==
  /\ r.from = NotRead
  /\ now < Terms[r.inst].end
  /\ \E v \in Current(r.inst) :
       /\ v.status \in Active
       /\ wire' = (wire \ {r}) \cup {[r EXCEPT !.from = v.status]}
  /\ UNCHANGED <<payments, events, nextPayment, topics, pc, call, ledger, uses, calls, now>>

\* ... and commits the use of that copy as the next version.
UseCommit(r) ==
  /\ r.from # NotRead
  /\ Service!Extend(r.inst, r.user,
                    <<r.from, "USE", IF r.from = "SINGLE_USE" THEN "USED" ELSE r.from>>)
  /\ wire' = wire \ {r}
  /\ uses' = uses \cup {[pay |-> r.pay, inst |-> r.inst,
                         ver |-> Cardinality(Service!Of(r.inst)) + 1]}
  /\ UNCHANGED <<payments, events, nextPayment, topics, pc, call, calls, now>>

\* It refuses, meets a conflict, fails, or never got the request.
UseDropped(r) ==
  /\ wire' = wire \ {r}
  /\ UNCHANGED <<payments, events, nextPayment, topics, pc, call, ledger, uses, calls, now>>

\* Anybody else changes an instruction.
InstructionMoves ==
  /\ \E i \in Instructions, user \in Colleagues, t \in Service!LifeCycle :
       /\ Cardinality(Service!Of(i)) < MaxVersions
       /\ Service!Extend(i, user, t)
  /\ UNCHANGED <<payments, events, nextPayment, topics, pc, call, wire, uses, calls, now>>

-----------------------------------------------------------------------------
(* The three writes, one after the other.                                  *)

\* Mutant of Write: the event is left to a later call.
WriteUnlogged(t) ==
  /\ pc[t] = "write"
  /\ payments' = [payments EXCEPT ![call[t].pay.id] = call[t].pay]
  /\ Goto(t, "publish")
  /\ UNCHANGED <<events, nextPayment, topics, call, instructionSide, calls, now>>

\* insert_one of a new payment, replace_one by payment_id of a known one.
Write(t) ==
  /\ pc[t] = "write"
  /\ payments' = [payments EXCEPT ![call[t].pay.id] = call[t].pay]
  /\ Goto(t, "event")
  /\ UNCHANGED <<events, nextPayment, topics, call, instructionSide, calls, now>>

SecurityEvent(c) ==
  [act |-> c.act, user |-> c.user, pay |-> c.pay,
   outcome |-> IF c.denied THEN "failure" ELSE "success"]

RecordEvent(t) ==
  /\ pc[t] = "event"
  /\ events' = events \cup {SecurityEvent(call[t])}
  /\ Goto(t, "publish")
  /\ UNCHANGED <<payments, nextPayment, topics, call, instructionSide, calls, now>>

PaymentFact(c) == [act |-> c.act, user |-> c.user, pay |-> c.pay]

\* The event and, for a change, the fact; the producer's errors are swallowed.
Publish(t) ==
  /\ pc[t] = "publish"
  /\ \/ eventTopic' = eventTopic \cup {SecurityEvent(call[t])}
     \/ UNCHANGED eventTopic
  /\ \/ ~call[t].denied /\ factTopic' = Append(factTopic, PaymentFact(call[t]))
     \/ UNCHANGED factTopic
  /\ Finish(t)
  /\ UNCHANGED <<payments, events, nextPayment, instructionSide, calls, now>>

-----------------------------------------------------------------------------
\* A call to another service or to MongoDB fails, or the process stops.  What has been
\* written stays, and a use on its way to instruction-service is not called back.
Interrupt(t) ==
  /\ pc[t] # "idle"
  /\ Finish(t)
  /\ UNCHANGED <<payments, events, nextPayment, topics, instructionSide, calls, now>>

Tick ==
  /\ now < MaxNow
  /\ now' = now + 1
  /\ UNCHANGED <<payments, events, nextPayment, topics, pc, call, instructionSide, calls>>

Step(t) ==
  \/ Fetch(t) \/ FetchInvalid(t)
  \/ AuthorizeCreate(t) \/ AuthorizeDecision(t) \/ Deny(t)
  \/ UseAnswered(t) \/ UseFailed(t)
  \/ Write(t) \/ RecordEvent(t) \/ Publish(t)

Next ==
  \/ \E t \in Tasks : BeginAny(t) \/ Step(t) \/ Interrupt(t)
  \/ \E r \in wire : UseRead(r) \/ UseCommit(r) \/ UseDropped(r)
  \/ InstructionMoves
  \/ Tick

Spec == Init /\ [][Next]_vars

-----------------------------------------------------------------------------
(* Properties.                                                             *)

Stored == {payments[id] : id \in PaymentIds} \ {NoPayment}

\* Every variable keeps its type; a task in a phase has a call to serve.
TypeOK ==
  /\ payments \in [PaymentIds -> Payment \cup {NoPayment}]
  /\ events \subseteq Event
  /\ nextPayment \in [Lobs -> 0..MaxCalls]
  /\ eventTopic \subseteq Event
  /\ factTopic \in Seq(Fact)
  /\ pc \in [Tasks -> Phases]
  /\ DOMAIN call = Tasks
  /\ \A t \in Tasks : pc[t] # "idle" => call[t] \in Call
  /\ ledger \subseteq Version
  /\ wire \subseteq UseRequest
  /\ uses \subseteq Use
  /\ calls \in 0..MaxCalls
  /\ now \in 0..MaxNow

\* The approver of p, if any, is someone else than the creator and does not report to
\* the creator; both are of the middle office, cover the desk and may sign the amount.
FourEyes(p) ==
  p.approvedBy # NoUser =>
    /\ p.approvedBy # p.createdBy
    /\ Staff[p.approvedBy].supervisor # p.createdBy
    /\ \A u \in {p.createdBy, p.approvedBy} :
         InMiddleOffice(u) /\ CoversLob(u, p.lob) /\ WithinAmountLimit(u, p)

\* No stored payment carries an approval without four eyes, whichever of several racing
\* copies was stored last.
PaymentFourEyes == \A p \in Stored : FourEyes(p)

\* Whoever submitted, approved, rejected or cancelled a stored payment agrees with its
\* status and with its lifecycle events: no payment carries two decisions, although
\* the decisions of two racing calls are both accepted.
PaymentProvenance ==
  \A p \in Stored :
    /\ p.trail[1] = [act |-> "CREATE", user |-> p.createdBy]
    /\ (p.status = "DRAFT") <=> (p.submittedBy = NoUser)
    /\ (p.status = "APPROVED") <=> (p.approvedBy # NoUser)
    /\ (p.status = "REJECTED") <=> (p.rejectedBy # NoUser)
    /\ (p.status = "CANCELLED") <=> (p.cancelledBy # NoUser)
    /\ Len(p.trail) = CASE p.status = "DRAFT" -> 1 [] p.status = "SUBMITTED" -> 2
                        [] OTHER -> 3

\* A payment on a single-use instruction is stored only after instruction-service has
\* committed the use of the instruction for this very payment, in a version later than
\* the one the payment names, whatever answers are lost or late.
UsedBeforePaid ==
  \A p \in Stored : p.type = "SINGLE_USE" =>
    \E u \in uses : u.pay = p.id /\ u.inst = p.inst /\ u.ver > p.ver

\* Every published fact is in the log of successful actions with the same content, and
\* every successful action in the log is about a payment that is stored.
FactsAreLogged ==
  /\ \A k \in DOMAIN factTopic :
       LET f == factTopic[k] IN
       [act |-> f.act, user |-> f.user, pay |-> f.pay, outcome |-> "success"] \in events
  /\ \A e \in events : e.outcome = "success" => payments[e.pay.id] # NoPayment

-----------------------------------------------------------------------------
(* What the repository's texts say and the code does not do.               *)

\* service.py:464 and 538: "only SUBMITTED payments can be approved" or rejected.
OnlySubmittedIsDecided ==
  [][\A id \in PaymentIds :
       /\ payments'[id] # payments[id]
       /\ payments'[id].status \in {"APPROVED", "REJECTED"}
       => payments[id].status = "SUBMITTED"]_payments

=============================================================================
