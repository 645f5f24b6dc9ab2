------------------------ MODULE PaymentService_proofs ------------------------
(***************************************************************************)
(* Theorems about PaymentService, for every staff, every set of tasks and  *)
(* instructions and every bound: type correctness, the four eyes of every  *)
(* stored approval, the agreement of a payment with its trail, the log     *)
(* behind every published fact, and the use behind every payment on a      *)
(* single-use instruction.                                                 *)
(***************************************************************************)
EXTENDS PaymentService, FiniteSetTheorems, TLAPS

-----------------------------------------------------------------------------
(* What the helpers return.                                                *)

LEMMA NewPaymentType ==
  ASSUME NEW id \in PaymentIds, NEW i \in Instructions, NEW v \in Version,
         v.status \in Active, NEW amount \in Amounts, NEW user \in Users
  PROVE  NewPayment(id, i, v, amount, user) \in Payment
<1>1. <<[act |-> "CREATE", user |-> user]>> \in Seq(LifecycleEvent)
  BY DEF LifecycleEvent, PaymentActions
<1>2. Terms[i].lob \in Lobs /\ amount \in Nat /\ v.ver \in Nat
  BY PaymentAssumption DEF Version
<1> QED BY <1>1, <1>2 DEF NewPayment, Payment, PaymentStatuses, Optional

LEMMA DecidedType ==
  ASSUME NEW p \in Payment, NEW act \in PaymentActions \ {"CREATE"}, NEW user \in Users
  PROVE  Decided(act, p, user) \in Payment
<1>1. CASE act = "SUBMIT"
  BY <1>1 DEF Decided, SubmittedBy, Payment, PaymentStatuses, Optional
<1>2. CASE act = "APPROVE"
  BY <1>2 DEF Decided, ApprovedBy, Payment, PaymentStatuses, Optional
<1>3. CASE act = "REJECT"
  BY <1>3 DEF Decided, RejectedBy, Payment, PaymentStatuses, Optional
<1>4. CASE act = "CANCEL"
  BY <1>4 DEF Decided, CancelledBy, Payment, PaymentStatuses, Optional
<1> QED BY <1>1, <1>2, <1>3, <1>4 DEF PaymentActions

LEMMA OutcomeType ==
  ASSUME NEW p \in Payment, NEW act \in PaymentActions \ {"CREATE"}, NEW user \in Users
  PROVE  Outcome(act, p, user) \in Payment
<1> DEFINE e == Decided(act, p, user)
<1>1. e \in Payment
  BY DecidedType
<1>2. [act |-> act, user |-> user] \in LifecycleEvent
  BY DEF LifecycleEvent
<1>3. e.trail \in Seq(LifecycleEvent)
  BY <1>1 DEF Payment
<1> DEFINE s == Append(e.trail, [act |-> act, user |-> user])
<1>4. s \in Seq(LifecycleEvent)
  BY <1>2, <1>3
<1>5. Outcome(act, p, user) = [e EXCEPT !.trail = s]
  BY DEF Outcome
<1> HIDE DEF e, s
<1> QED BY <1>1, <1>4, <1>5 DEF Payment

LEMMA SecurityEventType ==
  ASSUME NEW c \in Call
  PROVE  SecurityEvent(c) \in Event
BY DEF SecurityEvent, Event, Call

LEMMA PaymentFactType ==
  ASSUME NEW c \in Call
  PROVE  PaymentFact(c) \in Fact
BY DEF PaymentFact, Fact, Call

-----------------------------------------------------------------------------
(* The ledger of instruction-service.                                      *)

LEMMA VersionCount ==
  ASSUME IsFiniteSet(ledger), NEW i
  PROVE  Cardinality(Service!Of(i)) \in Nat
<1>1. Service!Of(i) \subseteq ledger
  BY DEF Service!Of
<1> QED BY <1>1, FS_Subset, FS_CardinalityType

\* InstructionLedger counts with the same operator as PaymentService.
LEMMA SameCount == \A S : Service!Cardinality(S) = Cardinality(S)
BY DEF Service!Cardinality, Cardinality

LEMMA ExtendType ==
  ASSUME IsFiniteSet(ledger), ledger \subseteq Version, NEW i \in Instructions,
         NEW user \in Users, NEW t \in Service!LifeCycle,
         Service!Extend(i, user, t)
  PROVE  IsFiniteSet(ledger') /\ ledger' \subseteq Version
<1> DEFINE v == [id |-> i, ver |-> Cardinality(Service!Of(i)) + 1, status |-> t[3],
                 act |-> t[2], user |-> user]
<1>1. ledger' = ledger \cup {v}
  BY SameCount DEF Service!Extend
<1>2. v \in Version
  BY VersionCount DEF Version, InstructionStatuses
<1> HIDE DEF v
<1> QED BY <1>1, <1>2, FS_AddElement

-----------------------------------------------------------------------------
(* Type correctness.  It needs to know that a payment number is taken by   *)
(* an accepted request and that the ledger is finite.                      *)

TypeInv ==
  /\ TypeOK
  /\ IsFiniteSet(ledger)
  /\ \A l \in Lobs : nextPayment[l] <= calls

LEMMA InitTypeInv == Init => TypeInv
BY PaymentAssumption, FS_EmptySet DEF Init, TypeInv, TypeOK, Phases

\* A task that goes to a phase with a well-typed call keeps the types of tasks.
LEMMA MoveType ==
  ASSUME TypeInv, NEW t \in Tasks, NEW phase \in Phases, NEW c \in Call,
         pc' = [pc EXCEPT ![t] = phase],
         call' = [call EXCEPT ![t] = c]
  PROVE  /\ pc' \in [Tasks -> Phases]
         /\ DOMAIN call' = Tasks
         /\ \A u \in Tasks : pc'[u] # "idle" => call'[u] \in Call
BY DEF TypeInv, TypeOK

LEMMA GotoType ==
  ASSUME TypeInv, NEW t \in Tasks, NEW phase \in Phases, pc[t] # "idle",
         Goto(t, phase), UNCHANGED call
  PROVE  /\ pc' \in [Tasks -> Phases]
         /\ DOMAIN call' = Tasks
         /\ \A u \in Tasks : pc'[u] # "idle" => call'[u] \in Call
BY DEF TypeInv, TypeOK, Goto

LEMMA FinishType ==
  ASSUME TypeInv, NEW t \in Tasks, Finish(t)
  PROVE  /\ pc' \in [Tasks -> Phases]
         /\ DOMAIN call' = Tasks
         /\ \A u \in Tasks : pc'[u] # "idle" => call'[u] \in Call
BY DEF TypeInv, TypeOK, Finish, Phases

LEMMA AcceptType ==
  ASSUME TypeInv, NEW t \in Tasks, NEW phase \in Phases, NEW act \in PaymentActions,
         NEW user \in Users, NEW p \in Payment,
         NEW status \in InstructionStatuses \cup {NotRead},
         Accept(t, phase, act, user, p, status)
  PROVE  /\ pc' \in [Tasks -> Phases]
         /\ DOMAIN call' = Tasks
         /\ \A u \in Tasks : pc'[u] # "idle" => call'[u] \in Call
         /\ calls' \in 0..MaxCalls /\ calls' = calls + 1 /\ calls < MaxCalls
<1> DEFINE c == [act |-> act, user |-> user, pay |-> p, status |-> status,
                 denied |-> FALSE]
<1>1. c \in Call
  BY DEF Call
<1>2. pc' = [pc EXCEPT ![t] = phase] /\ call' = [call EXCEPT ![t] = c]
  BY DEF Accept, Goto
<1>3. calls' \in 0..MaxCalls /\ calls' = calls + 1 /\ calls < MaxCalls
  BY PaymentAssumption DEF Accept, TypeInv, TypeOK
<1> HIDE DEF c
<1> QED BY <1>1, <1>2, <1>3, MoveType

LEMMA BeginCreateType ==
  ASSUME TypeInv, NEW t \in Tasks, NEW user \in Users, NEW i \in Instructions,
         NEW amount \in Amounts, BeginCreate(t, user, i, amount)
  PROVE  TypeInv'
<1> DEFINE lob == Terms[i].lob
           id  == <<lob, nextPayment[lob] + 1>>
<1>1. PICK v \in Current(i) :
        /\ ValidAtCreate(i, v)
        /\ Accept(t, "authorize", "CREATE", user, NewPayment(id, i, v, amount, user),
                  v.status)
  BY DEF BeginCreate
<1>2. /\ nextPayment' = [nextPayment EXCEPT ![lob] = @ + 1]
      /\ UNCHANGED <<payments, events, topics, instructionSide, now>>
  BY DEF BeginCreate
<1>3. lob \in Lobs
  BY PaymentAssumption
<1>4. calls < MaxCalls /\ calls \in 0..MaxCalls /\ MaxCalls \in Nat
  BY <1>1, PaymentAssumption DEF Accept, TypeInv, TypeOK
<1>5. nextPayment \in [Lobs -> 0..MaxCalls] /\ \A l \in Lobs : nextPayment[l] <= calls
  BY DEF TypeInv, TypeOK
<1>6. id \in PaymentIds
  BY <1>3, <1>4, <1>5 DEF PaymentIds
<1>7. v \in Version /\ v.status \in Active
  BY <1>1 DEF Current, Service!Of, TypeInv, TypeOK, ValidAtCreate
<1> HIDE DEF id, lob
<1>8. NewPayment(id, i, v, amount, user) \in Payment
  BY <1>6, <1>7, NewPaymentType
<1>9. v.status \in InstructionStatuses
  BY <1>7 DEF Version
<1>10. /\ pc' \in [Tasks -> Phases]
       /\ DOMAIN call' = Tasks
       /\ \A u \in Tasks : pc'[u] # "idle" => call'[u] \in Call
       /\ calls' \in 0..MaxCalls /\ calls' = calls + 1
  BY <1>1, <1>8, <1>9, AcceptType DEF Phases, PaymentActions
<1>11. /\ nextPayment' \in [Lobs -> 0..MaxCalls]
       /\ \A l \in Lobs : nextPayment'[l] <= calls'
  BY <1>2, <1>3, <1>4, <1>5, <1>10
<1> QED BY <1>2, <1>10, <1>11 DEF TypeInv, TypeOK, topics, instructionSide

LEMMA BeginType ==
  ASSUME TypeInv, NEW t \in Tasks, NEW user \in Users, NEW act \in PaymentActions,
         NEW id \in PaymentIds, Begin(t, act, user, id)
  PROVE  TypeInv'
<1>1. payments[id] \in Payment
  BY DEF Begin, TypeInv, TypeOK
<1>2. /\ Accept(t, "fetch", act, user, payments[id], NotRead)
      /\ UNCHANGED <<payments, events, nextPayment, topics, instructionSide, now>>
  BY DEF Begin
<1>3. /\ pc' \in [Tasks -> Phases]
      /\ DOMAIN call' = Tasks
      /\ \A u \in Tasks : pc'[u] # "idle" => call'[u] \in Call
      /\ calls' \in 0..MaxCalls /\ calls' = calls + 1
  <2>1. "fetch" \in Phases
    BY DEF Phases
  <2> QED BY <1>1, <1>2, <2>1, AcceptType
<1>4. \A l \in Lobs : nextPayment'[l] <= calls'
  BY <1>2, <1>3 DEF TypeInv, TypeOK
<1> QED BY <1>2, <1>3, <1>4 DEF TypeInv, TypeOK, topics, instructionSide

LEMMA BeginAnyType ==
  ASSUME TypeInv, NEW t \in Tasks, BeginAny(t)
  PROVE  TypeInv'
<1>1. PICK user \in Users :
        \/ \E i \in Instructions, amount \in Amounts : BeginCreate(t, user, i, amount)
        \/ \E act \in {"SUBMIT", "APPROVE", "REJECT"}, id \in PaymentIds :
             Begin(t, act, user, id)
  BY DEF BeginAny
<1>2. CASE \E i \in Instructions, amount \in Amounts : BeginCreate(t, user, i, amount)
  BY <1>2, BeginCreateType
<1>3. CASE \E act \in {"SUBMIT", "APPROVE", "REJECT"}, id \in PaymentIds :
             Begin(t, act, user, id)
  BY <1>3, BeginType DEF PaymentActions
<1> QED BY <1>1, <1>2, <1>3


LEMMA StepTypeInv ==
  ASSUME TypeInv, NEW t \in Tasks, Step(t)
  PROVE  TypeInv'
<1> DEFINE Kept == /\ pc' \in [Tasks -> Phases]
                   /\ DOMAIN call' = Tasks
                   /\ \A u \in Tasks : pc'[u] # "idle" => call'[u] \in Call
<1>a. pc[t] # "idle" => call[t] \in Call
  BY DEF TypeInv, TypeOK
<1>1. CASE Fetch(t)
  <2>1. PICK v \in Current(call[t].pay.inst) :
          call' = [call EXCEPT ![t].status = v.status]
    BY <1>1 DEF Fetch
  <2>2. v \in Version
    BY DEF Current, Service!Of, TypeInv, TypeOK
  <2> DEFINE n == [call[t] EXCEPT !.status = v.status]
  <2>3. call[t] \in Call
    BY <1>1, <1>a DEF Fetch
  <2>4. n \in Call
    BY <2>2, <2>3 DEF Call, Version
  <2>5. call' = [call EXCEPT ![t] = n] /\ pc' = [pc EXCEPT ![t] = "authorize"]
    BY <1>1, <2>1 DEF Fetch, Goto, TypeInv, TypeOK
  <2> HIDE DEF n
  <2>6. Kept
    BY <2>4, <2>5, MoveType DEF Phases
  <2> QED BY <1>1, <2>6 DEF Fetch, TypeInv, TypeOK, topics, instructionSide
<1>9. CASE FetchInvalid(t)
  <2> DEFINE o == Outcome("CANCEL", call[t].pay, call[t].user)
             n == [call[t] EXCEPT !.act = "CANCEL", !.pay = o]
  <2>1. call[t] \in Call
    BY <1>9, <1>a DEF FetchInvalid
  <2>2. o \in Payment
    BY <2>1, OutcomeType DEF Call, PaymentActions
  <2>3. call' = [call EXCEPT ![t] = n] /\ pc' = [pc EXCEPT ![t] = "write"]
    BY <1>9 DEF FetchInvalid, Goto, TypeInv, TypeOK
  <2> HIDE DEF o
  <2>4. n \in Call
    BY <2>1, <2>2 DEF Call, PaymentActions
  <2> HIDE DEF n
  <2>5. Kept
    BY <2>3, <2>4, MoveType DEF Phases
  <2> QED BY <1>9, <2>5 DEF FetchInvalid, TypeInv, TypeOK, topics, instructionSide
<1>2. CASE AuthorizeCreate(t)
  <2>1. call[t] \in Call
    BY <1>2, <1>a DEF AuthorizeCreate
  <2>2. wire' \subseteq UseRequest
    BY <1>2, <2>1 DEF AuthorizeCreate, TypeInv, TypeOK, UseRequest, Call, Payment, NotRead
  <2>3. Kept
    BY <1>2, GotoType DEF AuthorizeCreate, Phases
  <2> QED BY <1>2, <2>2, <2>3 DEF AuthorizeCreate, TypeInv, TypeOK, topics
<1>3. CASE AuthorizeDecision(t)
  <2> DEFINE o == Outcome(call[t].act, call[t].pay, call[t].user)
             n == [call[t] EXCEPT !.pay = o]
  <2>1. call[t] \in Call /\ call[t].act # "CREATE"
    BY <1>3, <1>a DEF AuthorizeDecision
  <2>2. o \in Payment
    BY <2>1, OutcomeType DEF Call
  <2>3. call' = [call EXCEPT ![t] = n] /\ pc' = [pc EXCEPT ![t] = "write"]
    BY <1>3 DEF AuthorizeDecision, Goto, TypeInv, TypeOK
  <2> HIDE DEF o
  <2>4. n \in Call
    BY <2>1, <2>2 DEF Call
  <2> HIDE DEF n
  <2>5. Kept
    BY <2>3, <2>4, MoveType DEF Phases
  <2> QED BY <1>3, <2>5 DEF AuthorizeDecision, TypeInv, TypeOK, topics, instructionSide
<1>4. CASE Deny(t) \/ UseFailed(t)
  <2> DEFINE n == [call[t] EXCEPT !.denied = TRUE]
  <2>1. n \in Call
    BY <1>4, <1>a DEF Deny, UseFailed, Call
  <2>2. call' = [call EXCEPT ![t] = n] /\ pc' = [pc EXCEPT ![t] = "event"]
    BY <1>4 DEF Deny, UseFailed, Refuse, Goto, TypeInv, TypeOK
  <2> HIDE DEF n
  <2>3. Kept
    BY <2>1, <2>2, MoveType DEF Phases
  <2> QED BY <1>4, <2>3 DEF Deny, UseFailed, Refuse, TypeInv, TypeOK, topics,
                            instructionSide
<1>5. CASE UseAnswered(t)
  <2>1. Kept
    BY <1>5, GotoType DEF UseAnswered, Phases
  <2> QED BY <1>5, <2>1 DEF UseAnswered, TypeInv, TypeOK, topics, instructionSide
<1>6. CASE Write(t)
  <2>1. call[t] \in Call
    BY <1>6, <1>a DEF Write
  <2>2. payments' \in [PaymentIds -> Payment \cup {NoPayment}]
    BY <1>6, <2>1 DEF Write, TypeInv, TypeOK, Call
  <2>3. Kept
    BY <1>6, GotoType DEF Write, Phases
  <2> QED BY <1>6, <2>2, <2>3 DEF Write, TypeInv, TypeOK, topics, instructionSide
<1>7. CASE RecordEvent(t)
  <2>1. SecurityEvent(call[t]) \in Event
    BY <1>7, <1>a, SecurityEventType DEF RecordEvent
  <2>2. Kept
    BY <1>7, GotoType DEF RecordEvent, Phases
  <2> QED BY <1>7, <2>1, <2>2 DEF RecordEvent, TypeInv, TypeOK, topics, instructionSide
<1>8. CASE Publish(t)
  <2>1. SecurityEvent(call[t]) \in Event /\ PaymentFact(call[t]) \in Fact
    BY <1>8, <1>a, SecurityEventType, PaymentFactType DEF Publish
  <2>2. eventTopic' \subseteq Event
    BY <1>8, <2>1 DEF Publish, TypeInv, TypeOK
  <2>3. factTopic' \in Seq(Fact)
    BY <1>8, <2>1 DEF Publish, TypeInv, TypeOK
  <2>4. Kept
    BY <1>8, FinishType DEF Publish
  <2> QED BY <1>8, <2>2, <2>3, <2>4 DEF Publish, TypeInv, TypeOK, instructionSide
<1> QED BY <1>1, <1>2, <1>3, <1>4, <1>5, <1>6, <1>7, <1>8, <1>9 DEF Step

\* The steps of instruction-service.
LEMMA ServiceTypeInv ==
  ASSUME TypeInv,
         \/ \E r \in wire : UseRead(r) \/ UseCommit(r) \/ UseDropped(r)
         \/ InstructionMoves
  PROVE  TypeInv'
<1>1. ASSUME NEW r \in wire, UseRead(r) PROVE TypeInv'
  <2>1. wire' \subseteq UseRequest
    BY <1>1 DEF UseRead, TypeInv, TypeOK, UseRequest
  <2> QED BY <1>1, <2>1 DEF UseRead, TypeInv, TypeOK, topics
<1>2. ASSUME NEW r \in wire, UseCommit(r) PROVE TypeInv'
  <2> DEFINE x == <<r.from, "USE", IF r.from = "SINGLE_USE" THEN "USED" ELSE r.from>>
  <2>1. r \in UseRequest /\ r.from \in Active
    BY <1>2 DEF UseCommit, TypeInv, TypeOK, UseRequest
  <2>2. x \in Service!LifeCycle
    BY <2>1 DEF Active, Service!LifeCycle
  <2>3. Service!Extend(r.inst, r.user, x)
    BY <1>2 DEF UseCommit
  <2> HIDE DEF x
  <2>4. IsFiniteSet(ledger') /\ ledger' \subseteq Version
    BY <2>1, <2>2, <2>3, ExtendType DEF TypeInv, TypeOK, UseRequest
  <2>5. Cardinality(Service!Of(r.inst)) \in Nat
    BY VersionCount DEF TypeInv
  <2>6. uses' \subseteq Use
    BY <1>2, <2>1, <2>5 DEF UseCommit, TypeInv, TypeOK, Use, UseRequest
  <2> QED BY <1>2, <2>4, <2>6 DEF UseCommit, TypeInv, TypeOK, topics
<1>3. ASSUME NEW r \in wire, UseDropped(r) PROVE TypeInv'
  BY <1>3 DEF UseDropped, TypeInv, TypeOK, topics
<1>4. CASE InstructionMoves
  <2>1. PICK i \in Instructions, user \in Colleagues, x \in Service!LifeCycle :
          Service!Extend(i, user, x)
    BY <1>4 DEF InstructionMoves
  <2>2. IsFiniteSet(ledger') /\ ledger' \subseteq Version
    BY <2>1, ExtendType, PaymentAssumption DEF TypeInv, TypeOK
  <2> QED BY <1>4, <2>2 DEF InstructionMoves, TypeInv, TypeOK, topics
<1> QED BY <1>1, <1>2, <1>3, <1>4

LEMMA NextTypeInv == TypeInv /\ [Next]_vars => TypeInv'
<1> SUFFICES ASSUME TypeInv, [Next]_vars PROVE TypeInv'
  OBVIOUS
<1>1. ASSUME NEW t \in Tasks, BeginAny(t) PROVE TypeInv'
  BY <1>1, BeginAnyType
<1>2. ASSUME NEW t \in Tasks, Step(t) PROVE TypeInv'
  BY <1>2, StepTypeInv
<1>3. ASSUME NEW t \in Tasks, Interrupt(t) PROVE TypeInv'
  BY <1>3, FinishType DEF Interrupt, TypeInv, TypeOK, topics, instructionSide
<1>4. CASE Tick
  <2>1. now' \in 0..MaxNow
    BY <1>4, PaymentAssumption DEF Tick, TypeInv, TypeOK
  <2> QED BY <1>4, <2>1 DEF Tick, TypeInv, TypeOK, topics, instructionSide
<1>5. CASE UNCHANGED vars
  BY <1>5 DEF vars, TypeInv, TypeOK, topics, instructionSide
<1> QED BY <1>1, <1>2, <1>3, <1>4, <1>5, ServiceTypeInv DEF Next

\* Every reachable state of payment-service is well typed: every stored, logged,
\* published or carried payment has the fields of a payment.
THEOREM PaymentTypeCorrect == Spec => []TypeOK
<1>1. Init => TypeInv
  BY InitTypeInv
<1>2. TypeInv /\ [Next]_vars => TypeInv'
  BY NextTypeInv
<1>3. TypeInv => TypeOK
  BY DEF TypeInv
<1> QED BY <1>1, <1>2, <1>3, PTL DEF Spec

-----------------------------------------------------------------------------
(* Four eyes.  A stored payment is a copy some handler carried, so the     *)
(* copies that may still be stored have to satisfy it too; an approval is  *)
(* added by a policy decision on that very copy, whose creator and line of *)
(* business no handler changes; and the creator of a copy was vetted when  *)
(* it was authorized, before it was stored or a use was asked for.         *)

Vetted(p) ==
  InMiddleOffice(p.createdBy) /\ CoversLob(p.createdBy, p.lob)
    /\ WithinAmountLimit(p.createdBy, p)

Sound(p) == Vetted(p) /\ FourEyes(p)

Creating(t) == pc[t] = "authorize" /\ call[t].act = "CREATE"

\* The handler may still store its copy, without another decision on its creator.
MayStore(t) ==
  \/ pc[t] \in {"fetch", "use", "write"}
  \/ pc[t] = "authorize" /\ call[t].act # "CREATE"

StoredSound == \A id \in PaymentIds : payments[id] # NoPayment => Sound(payments[id])

CarriedSound ==
  \A t \in Tasks :
    /\ MayStore(t) => Sound(call[t].pay)
    /\ Creating(t) => /\ call[t].user = call[t].pay.createdBy
                      /\ call[t].pay.approvedBy = NoUser
    /\ pc[t] = "fetch" => call[t].act # "CREATE"

EyesInv == TypeInv /\ StoredSound /\ CarriedSound

\* A decision changes nothing the policy has judged the creator by, and only an approval
\* names an approver.
LEMMA OutcomeKeeps ==
  ASSUME NEW p \in Payment, NEW act \in PaymentActions \ {"CREATE"}, NEW user \in Users
  PROVE  /\ Outcome(act, p, user).createdBy = p.createdBy
         /\ Outcome(act, p, user).lob = p.lob
         /\ Outcome(act, p, user).amount = p.amount
         /\ Outcome(act, p, user).approvedBy =
              (IF act = "APPROVE" THEN user ELSE p.approvedBy)
<1> DEFINE e == Decided(act, p, user)
           s == Append(e.trail, [act |-> act, user |-> user])
<1>1. e \in Payment
  BY DecidedType
<1>2. /\ e.createdBy = p.createdBy /\ e.lob = p.lob /\ e.amount = p.amount
      /\ e.approvedBy = (IF act = "APPROVE" THEN user ELSE p.approvedBy)
  <2>1. CASE act = "SUBMIT"
    BY <2>1 DEF Decided, SubmittedBy, Payment
  <2>2. CASE act = "APPROVE"
    BY <2>2 DEF Decided, ApprovedBy, Payment
  <2>3. CASE act = "REJECT"
    BY <2>3 DEF Decided, RejectedBy, Payment
  <2>4. CASE act = "CANCEL"
    BY <2>4 DEF Decided, CancelledBy, Payment
  <2> QED BY <2>1, <2>2, <2>3, <2>4 DEF PaymentActions
<1>3. Outcome(act, p, user) = [e EXCEPT !.trail = s]
  BY DEF Outcome
<1> HIDE DEF e, s
<1> QED BY <1>1, <1>2, <1>3 DEF Payment

LEMMA OutcomeSound ==
  ASSUME NEW p \in Payment, NEW act \in PaymentActions \ {"CREATE"}, NEW user \in Users,
         Sound(p),
         act = "APPROVE" =>
           /\ user # p.createdBy /\ Staff[user].supervisor # p.createdBy
           /\ InMiddleOffice(user) /\ CoversLob(user, p.lob) /\ WithinAmountLimit(user, p)
  PROVE  Sound(Outcome(act, p, user))
<1> DEFINE q == Outcome(act, p, user)
<1>1. /\ q.createdBy = p.createdBy /\ q.lob = p.lob /\ q.amount = p.amount
      /\ q.approvedBy = (IF act = "APPROVE" THEN user ELSE p.approvedBy)
  BY OutcomeKeeps
<1> HIDE DEF q
<1>2. \A u : WithinAmountLimit(u, q) <=> WithinAmountLimit(u, p)
  BY <1>1 DEF WithinAmountLimit
<1>3. Vetted(q)
  BY <1>1, <1>2 DEF Sound, Vetted
<1> DEFINE Signs(u) == /\ InMiddleOffice(u)
                       /\ CoversLob(u, p.lob)
                       /\ WithinAmountLimit(u, p)
<1>4. ASSUME q.approvedBy # NoUser
      PROVE  /\ q.approvedBy # p.createdBy
             /\ Staff[q.approvedBy].supervisor # p.createdBy
             /\ Signs(q.approvedBy)
  <2>1. CASE act = "APPROVE"
    BY <1>1, <2>1
  <2>2. CASE act # "APPROVE"
    <3>1. q.approvedBy = p.approvedBy
      BY <1>1, <2>2
    <3> QED BY <1>4, <3>1 DEF Sound, FourEyes
  <2> QED BY <2>1, <2>2
<1>5. Signs(p.createdBy)
  BY DEF Sound, Vetted
<1>6. FourEyes(q)
  <2> HIDE DEF Signs
  <2>1. \A u : Signs(u) => InMiddleOffice(u) /\ CoversLob(u, q.lob) /\ WithinAmountLimit(u, q)
    BY <1>1, <1>2 DEF Signs
  <2> QED BY <1>1, <1>4, <1>5, <2>1 DEF FourEyes
<1> QED BY <1>3, <1>6 DEF Sound, q

LEMMA InitEyesInv == Init => EyesInv
BY InitTypeInv DEF Init, EyesInv, StoredSound, CarriedSound, MayStore, Creating

LEMMA BeginEyesInv ==
  ASSUME EyesInv, NEW t \in Tasks, BeginAny(t)
  PROVE  StoredSound' /\ CarriedSound'
<1> USE DEF EyesInv
<1>1. ASSUME NEW user \in Users, NEW i \in Instructions, NEW amount \in Amounts,
             BeginCreate(t, user, i, amount)
      PROVE  StoredSound' /\ CarriedSound'
  <2> DEFINE id == <<Terms[i].lob, nextPayment[Terms[i].lob] + 1>>
  <2>1. PICK v \in Current(i) :
          Accept(t, "authorize", "CREATE", user, NewPayment(id, i, v, amount, user),
                 v.status)
    BY <1>1 DEF BeginCreate
  <2> DEFINE p == NewPayment(id, i, v, amount, user)
  <2>2. p.createdBy = user /\ p.approvedBy = NoUser
    BY DEF NewPayment
  <2> HIDE DEF id, p
  <2>3. /\ call' = [call EXCEPT ![t] = [act |-> "CREATE", user |-> user, pay |-> p,
                                        status |-> v.status, denied |-> FALSE]]
        /\ pc' = [pc EXCEPT ![t] = "authorize"]
    BY <2>1 DEF Accept, Goto, p
  <2>4. CarriedSound'
    BY <2>2, <2>3 DEF CarriedSound, MayStore, Creating, TypeInv, TypeOK
  <2>5. StoredSound'
    BY <1>1 DEF BeginCreate, StoredSound
  <2> QED BY <2>4, <2>5
<1>2. ASSUME NEW user \in Users, NEW act \in {"SUBMIT", "APPROVE", "REJECT"},
             NEW id \in PaymentIds, Begin(t, act, user, id)
      PROVE  StoredSound' /\ CarriedSound'
  <2>1. /\ call' = [call EXCEPT ![t] = [act |-> act, user |-> user, pay |-> payments[id],
                                        status |-> NotRead, denied |-> FALSE]]
        /\ pc' = [pc EXCEPT ![t] = "fetch"]
    BY <1>2 DEF Begin, Accept, Goto
  <2>2. Sound(payments[id])
    BY <1>2 DEF Begin, StoredSound
  <2>3. CarriedSound'
    BY <2>1, <2>2 DEF CarriedSound, MayStore, Creating, TypeInv, TypeOK
  <2>4. StoredSound'
    BY <1>2 DEF Begin, StoredSound
  <2> QED BY <2>3, <2>4
<1> QED BY <1>1, <1>2 DEF BeginAny

LEMMA StepEyesInv ==
  ASSUME EyesInv, NEW t \in Tasks, Step(t)
  PROVE  StoredSound' /\ CarriedSound'
<1> USE DEF EyesInv
<1>a. pc[t] # "idle" => call[t] \in Call
  BY DEF TypeInv, TypeOK
<1>1. CASE Fetch(t)
  <2>1. call[t] \in Call /\ call[t].act # "CREATE" /\ Sound(call[t].pay)
    BY <1>1, <1>a DEF Fetch, CarriedSound, MayStore
  <2>2. PICK v \in Current(call[t].pay.inst) :
          call' = [call EXCEPT ![t].status = v.status]
    BY <1>1 DEF Fetch
  <2>3. /\ call'[t].pay = call[t].pay /\ call'[t].act = call[t].act
        /\ pc'[t] = "authorize"
        /\ \A u \in Tasks \ {t} : call'[u] = call[u] /\ pc'[u] = pc[u]
    BY <1>1, <2>1, <2>2 DEF Fetch, Goto, Call, TypeInv, TypeOK
  <2>4. CarriedSound'
    BY <2>1, <2>3 DEF CarriedSound, MayStore, Creating
  <2> QED BY <1>1, <2>4 DEF Fetch, StoredSound
<1>9. CASE FetchInvalid(t)
  <2>1. call[t] \in Call /\ Sound(call[t].pay)
    BY <1>9, <1>a DEF FetchInvalid, CarriedSound, MayStore
  <2> DEFINE o == Outcome("CANCEL", call[t].pay, call[t].user)
  <2>2. Sound(o)
    BY <2>1, OutcomeSound DEF Call, PaymentActions
  <2> HIDE DEF o
  <2>3. call' = [call EXCEPT ![t].act = "CANCEL", ![t].pay = o]
    BY <1>9 DEF FetchInvalid, o
  <2>4. /\ call'[t].pay = o /\ pc'[t] = "write"
        /\ \A u \in Tasks \ {t} : call'[u] = call[u] /\ pc'[u] = pc[u]
    BY <1>9, <2>1, <2>3 DEF FetchInvalid, Goto, Call, TypeInv, TypeOK
  <2>5. CarriedSound'
    BY <2>2, <2>4 DEF CarriedSound, MayStore, Creating
  <2> QED BY <1>9, <2>5 DEF FetchInvalid, StoredSound
<1>2. CASE AuthorizeCreate(t)
  <2>1. call[t] \in Call /\ Creating(t)
    BY <1>2, <1>a DEF AuthorizeCreate, Creating
  <2>2. /\ call[t].user = call[t].pay.createdBy
        /\ call[t].pay.approvedBy = NoUser
    BY <2>1 DEF CarriedSound
  <2>3. Vetted(call[t].pay)
    BY <1>2, <2>2 DEF AuthorizeCreate, Decision, Allowed, AllowCreate, Desk, Vetted
  <2>4. Sound(call[t].pay)
    BY <2>2, <2>3 DEF Sound, FourEyes
  <2>5. CarriedSound'
    BY <1>2, <2>4 DEF AuthorizeCreate, Goto, CarriedSound, MayStore, Creating, TypeInv, TypeOK
  <2> QED BY <1>2, <2>5 DEF AuthorizeCreate, StoredSound
<1>3. CASE AuthorizeDecision(t)
  <2>1. call[t] \in Call /\ call[t].act # "CREATE" /\ Sound(call[t].pay)
    BY <1>3, <1>a DEF AuthorizeDecision, CarriedSound, MayStore
  <2>2. call[t].act = "APPROVE" =>
          AllowApprove(call[t].user, call[t].pay, call[t].status,
                       Terms[call[t].pay.inst].end, now)
    BY <1>3 DEF AuthorizeDecision, Decision, Allowed
  <2> DEFINE o == Outcome(call[t].act, call[t].pay, call[t].user)
  <2>3. Sound(o)
    <3>1. call[t].act = "APPROVE" =>
            /\ call[t].user # call[t].pay.createdBy
            /\ Staff[call[t].user].supervisor # call[t].pay.createdBy
            /\ InMiddleOffice(call[t].user)
            /\ CoversLob(call[t].user, call[t].pay.lob)
            /\ WithinAmountLimit(call[t].user, call[t].pay)
      BY <2>2 DEF AllowApprove, Desk, PaymentCreatorIsNotApprover,
                  PaymentApproverNotSubordinateOfCreator
    <3> QED BY <2>1, <3>1, OutcomeSound DEF Call
  <2>4. call' = [call EXCEPT ![t].pay = o] /\ pc' = [pc EXCEPT ![t] = "write"]
    BY <1>3 DEF AuthorizeDecision, Goto
  <2> HIDE DEF o
  <2>5. call'[t].pay = o
    BY <2>1, <2>4 DEF Call, TypeInv, TypeOK
  <2>6. \A u \in Tasks \ {t} : call'[u] = call[u] /\ pc'[u] = pc[u]
    BY <2>4 DEF TypeInv, TypeOK
  <2>7. pc'[t] = "write"
    BY <2>4 DEF TypeInv, TypeOK
  <2>8. CarriedSound'
    BY <2>3, <2>5, <2>6, <2>7 DEF CarriedSound, MayStore, Creating
  <2> QED BY <1>3, <2>8 DEF AuthorizeDecision, StoredSound
<1>4. CASE Deny(t) \/ UseFailed(t)
  <2>1. /\ \A u \in Tasks \ {t} : call'[u] = call[u] /\ pc'[u] = pc[u]
        /\ pc'[t] = "event"
    BY <1>4 DEF Deny, UseFailed, Refuse, Goto, TypeInv, TypeOK
  <2>2. CarriedSound'
    BY <2>1 DEF CarriedSound, MayStore, Creating
  <2> QED BY <1>4, <2>2 DEF Deny, UseFailed, Refuse, StoredSound
<1>5. CASE UseAnswered(t)
  <2>1. CarriedSound'
    BY <1>5 DEF UseAnswered, Goto, CarriedSound, MayStore, Creating, TypeInv, TypeOK
  <2> QED BY <1>5, <2>1 DEF UseAnswered, StoredSound
<1>6. CASE Write(t)
  <2>1. CarriedSound'
    BY <1>6 DEF Write, Goto, CarriedSound, MayStore, Creating, TypeInv, TypeOK
  <2>2. Sound(call[t].pay)
    BY <1>6 DEF Write, CarriedSound, MayStore
  <2>3. StoredSound'
    BY <1>6, <2>2 DEF Write, StoredSound, TypeInv, TypeOK
  <2> QED BY <2>1, <2>3
<1>7. CASE RecordEvent(t)
  <2>1. CarriedSound'
    BY <1>7 DEF RecordEvent, Goto, CarriedSound, MayStore, Creating, TypeInv, TypeOK
  <2> QED BY <1>7, <2>1 DEF RecordEvent, StoredSound
<1>8. CASE Publish(t)
  <2>1. CarriedSound'
    BY <1>8 DEF Publish, Finish, CarriedSound, MayStore, Creating, TypeInv, TypeOK
  <2> QED BY <1>8, <2>1 DEF Publish, StoredSound
<1> QED BY <1>1, <1>2, <1>3, <1>4, <1>5, <1>6, <1>7, <1>8, <1>9 DEF Step

LEMMA NextEyesInv == EyesInv /\ [Next]_vars => EyesInv'
<1> SUFFICES ASSUME EyesInv, [Next]_vars PROVE StoredSound' /\ CarriedSound'
  BY NextTypeInv DEF EyesInv
<1> USE DEF EyesInv
<1>1. ASSUME NEW t \in Tasks, BeginAny(t) PROVE StoredSound' /\ CarriedSound'
  BY <1>1, BeginEyesInv
<1>2. ASSUME NEW t \in Tasks, Step(t) PROVE StoredSound' /\ CarriedSound'
  BY <1>2, StepEyesInv
<1>3. ASSUME NEW t \in Tasks, Interrupt(t) PROVE StoredSound' /\ CarriedSound'
  BY <1>3 DEF Interrupt, Finish, StoredSound, CarriedSound, MayStore, Creating, TypeInv, TypeOK
<1>4. CASE UNCHANGED <<payments, pc, call>>
  BY <1>4 DEF StoredSound, CarriedSound, MayStore, Creating
<1>5. CASE \E r \in wire : UseRead(r) \/ UseCommit(r) \/ UseDropped(r)
  BY <1>4, <1>5 DEF UseRead, UseCommit, UseDropped
<1>6. CASE InstructionMoves \/ Tick
  BY <1>4, <1>6 DEF InstructionMoves, Tick
<1>7. CASE UNCHANGED vars
  BY <1>4, <1>7 DEF vars
<1> QED BY <1>1, <1>2, <1>3, <1>5, <1>6, <1>7 DEF Next

\* No stored payment carries an approval without four eyes: whichever of several racing
\* copies was stored last, its approver is not its creator, does not report to the
\* creator, and both may sign the amount for the desk.
THEOREM PaymentApprovalCorrect == Spec => []PaymentFourEyes
<1>1. Init => EyesInv
  BY InitEyesInv
<1>2. EyesInv /\ [Next]_vars => EyesInv'
  BY NextEyesInv
<1>3. EyesInv => PaymentFourEyes
  BY DEF EyesInv, StoredSound, Sound, PaymentFourEyes, Stored
<1> QED BY <1>1, <1>2, <1>3, PTL DEF Spec

-----------------------------------------------------------------------------
(* The step of a task: its new phase and call; the other tasks stay.       *)

Takes(t, phase, c) ==
  /\ pc'[t] = phase /\ call'[t] = c
  /\ \A u \in Tasks \ {t} : pc'[u] = pc[u] /\ call'[u] = call[u]

LEMMA MoveTakes ==
  ASSUME TypeInv, NEW t \in Tasks, NEW phase, NEW c,
         pc' = [pc EXCEPT ![t] = phase], call' = [call EXCEPT ![t] = c]
  PROVE  Takes(t, phase, c)
BY DEF Takes, TypeInv, TypeOK

LEMMA GotoTakes ==
  ASSUME TypeInv, NEW t \in Tasks, NEW phase, Goto(t, phase), UNCHANGED call
  PROVE  Takes(t, phase, call[t])
BY DEF Takes, Goto, TypeInv, TypeOK

LEMMA FinishTakes ==
  ASSUME TypeInv, NEW t \in Tasks, Finish(t)
  PROVE  Takes(t, "idle", NoCall)
BY MoveTakes DEF Finish

LEMMA StepTakes ==
  ASSUME TypeInv, NEW t \in Tasks, Step(t)
  PROVE  LET c == call[t]
             o(act) == Outcome(act, c.pay, c.user)
         IN  /\ c \in Call
             /\ \/ /\ Fetch(t)
                   /\ \E s \in InstructionStatuses :
                        Takes(t, "authorize", [c EXCEPT !.status = s])
                \/ /\ FetchInvalid(t)
                   /\ Takes(t, "write", [c EXCEPT !.act = "CANCEL", !.pay = o("CANCEL")])
                \/ /\ AuthorizeCreate(t)
                   /\ Takes(t, IF c.pay.type = "SINGLE_USE" THEN "use" ELSE "write", c)
                \/ AuthorizeDecision(t) /\ Takes(t, "write", [c EXCEPT !.pay = o(c.act)])
                \/ (Deny(t) \/ UseFailed(t)) /\ Takes(t, "event", [c EXCEPT !.denied = TRUE])
                \/ UseAnswered(t) /\ Takes(t, "write", c)
                \/ Write(t) /\ Takes(t, "event", c)
                \/ RecordEvent(t) /\ Takes(t, "publish", c)
                \/ Publish(t) /\ Takes(t, "idle", NoCall)
<1> DEFINE c == call[t]
           o(act) == Outcome(act, c.pay, c.user)
<1>a. c \in Call
  BY DEF TypeInv, TypeOK, Step, Fetch, FetchInvalid, AuthorizeCreate, AuthorizeDecision,
         Deny, UseAnswered, UseFailed, Write, RecordEvent, Publish
<1>1. ASSUME Fetch(t)
      PROVE  \E s \in InstructionStatuses : Takes(t, "authorize", [c EXCEPT !.status = s])
  <2>1. PICK v \in Current(c.pay.inst) : call' = [call EXCEPT ![t].status = v.status]
    BY <1>1 DEF Fetch
  <2>2. v.status \in InstructionStatuses
    BY DEF Current, Service!Of, TypeInv, TypeOK, Version
  <2> DEFINE n == [c EXCEPT !.status = v.status]
  <2>3. call' = [call EXCEPT ![t] = n] /\ pc' = [pc EXCEPT ![t] = "authorize"]
    BY <1>1, <2>1 DEF Fetch, Goto, TypeInv, TypeOK
  <2> HIDE DEF n
  <2>4. Takes(t, "authorize", n)
    BY <2>3, MoveTakes
  <2> QED BY <2>2, <2>4 DEF n
<1>2. ASSUME FetchInvalid(t)
      PROVE  Takes(t, "write", [c EXCEPT !.act = "CANCEL", !.pay = o("CANCEL")])
  <2> DEFINE n == [c EXCEPT !.act = "CANCEL", !.pay = o("CANCEL")]
  <2>1. call' = [call EXCEPT ![t] = n] /\ pc' = [pc EXCEPT ![t] = "write"]
    BY <1>2 DEF FetchInvalid, Goto, TypeInv, TypeOK
  <2> HIDE DEF n
  <2>2. Takes(t, "write", n)
    BY <2>1, MoveTakes
  <2> QED BY <2>2 DEF n
<1>3. ASSUME AuthorizeCreate(t)
      PROVE  Takes(t, IF c.pay.type = "SINGLE_USE" THEN "use" ELSE "write", c)
  BY <1>3, GotoTakes DEF AuthorizeCreate
<1>4. ASSUME AuthorizeDecision(t)
      PROVE  Takes(t, "write", [c EXCEPT !.pay = o(c.act)])
  <2> DEFINE n == [c EXCEPT !.pay = o(c.act)]
  <2>1. call' = [call EXCEPT ![t] = n] /\ pc' = [pc EXCEPT ![t] = "write"]
    BY <1>4 DEF AuthorizeDecision, Goto, TypeInv, TypeOK
  <2> HIDE DEF n
  <2>2. Takes(t, "write", n)
    BY <2>1, MoveTakes
  <2> QED BY <2>2 DEF n
<1>5. ASSUME Deny(t) \/ UseFailed(t)
      PROVE  Takes(t, "event", [c EXCEPT !.denied = TRUE])
  <2> DEFINE n == [c EXCEPT !.denied = TRUE]
  <2>1. call' = [call EXCEPT ![t] = n] /\ pc' = [pc EXCEPT ![t] = "event"]
    BY <1>5 DEF Deny, UseFailed, Refuse, Goto, TypeInv, TypeOK
  <2> HIDE DEF n
  <2>2. Takes(t, "event", n)
    BY <2>1, MoveTakes
  <2> QED BY <2>2 DEF n
<1>6. UseAnswered(t) => Takes(t, "write", c)
  BY GotoTakes DEF UseAnswered
<1>7. Write(t) => Takes(t, "event", c)
  BY GotoTakes DEF Write
<1>8. RecordEvent(t) => Takes(t, "publish", c)
  BY GotoTakes DEF RecordEvent
<1>9. Publish(t) => Takes(t, "idle", NoCall)
  BY FinishTakes DEF Publish
<1> HIDE DEF c, o
<1>10. \/ Fetch(t) \/ FetchInvalid(t) \/ AuthorizeCreate(t) \/ AuthorizeDecision(t)
       \/ Deny(t) \/ UseFailed(t) \/ UseAnswered(t)
       \/ Write(t) \/ RecordEvent(t) \/ Publish(t)
  BY DEF Step
<1> QED BY <1>a, <1>1, <1>2, <1>3, <1>4, <1>5, <1>6, <1>7, <1>8, <1>9, <1>10 DEF c, o

\* A request that is taken on.
LEMMA BeginTakes ==
  ASSUME TypeInv, NEW t \in Tasks, BeginAny(t)
  PROVE  \/ \E user \in Users, i \in Instructions, amount \in Amounts, v \in Version :
              LET id == <<Terms[i].lob, nextPayment[Terms[i].lob] + 1>>
              IN  /\ BeginCreate(t, user, i, amount)
                  /\ v \in Current(i) /\ v.status \in Active /\ id \in PaymentIds
                  /\ Takes(t, "authorize",
                           [act |-> "CREATE", user |-> user,
                            pay |-> NewPayment(id, i, v, amount, user),
                            status |-> v.status, denied |-> FALSE])
         \/ \E user \in Users, act \in {"SUBMIT", "APPROVE", "REJECT"}, id \in PaymentIds :
              /\ Begin(t, act, user, id)
              /\ payments[id] \in Payment /\ payments[id] # NoPayment
              /\ Takes(t, "fetch", [act |-> act, user |-> user, pay |-> payments[id],
                                    status |-> NotRead, denied |-> FALSE])
<1>1. ASSUME NEW user \in Users, NEW i \in Instructions, NEW amount \in Amounts,
             BeginCreate(t, user, i, amount)
      PROVE  \E v \in Version :
               LET id == <<Terms[i].lob, nextPayment[Terms[i].lob] + 1>>
               IN  /\ v \in Current(i) /\ v.status \in Active /\ id \in PaymentIds
                   /\ Takes(t, "authorize",
                            [act |-> "CREATE", user |-> user,
                             pay |-> NewPayment(id, i, v, amount, user),
                             status |-> v.status, denied |-> FALSE])
  <2> DEFINE id == <<Terms[i].lob, nextPayment[Terms[i].lob] + 1>>
  <2>1. PICK v \in Current(i) :
          /\ v.status \in Active
          /\ Accept(t, "authorize", "CREATE", user, NewPayment(id, i, v, amount, user),
                    v.status)
    BY <1>1 DEF BeginCreate, ValidAtCreate
  <2> DEFINE p == NewPayment(id, i, v, amount, user)
             n == [act |-> "CREATE", user |-> user, pay |-> p, status |-> v.status,
                   denied |-> FALSE]
  <2>2. v \in Version
    BY DEF Current, Service!Of, TypeInv, TypeOK
  <2>3. id \in PaymentIds
    <3>1. calls < MaxCalls
      BY <2>1 DEF Accept
    <3> QED BY <3>1, PaymentAssumption DEF PaymentIds, TypeInv, TypeOK
  <2>4. call' = [call EXCEPT ![t] = n] /\ pc' = [pc EXCEPT ![t] = "authorize"]
    BY <2>1 DEF Accept, Goto
  <2> HIDE DEF id, p, n
  <2>5. Takes(t, "authorize", n)
    BY <2>4, MoveTakes
  <2> QED BY <2>1, <2>2, <2>3, <2>5 DEF id, p, n
<1>2. ASSUME NEW user \in Users, NEW act \in {"SUBMIT", "APPROVE", "REJECT"},
             NEW id \in PaymentIds, Begin(t, act, user, id)
      PROVE  /\ payments[id] \in Payment /\ payments[id] # NoPayment
             /\ Takes(t, "fetch", [act |-> act, user |-> user, pay |-> payments[id],
                                   status |-> NotRead, denied |-> FALSE])
  <2> DEFINE n == [act |-> act, user |-> user, pay |-> payments[id], status |-> NotRead,
                   denied |-> FALSE]
  <2>1. call' = [call EXCEPT ![t] = n] /\ pc' = [pc EXCEPT ![t] = "fetch"]
    BY <1>2 DEF Begin, Accept, Goto
  <2> HIDE DEF n
  <2>2. Takes(t, "fetch", n)
    BY <2>1, MoveTakes
  <2>3. payments[id] \in Payment /\ payments[id] # NoPayment
    BY <1>2 DEF Begin, TypeInv, TypeOK
  <2> QED BY <2>2, <2>3 DEF n
<1>3. PICK user \in Users :
        \/ \E i \in Instructions, amount \in Amounts : BeginCreate(t, user, i, amount)
        \/ \E act \in {"SUBMIT", "APPROVE", "REJECT"}, id \in PaymentIds :
             Begin(t, act, user, id)
  BY DEF BeginAny
<1>4. CASE \E i \in Instructions, amount \in Amounts : BeginCreate(t, user, i, amount)
  <2>1. PICK i \in Instructions, amount \in Amounts : BeginCreate(t, user, i, amount)
    BY <1>4
  <2> QED BY <2>1, <1>1
<1>5. CASE \E act \in {"SUBMIT", "APPROVE", "REJECT"}, id \in PaymentIds :
             Begin(t, act, user, id)
  BY <1>2, <1>5
<1> QED BY <1>3, <1>4, <1>5

-----------------------------------------------------------------------------
(* What the copies say.  A stored payment is a copy some handler carried,  *)
(* so the copies have to agree with their trail as well; a copy that still *)
(* awaits its decision has the status the handler took it on with.         *)

Agrees(p) ==
  /\ p.trail[1] = [act |-> "CREATE", user |-> p.createdBy]
  /\ (p.status = "DRAFT") <=> (p.submittedBy = NoUser)
  /\ (p.status = "APPROVED") <=> (p.approvedBy # NoUser)
  /\ (p.status = "REJECTED") <=> (p.rejectedBy # NoUser)
  /\ (p.status = "CANCELLED") <=> (p.cancelledBy # NoUser)
  /\ Len(p.trail) = CASE p.status = "DRAFT" -> 1 [] p.status = "SUBMITTED" -> 2
                      [] OTHER -> 3

\* The phases in which a handler may still store its copy.
Carrying == {"fetch", "authorize", "use", "write"}

Undecided(phase, c) == phase = "fetch" \/ (phase = "authorize" /\ c.act # "CREATE")

AgreesAt(phase, c) ==
  /\ phase \in Carrying => Agrees(c.pay)
  /\ phase = "fetch" => c.act # "CREATE"
  /\ Undecided(phase, c) => c.pay.status \in OpenTo(c.act)

ProvenanceInv ==
  /\ \A id \in PaymentIds : payments[id] # NoPayment => Agrees(payments[id])
  /\ \A t \in Tasks : AgreesAt(pc[t], call[t])

LEMMA NewPaymentAgrees ==
  ASSUME NEW id, NEW i, NEW v, NEW amount, NEW user \in Users
  PROVE  Agrees(NewPayment(id, i, v, amount, user))
BY StaffAssumption DEF Agrees, NewPayment

LEMMA DecidedFields ==
  ASSUME NEW p \in Payment, NEW act \in PaymentActions \ {"CREATE"}, NEW user \in Users
  PROVE  LET q == Decided(act, p, user)
         IN  /\ q.createdBy = p.createdBy /\ q.trail = p.trail
             /\ q.submittedBy = IF act = "SUBMIT" THEN user ELSE p.submittedBy
             /\ q.approvedBy = IF act = "APPROVE" THEN user ELSE p.approvedBy
             /\ q.rejectedBy = IF act = "REJECT" THEN user ELSE p.rejectedBy
             /\ q.cancelledBy = IF act = "CANCEL" THEN user ELSE p.cancelledBy
             /\ act = "SUBMIT"  => q.status = "SUBMITTED"
             /\ act = "APPROVE" => q.status = "APPROVED"
             /\ act = "REJECT"  => q.status = "REJECTED"
             /\ act = "CANCEL"  => q.status = "CANCELLED"
             /\ q.id = p.id /\ q.inst = p.inst /\ q.ver = p.ver /\ q.type = p.type
<1>1. CASE act = "SUBMIT"
  BY <1>1 DEF Decided, SubmittedBy, Payment
<1>2. CASE act = "APPROVE"
  BY <1>2 DEF Decided, ApprovedBy, Payment
<1>3. CASE act = "REJECT"
  BY <1>3 DEF Decided, RejectedBy, Payment
<1>4. CASE act = "CANCEL"
  BY <1>4 DEF Decided, CancelledBy, Payment
<1> QED BY <1>1, <1>2, <1>3, <1>4 DEF PaymentActions

\* A decision on a payment whose status is open to it sets the status, the person and
\* one more entry of the trail.
LEMMA OutcomeAgrees ==
  ASSUME NEW p \in Payment, NEW act \in PaymentActions \ {"CREATE"}, NEW user \in Users,
         Agrees(p), p.status \in OpenTo(act)
  PROVE  Agrees(Outcome(act, p, user))
<1> DEFINE e == Decided(act, p, user)
           entry == [act |-> act, user |-> user]
           q == Outcome(act, p, user)
<1>1. e \in Payment /\ p.trail \in Seq(LifecycleEvent) /\ entry \in LifecycleEvent
  BY DecidedType DEF Payment, LifecycleEvent
<1>2. /\ e.createdBy = p.createdBy /\ e.trail = p.trail
      /\ e.submittedBy = IF act = "SUBMIT" THEN user ELSE p.submittedBy
      /\ e.approvedBy = IF act = "APPROVE" THEN user ELSE p.approvedBy
      /\ e.rejectedBy = IF act = "REJECT" THEN user ELSE p.rejectedBy
      /\ e.cancelledBy = IF act = "CANCEL" THEN user ELSE p.cancelledBy
      /\ act = "SUBMIT"  => e.status = "SUBMITTED"
      /\ act = "APPROVE" => e.status = "APPROVED"
      /\ act = "REJECT"  => e.status = "REJECTED"
      /\ act = "CANCEL"  => e.status = "CANCELLED"
  BY DecidedFields
<1>3. q = [e EXCEPT !.trail = Append(p.trail, entry)]
  BY <1>2 DEF Outcome
<1> HIDE DEF e, entry, q
<1>4. /\ q.trail = Append(p.trail, entry) /\ q.status = e.status
      /\ q.createdBy = e.createdBy /\ q.submittedBy = e.submittedBy
      /\ q.approvedBy = e.approvedBy /\ q.rejectedBy = e.rejectedBy
      /\ q.cancelledBy = e.cancelledBy
  BY <1>1, <1>3 DEF Payment
<1>5. /\ Len(p.trail) = IF act = "SUBMIT" THEN 1 ELSE 2
      /\ Len(q.trail) = Len(p.trail) + 1 /\ q.trail[1] = p.trail[1]
  <2>1. Len(p.trail) = IF act = "SUBMIT" THEN 1 ELSE 2
    BY DEF Agrees, OpenTo
  <2> QED BY <1>1, <1>4, <2>1
<1>6. user # NoUser
  BY StaffAssumption
<1>7. Agrees(q)
  <2>1. CASE act = "SUBMIT"
    BY <1>2, <1>4, <1>5, <1>6, <2>1 DEF Agrees, OpenTo
  <2>2. CASE act = "APPROVE"
    BY <1>2, <1>4, <1>5, <1>6, <2>2 DEF Agrees, OpenTo
  <2>3. CASE act = "REJECT"
    BY <1>2, <1>4, <1>5, <1>6, <2>3 DEF Agrees, OpenTo
  <2>4. CASE act = "CANCEL"
    BY <1>2, <1>4, <1>5, <1>6, <2>4 DEF Agrees, OpenTo
  <2> QED BY <2>1, <2>2, <2>3, <2>4 DEF PaymentActions
<1> QED BY <1>7 DEF q

\* A step of one task keeps what the other tasks' copies say.
LEMMA OneTaskAgrees ==
  ASSUME ProvenanceInv, NEW t \in Tasks, NEW phase, NEW c, Takes(t, phase, c),
         AgreesAt(phase, c)
  PROVE  \A u \in Tasks : AgreesAt(pc'[u], call'[u])
BY DEF ProvenanceInv, Takes

LEMMA StepProvenance ==
  ASSUME TypeInv, ProvenanceInv, NEW t \in Tasks, Step(t)
  PROVE  ProvenanceInv'
<1> DEFINE c == call[t]
           o(act) == Outcome(act, c.pay, c.user)
<1>1. c \in Call /\ AgreesAt(pc[t], c)
  BY StepTakes DEF ProvenanceInv
<1>2. c.pay \in Payment /\ c.user \in Users /\ c.act \in PaymentActions
  BY <1>1 DEF Call
<1>3. ASSUME ~Write(t) PROVE UNCHANGED payments
  BY <1>3 DEF Step, Fetch, FetchInvalid, AuthorizeCreate, AuthorizeDecision, Deny, Refuse,
              UseAnswered, UseFailed, RecordEvent, Publish
<1>4. \A id \in PaymentIds : payments'[id] # NoPayment => Agrees(payments'[id])
  <2>1. CASE Write(t)
    <3>1. Agrees(c.pay)
      BY <1>1, <2>1 DEF Write, AgreesAt, Carrying
    <3> QED BY <2>1, <3>1 DEF Write, ProvenanceInv, TypeInv, TypeOK
  <2> QED BY <2>1, <1>3 DEF ProvenanceInv
<1>5. \E phase, n : Takes(t, phase, n) /\ AgreesAt(phase, n)
  <2>1. ASSUME Fetch(t), NEW s \in InstructionStatuses
        PROVE  AgreesAt("authorize", [c EXCEPT !.status = s])
    <3> DEFINE n == [c EXCEPT !.status = s]
    <3>1. n.pay = c.pay /\ n.act = c.act
      BY <1>1 DEF Call
    <3> HIDE DEF n
    <3> QED BY <1>1, <2>1, <3>1 DEF Fetch, AgreesAt, Undecided, Carrying
  <2>2. ASSUME FetchInvalid(t)
        PROVE  AgreesAt("write", [c EXCEPT !.act = "CANCEL", !.pay = o("CANCEL")])
    <3> DEFINE q == o("CANCEL")
               n == [c EXCEPT !.act = "CANCEL", !.pay = q]
    <3>1. Agrees(q)
      <4>1. Agrees(c.pay) /\ c.pay.status \in OpenTo("CANCEL")
        BY <1>1, <2>2 DEF FetchInvalid, AgreesAt, Undecided, Carrying, OpenTo
      <4> QED BY <1>2, <4>1, OutcomeAgrees DEF PaymentActions
    <3> HIDE DEF q
    <3>2. n.pay = q
      BY <1>1 DEF Call
    <3> HIDE DEF n
    <3>3. AgreesAt("write", n)
      BY <3>1, <3>2 DEF AgreesAt, Undecided
    <3> QED BY <3>3 DEF n, q
  <2>3. ASSUME AuthorizeDecision(t)
        PROVE  AgreesAt("write", [c EXCEPT !.pay = o(c.act)])
    <3> DEFINE q == o(c.act)
               n == [c EXCEPT !.pay = q]
    <3>1. Agrees(q)
      <4>1. c.act # "CREATE" /\ Agrees(c.pay) /\ c.pay.status \in OpenTo(c.act)
        BY <1>1, <2>3 DEF AuthorizeDecision, AgreesAt, Undecided, Carrying
      <4> QED BY <1>2, <4>1, OutcomeAgrees
    <3> HIDE DEF q
    <3>2. n.pay = q
      BY <1>1 DEF Call
    <3> HIDE DEF n
    <3>3. AgreesAt("write", n)
      BY <3>1, <3>2 DEF AgreesAt, Undecided
    <3> QED BY <3>3 DEF n, q
  <2>4. AuthorizeCreate(t) => AgreesAt("use", c) /\ AgreesAt("write", c)
    BY <1>1 DEF AuthorizeCreate, AgreesAt, Carrying, Undecided
  <2>5. UseAnswered(t) => AgreesAt("write", c)
    BY <1>1 DEF UseAnswered, AgreesAt, Carrying, Undecided
  <2>6. \A n : AgreesAt("event", n) /\ AgreesAt("publish", n) /\ AgreesAt("idle", n)
    BY DEF AgreesAt, Carrying, Undecided
  <2> HIDE DEF c, o
  <2> QED BY StepTakes, <2>1, <2>2, <2>3, <2>4, <2>5, <2>6 DEF c, o
<1> QED BY <1>4, <1>5, OneTaskAgrees DEF ProvenanceInv

LEMMA BeginProvenance ==
  ASSUME TypeInv, ProvenanceInv, NEW t \in Tasks, BeginAny(t)
  PROVE  ProvenanceInv'
<1>1. UNCHANGED payments
  BY DEF BeginAny, BeginCreate, Begin
<1>2. ASSUME NEW user \in Users, NEW i, NEW amount, NEW v, NEW id
      PROVE  AgreesAt("authorize",
                      [act |-> "CREATE", user |-> user,
                       pay |-> NewPayment(id, i, v, amount, user),
                       status |-> v.status, denied |-> FALSE])
  BY NewPaymentAgrees DEF AgreesAt, Carrying, Undecided
<1>3. ASSUME NEW user \in Users, NEW act \in {"SUBMIT", "APPROVE", "REJECT"},
             NEW id \in PaymentIds, Begin(t, act, user, id), payments[id] # NoPayment
      PROVE  AgreesAt("fetch", [act |-> act, user |-> user, pay |-> payments[id],
                                status |-> NotRead, denied |-> FALSE])
  BY <1>3 DEF Begin, ProvenanceInv, AgreesAt, Carrying, Undecided
<1>4. \E phase, n : Takes(t, phase, n) /\ AgreesAt(phase, n)
  BY <1>2, <1>3, BeginTakes
<1> QED BY <1>1, <1>4, OneTaskAgrees DEF ProvenanceInv

LEMMA ProvenanceInvariant == Spec => [](TypeInv /\ ProvenanceInv)
<1>1. Init => ProvenanceInv
  BY DEF Init, ProvenanceInv, AgreesAt, Carrying, Undecided
<1>2. TypeInv /\ ProvenanceInv /\ [Next]_vars => ProvenanceInv'
  <2> SUFFICES ASSUME TypeInv, ProvenanceInv, [Next]_vars PROVE ProvenanceInv'
    OBVIOUS
  <2>1. ASSUME NEW t \in Tasks, Interrupt(t) PROVE ProvenanceInv'
    <3>1. Takes(t, "idle", NoCall) /\ UNCHANGED payments
      BY <2>1, FinishTakes DEF Interrupt
    <3>2. AgreesAt("idle", NoCall)
      BY DEF AgreesAt, Carrying, Undecided
    <3> QED BY <3>1, <3>2, OneTaskAgrees DEF ProvenanceInv
  <2>2. CASE UNCHANGED <<payments, pc, call>>
    BY <2>2 DEF ProvenanceInv
  <2> QED BY <2>1, <2>2, BeginProvenance, StepProvenance
          DEF Next, UseRead, UseCommit, UseDropped, InstructionMoves, Tick, vars
<1> QED BY <1>1, <1>2, InitTypeInv, NextTypeInv, PTL DEF Spec

\* No payment carries two decisions: whoever submitted, approved, rejected or cancelled
\* it agrees with its status and with its trail, in every interleaving of racing calls.
THEOREM PaymentHasProvenance == Spec => []PaymentProvenance
<1>1. ProvenanceInv => PaymentProvenance
  BY DEF ProvenanceInv, Agrees, PaymentProvenance, Stored
<1> QED BY <1>1, ProvenanceInvariant, PTL

-----------------------------------------------------------------------------
(* The log.                                                                *)

LoggedAt(phase, c, P, E) ==
  /\ phase = "event" /\ ~c.denied => P[c.pay.id] # NoPayment
  /\ phase = "publish" => SecurityEvent(c) \in E

FactLogged(f, E) ==
  [act |-> f.act, user |-> f.user, pay |-> f.pay, outcome |-> "success"] \in E

LogInv ==
  /\ \A t \in Tasks : LoggedAt(pc[t], call[t], payments, events)
  /\ \A k \in DOMAIN factTopic : FactLogged(factTopic[k], events)
  /\ \A e \in events : e.outcome = "success" => payments[e.pay.id] # NoPayment

LEMMA LogKept ==
  ASSUME NEW phase, NEW c \in Call, NEW P, NEW Q, NEW E, NEW F, E \subseteq F,
         \A id \in PaymentIds : P[id] # NoPayment => Q[id] # NoPayment,
         LoggedAt(phase, c, P, E)
  PROVE  LoggedAt(phase, c, Q, F)
BY DEF LoggedAt, Call, Payment

\* A step of one task, which adds to the collections, keeps what the others rely on.
LEMMA OneTaskLogged ==
  ASSUME TypeInv, LogInv, NEW t \in Tasks, NEW phase, NEW c, Takes(t, phase, c),
         LoggedAt(phase, c, payments', events'), events \subseteq events',
         \A id \in PaymentIds : payments[id] # NoPayment => payments'[id] # NoPayment
  PROVE  \A u \in Tasks : LoggedAt(pc'[u], call'[u], payments', events')
<1> SUFFICES ASSUME NEW u \in Tasks, u # t
             PROVE  LoggedAt(pc'[u], call'[u], payments', events')
  BY DEF Takes
<1>1. pc'[u] = pc[u] /\ call'[u] = call[u] /\ LoggedAt(pc[u], call[u], payments, events)
  BY DEF Takes, LogInv
<1>2. CASE pc[u] = "idle"
  BY <1>1, <1>2 DEF LoggedAt
<1>3. CASE pc[u] # "idle"
  <2>1. call[u] \in Call
    BY <1>3 DEF TypeInv, TypeOK
  <2>2. LoggedAt(pc[u], call[u], payments', events')
    BY <1>1, <2>1, LogKept
  <2> QED BY <1>1, <2>2
<1> QED BY <1>2, <1>3

LEMMA BeginLog ==
  ASSUME TypeInv, LogInv, NEW t \in Tasks, BeginAny(t)
  PROVE  LogInv'
<1>1. UNCHANGED <<payments, events, factTopic>>
  BY DEF BeginAny, BeginCreate, Begin, topics
<1>2. \A n : LoggedAt("authorize", n, payments', events')
             /\ LoggedAt("fetch", n, payments', events')
  BY DEF LoggedAt
<1>3. \E phase, n : Takes(t, phase, n) /\ LoggedAt(phase, n, payments', events')
  BY <1>2, BeginTakes
<1>4. \A u \in Tasks : LoggedAt(pc'[u], call'[u], payments', events')
  BY <1>1, <1>3, OneTaskLogged
<1> QED BY <1>1, <1>4 DEF LogInv

LEMMA StepLog ==
  ASSUME TypeInv, LogInv, NEW t \in Tasks, Step(t)
  PROVE  LogInv'
<1> DEFINE c == call[t]
           ev == SecurityEvent(c)
<1>1. c \in Call /\ LoggedAt(pc[t], c, payments, events)
  BY StepTakes DEF LogInv
<1>2. CASE Write(t)
  <2>1. /\ payments' = [payments EXCEPT ![c.pay.id] = c.pay] /\ c.pay.id \in PaymentIds
        /\ c.pay # NoPayment /\ UNCHANGED <<events, factTopic>>
    BY <1>1, <1>2, NoPaymentAssumption DEF Write, Call, Payment, topics
  <2>2. payments'[c.pay.id] # NoPayment
    BY <2>1 DEF TypeInv, TypeOK
  <2>3. \A id \in PaymentIds : payments[id] # NoPayment => payments'[id] # NoPayment
    BY <2>1 DEF TypeInv, TypeOK
  <2>4. Takes(t, "event", c)
    BY <1>2, GotoTakes DEF Write
  <2>5. LoggedAt("event", c, payments', events')
    BY <2>2 DEF LoggedAt
  <2>6. \A u \in Tasks : LoggedAt(pc'[u], call'[u], payments', events')
    BY <2>1, <2>3, <2>4, <2>5, OneTaskLogged
  <2>7. \A e \in events : e.pay.id \in PaymentIds
    BY DEF TypeInv, TypeOK, Event, Payment
  <2> QED BY <2>1, <2>3, <2>6, <2>7 DEF LogInv
<1>3. CASE RecordEvent(t)
  <2>1. events' = events \cup {ev} /\ UNCHANGED <<payments, factTopic>> /\ pc[t] = "event"
    BY <1>3 DEF RecordEvent, topics
  <2>2. Takes(t, "publish", c)
    BY <1>3, GotoTakes DEF RecordEvent
  <2>3. LoggedAt("publish", c, payments', events')
    BY <2>1 DEF LoggedAt
  <2>4. \A u \in Tasks : LoggedAt(pc'[u], call'[u], payments', events')
    BY <2>1, <2>2, <2>3, OneTaskLogged
  <2>5. ev.outcome = "success" => payments[ev.pay.id] # NoPayment
    BY <1>1, <2>1 DEF LoggedAt, SecurityEvent
  <2> HIDE DEF ev
  <2>6. \A k \in DOMAIN factTopic' : FactLogged(factTopic'[k], events')
    BY <2>1 DEF LogInv, FactLogged
  <2> QED BY <2>1, <2>4, <2>5, <2>6 DEF LogInv
<1>4. CASE Publish(t)
  <2>1. /\ UNCHANGED <<payments, events>>
        /\ (factTopic' = factTopic
            \/ (~c.denied /\ factTopic' = Append(factTopic, PaymentFact(c))))
    BY <1>4, Zenon DEF Publish
  <2>6. ev \in events
    BY <1>1, <1>4 DEF Publish, LoggedAt
  <2>2. Takes(t, "idle", NoCall)
    BY <1>4, FinishTakes DEF Publish
  <2>3. LoggedAt("idle", NoCall, payments', events')
    BY DEF LoggedAt
  <2>4. \A u \in Tasks : LoggedAt(pc'[u], call'[u], payments', events')
    BY <2>1, <2>2, <2>3, OneTaskLogged
  <2>5. \A k \in DOMAIN factTopic' : FactLogged(factTopic'[k], events')
    <3>1. CASE factTopic' = factTopic
      BY <2>1, <3>1 DEF LogInv
    <3>2. CASE ~c.denied /\ factTopic' = Append(factTopic, PaymentFact(c))
      <4> DEFINE f == PaymentFact(c)
      <4>1. FactLogged(f, events)
        BY <2>6, <3>2 DEF FactLogged, PaymentFact, SecurityEvent
      <4>2. factTopic \in Seq(Fact) /\ f \in Fact
        BY <1>1, PaymentFactType DEF TypeInv, TypeOK
      <4> HIDE DEF f
      <4>3. \A k \in DOMAIN factTopic' :
              factTopic'[k] = f \/ (k \in DOMAIN factTopic /\ factTopic'[k] = factTopic[k])
        BY <3>2, <4>2 DEF f
      <4> QED BY <2>1, <4>1, <4>3 DEF LogInv
    <3> QED BY <2>1, <3>1, <3>2
  <2> QED BY <2>1, <2>4, <2>5 DEF LogInv
<1>5. CASE ~(Write(t) \/ RecordEvent(t) \/ Publish(t))
  <2>1. UNCHANGED <<payments, events, factTopic>>
    BY <1>5 DEF Step, Fetch, FetchInvalid, AuthorizeCreate, AuthorizeDecision, Deny, Refuse,
                UseAnswered, UseFailed, topics
  <2>2. \A n : /\ LoggedAt("authorize", n, payments', events')
               /\ LoggedAt("write", n, payments', events')
               /\ LoggedAt("use", n, payments', events')
    BY DEF LoggedAt
  <2>3. LoggedAt("event", [c EXCEPT !.denied = TRUE], payments', events')
    <3>1. [c EXCEPT !.denied = TRUE].denied
      BY <1>1 DEF Call
    <3> QED BY <3>1 DEF LoggedAt
  <2>4. \E phase, n : Takes(t, phase, n) /\ LoggedAt(phase, n, payments', events')
    <3> HIDE DEF c
    <3> QED BY <1>5, <2>2, <2>3, StepTakes DEF c
  <2>5. \A u \in Tasks : LoggedAt(pc'[u], call'[u], payments', events')
    BY <2>1, <2>4, OneTaskLogged
  <2> QED BY <2>1, <2>5 DEF LogInv
<1> QED BY <1>2, <1>3, <1>4, <1>5

LEMMA LogInvariant == Spec => [](TypeInv /\ LogInv)
<1>1. Init => LogInv
  BY DEF Init, LogInv, LoggedAt
<1>2. TypeInv /\ LogInv /\ [Next]_vars => LogInv'
  <2> SUFFICES ASSUME TypeInv, LogInv, [Next]_vars PROVE LogInv'
    OBVIOUS
  <2>1. ASSUME NEW t \in Tasks, Interrupt(t) PROVE LogInv'
    <3>1. Takes(t, "idle", NoCall) /\ UNCHANGED <<payments, events, factTopic>>
      BY <2>1, FinishTakes DEF Interrupt, topics
    <3>2. LoggedAt("idle", NoCall, payments', events')
      BY DEF LoggedAt
    <3> QED BY <3>1, <3>2, OneTaskLogged DEF LogInv
  <2>2. CASE UNCHANGED <<payments, events, factTopic, pc, call>>
    BY <2>2 DEF LogInv
  <2> QED BY <2>1, <2>2, BeginLog, StepLog
          DEF Next, UseRead, UseCommit, UseDropped, InstructionMoves, Tick, vars, topics
<1> QED BY <1>1, <1>2, InitTypeInv, NextTypeInv, PTL DEF Spec

\* Kafka never tells of a payment what the log does not: every published fact is in the
\* log, and every success in the log is about a payment that is stored, wherever the
\* handler stopped between its three writes.
THEOREM FactsFollowTheLog == Spec => []FactsAreLogged
<1>1. LogInv => FactsAreLogged
  BY DEF LogInv, FactLogged, FactsAreLogged
<1> QED BY <1>1, LogInvariant, PTL

-----------------------------------------------------------------------------
(* The saga.                                                               *)

\* The payment number has been given out.
Given(id, N) == id[2] <= N[id[1]]

VersionsIn(L, i) == {v \in L : v.id = i}

Used(p, U) ==
  p.type = "SINGLE_USE" => \E u \in U : u.pay = p.id /\ u.inst = p.inst /\ u.ver > p.ver

Creates(phase, c) == phase \in {"authorize", "use", "write"} /\ c.act = "CREATE"

\* Only a creation awaits a use; every copy that may be stored otherwise has it.
UsedAt(phase, c, U) ==
  /\ (phase \in {"fetch", "write"} \/ (phase = "authorize" /\ c.act # "CREATE"))
       => Used(c.pay, U)
  /\ phase = "fetch" => c.act # "CREATE"
  /\ phase = "use" => c.act = "CREATE"

\* A creation owns its number, and every use asked for or made under that number is
\* one of its instruction, later than the version it has read.
OwnsAt(phase, c, W, U, L, N) ==
  Creates(phase, c) =>
    /\ Given(c.pay.id, N)
    /\ c.pay.ver <= Cardinality(VersionsIn(L, c.pay.inst))
    /\ \A r \in W : r.pay = c.pay.id => r.inst = c.pay.inst
    /\ \A u \in U : u.pay = c.pay.id => u.inst = c.pay.inst /\ u.ver > c.pay.ver

SagaInv ==
  /\ \A t \in Tasks : UsedAt(pc[t], call[t], uses)
  /\ \A t \in Tasks : OwnsAt(pc[t], call[t], wire, uses, ledger, nextPayment)
  /\ \A s, t \in Tasks : s # t /\ Creates(pc[s], call[s]) /\ Creates(pc[t], call[t])
                           => call[s].pay.id # call[t].pay.id
  /\ \A r \in wire : Given(r.pay, nextPayment)
  /\ \A u \in uses : Given(u.pay, nextPayment)
  /\ \A id \in PaymentIds : payments[id] # NoPayment => Used(payments[id], uses)
LEMMA OutcomeSameInstruction ==
  ASSUME NEW p \in Payment, NEW act \in PaymentActions \ {"CREATE"}, NEW user \in Users
  PROVE  LET q == Outcome(act, p, user)
         IN  q.id = p.id /\ q.inst = p.inst /\ q.ver = p.ver /\ q.type = p.type
<1> DEFINE e == Decided(act, p, user)
           s == Append(e.trail, [act |-> act, user |-> user])
<1>1. /\ e \in Payment
      /\ e.id = p.id /\ e.inst = p.inst /\ e.ver = p.ver /\ e.type = p.type
  BY DecidedType, DecidedFields
<1>2. Outcome(act, p, user) = [e EXCEPT !.trail = s]
  BY DEF Outcome
<1> HIDE DEF e, s
<1> QED BY <1>1, <1>2 DEF Payment

LEMMA OutcomeUsed ==
  ASSUME NEW p \in Payment, NEW act \in PaymentActions \ {"CREATE"}, NEW user \in Users,
         NEW U, Used(p, U)
  PROVE  Used(Outcome(act, p, user), U)
<1> DEFINE q == Outcome(act, p, user)
<1>1. q.id = p.id /\ q.inst = p.inst /\ q.ver = p.ver /\ q.type = p.type
  BY OutcomeSameInstruction
<1> HIDE DEF q
<1>2. Used(q, U)
  BY <1>1 DEF Used
<1> QED BY <1>2 DEF q

LEMMA UsedKept ==
  ASSUME NEW p, NEW U, NEW V, U \subseteq V, Used(p, U)
  PROVE  Used(p, V)
BY DEF Used

LEMMA VersionsOf == \A i : Service!Of(i) = VersionsIn(ledger, i)
BY DEF Service!Of, VersionsIn

LEMMA VersionsGrow ==
  ASSUME NEW L, NEW M, L \subseteq M, IsFiniteSet(M), NEW i
  PROVE  /\ Cardinality(VersionsIn(L, i)) \in Nat /\ Cardinality(VersionsIn(M, i)) \in Nat
         /\ Cardinality(VersionsIn(L, i)) <= Cardinality(VersionsIn(M, i))
<1>1. VersionsIn(M, i) \subseteq M /\ VersionsIn(L, i) \subseteq VersionsIn(M, i)
  BY DEF VersionsIn
<1>2. IsFiniteSet(VersionsIn(M, i))
  BY <1>1, FS_Subset
<1> QED BY <1>1, <1>2, FS_Subset, FS_CardinalityType

\* What a creation owns survives a step that gives out numbers, adds versions, and
\* sends and commits requests which are not under its number or are for its instruction.
LEMMA OwnsKept ==
  ASSUME NEW phase, NEW c, Creates(phase, c) => c \in Call,
         NEW W, NEW X, NEW U, NEW V, NEW L, NEW M, NEW N, NEW O,
         L \subseteq M, IsFiniteSet(M),
         N \in [Lobs -> Nat], O \in [Lobs -> Nat], \A l \in Lobs : N[l] <= O[l],
         Creates(phase, c) =>
           /\ \A r \in X : \/ r.pay = c.pay.id => r.inst = c.pay.inst
                           \/ \E s \in W : s.pay = r.pay /\ s.inst = r.inst
           /\ \A u \in V \ U : u.pay = c.pay.id => u.inst = c.pay.inst /\ u.ver > c.pay.ver,
         OwnsAt(phase, c, W, U, L, N)
  PROVE  OwnsAt(phase, c, X, V, M, O)
<1> SUFFICES ASSUME Creates(phase, c) PROVE OwnsAt(phase, c, X, V, M, O)
  BY DEF OwnsAt
<1> DEFINE p == c.pay
<1>1. p \in Payment /\ p.id \in Lobs \X (1..MaxCalls) /\ p.ver \in Nat
  BY DEF Call, Payment, PaymentIds
<1>2. /\ Given(p.id, N)
      /\ p.ver <= Cardinality(VersionsIn(L, p.inst))
      /\ \A r \in W : r.pay = p.id => r.inst = p.inst
      /\ \A u \in U : u.pay = p.id => u.inst = p.inst /\ u.ver > p.ver
  BY DEF OwnsAt
<1> HIDE DEF p
<1>3. Given(p.id, O)
  BY <1>1, <1>2, PaymentAssumption DEF Given
<1>4. p.ver <= Cardinality(VersionsIn(M, p.inst))
  BY <1>1, <1>2, VersionsGrow
<1>5. \A r \in X : r.pay = p.id => r.inst = p.inst
  BY <1>2 DEF p
<1>6. \A u \in V : u.pay = p.id => u.inst = p.inst /\ u.ver > p.ver
  BY <1>2 DEF p
<1> QED BY <1>3, <1>4, <1>5, <1>6 DEF OwnsAt, p

\* A task takes a step that touches neither the ledger nor the requests.
LEMMA OneTaskSaga ==
  ASSUME TypeInv, SagaInv, NEW t \in Tasks, NEW phase, NEW c, Takes(t, phase, c),
         UNCHANGED <<wire, uses, ledger, nextPayment>>,
         UsedAt(phase, c, uses),
         Creates(phase, c) => Creates(pc[t], call[t]) /\ c.pay = call[t].pay,
         \A id \in PaymentIds : payments'[id] # NoPayment => Used(payments'[id], uses)
  PROVE  SagaInv'
<1>1. \A u \in Tasks : UsedAt(pc'[u], call'[u], uses)
  BY DEF Takes, SagaInv
<1>2. \A u \in Tasks : Creates(pc'[u], call'[u]) =>
                         Creates(pc[u], call[u]) /\ call'[u].pay = call[u].pay
  BY DEF Takes
<1>3. \A u \in Tasks : OwnsAt(pc'[u], call'[u], wire, uses, ledger, nextPayment)
  BY <1>2 DEF SagaInv, OwnsAt
<1>4. \A s, u \in Tasks : s # u /\ Creates(pc'[s], call'[s]) /\ Creates(pc'[u], call'[u])
                            => call'[s].pay.id # call'[u].pay.id
  BY <1>2 DEF SagaInv
<1> QED BY <1>1, <1>3, <1>4 DEF SagaInv

\* The stored payments and the copies keep their uses.
LEMMA OneTaskUsed ==
  ASSUME SagaInv, uses \subseteq uses', NEW u \in Tasks, pc'[u] = pc[u], call'[u] = call[u]
  PROVE  UsedAt(pc'[u], call'[u], uses')
BY UsedKept DEF SagaInv, UsedAt

LEMMA StepSaga ==
  ASSUME TypeInv, SagaInv, NEW t \in Tasks, Step(t), ~AuthorizeCreate(t)
  PROVE  SagaInv'
<1> DEFINE c == call[t]
           o(act) == Outcome(act, c.pay, c.user)
<1>1. c \in Call /\ UsedAt(pc[t], c, uses)
  BY StepTakes DEF SagaInv
<1>2. c.pay \in Payment /\ c.user \in Users /\ c.act \in PaymentActions
  BY <1>1 DEF Call
<1>3. UNCHANGED <<wire, uses, ledger, nextPayment>>
  BY DEF Step, Fetch, FetchInvalid, AuthorizeDecision, Deny, Refuse, UseAnswered,
         UseFailed, Write, RecordEvent, Publish, instructionSide
<1>4. \A id \in PaymentIds : payments'[id] # NoPayment => Used(payments'[id], uses)
  <2>1. CASE Write(t)
    <3>1. Used(c.pay, uses)
      BY <1>1, <2>1 DEF Write, UsedAt
    <3> QED BY <2>1, <3>1 DEF Write, SagaInv, TypeInv, TypeOK
  <2>2. CASE ~Write(t)
    <3>1. UNCHANGED payments
      BY <2>2 DEF Step, Fetch, FetchInvalid, AuthorizeDecision, Deny, Refuse, UseAnswered,
                  UseFailed, RecordEvent, Publish
    <3> QED BY <3>1 DEF SagaInv
  <2> QED BY <2>1, <2>2
<1> DEFINE Fits(phase, n) == /\ UsedAt(phase, n, uses)
                             /\ Creates(phase, n) => Creates(pc[t], c) /\ n.pay = c.pay
<1>5. \E phase, n : Takes(t, phase, n) /\ Fits(phase, n)
  <2>1. ASSUME Fetch(t), NEW s \in InstructionStatuses
        PROVE  Fits("authorize", [c EXCEPT !.status = s])
    <3> DEFINE n == [c EXCEPT !.status = s]
    <3>1. n.pay = c.pay /\ n.act = c.act
      BY <1>1 DEF Call
    <3> HIDE DEF n
    <3>2. Fits("authorize", n)
      BY <1>1, <2>1, <3>1 DEF Fetch, UsedAt, Creates
    <3> QED BY <3>2 DEF n
  <2>2. ASSUME FetchInvalid(t)
        PROVE  Fits("write", [c EXCEPT !.act = "CANCEL", !.pay = o("CANCEL")])
    <3> DEFINE q == o("CANCEL")
               n == [c EXCEPT !.act = "CANCEL", !.pay = q]
    <3>1. Used(q, uses)
      <4>1. Used(c.pay, uses)
        BY <1>1, <2>2 DEF FetchInvalid, UsedAt
      <4> QED BY <1>2, <4>1, OutcomeUsed DEF PaymentActions
    <3> HIDE DEF q
    <3>2. n.pay = q /\ n.act = "CANCEL"
      BY <1>1 DEF Call
    <3> HIDE DEF n
    <3>3. Fits("write", n)
      BY <3>1, <3>2 DEF UsedAt, Creates
    <3> QED BY <3>3 DEF n, q
  <2>3. ASSUME AuthorizeDecision(t)
        PROVE  Fits("write", [c EXCEPT !.pay = o(c.act)])
    <3> DEFINE q == o(c.act)
               n == [c EXCEPT !.pay = q]
    <3>1. c.act # "CREATE" /\ Used(c.pay, uses)
      BY <1>1, <2>3 DEF AuthorizeDecision, UsedAt
    <3>2. Used(q, uses)
      BY <1>2, <3>1, OutcomeUsed
    <3> HIDE DEF q
    <3>3. n.pay = q /\ n.act = c.act
      BY <1>1 DEF Call
    <3> HIDE DEF n
    <3>4. Fits("write", n)
      BY <3>1, <3>2, <3>3 DEF UsedAt, Creates
    <3> QED BY <3>4 DEF n, q
  <2>4. ASSUME UseAnswered(t) PROVE Fits("write", c)
    <3>1. pc[t] = "use" /\ Creates(pc[t], c) /\ \E u \in uses : u.pay = c.pay.id
      BY <1>1, <2>4 DEF UseAnswered, UsedFor, UsedAt, Creates
    <3>2. \A u \in uses : u.pay = c.pay.id => u.inst = c.pay.inst /\ u.ver > c.pay.ver
      BY <3>1 DEF SagaInv, OwnsAt
    <3>3. Used(c.pay, uses)
      BY <3>1, <3>2 DEF Used
    <3> QED BY <3>1, <3>3 DEF UsedAt, Creates
  <2>5. \A n : Fits("event", n) /\ Fits("publish", n) /\ Fits("idle", n)
    BY DEF UsedAt, Creates
  <2> HIDE DEF c, o, Fits
  <2> QED BY StepTakes, <2>1, <2>2, <2>3, <2>4, <2>5 DEF c, o
<1> QED BY <1>3, <1>4, <1>5, OneTaskSaga

\* The request a creation sends carries its number and its instruction.
LEMMA AuthorizeSaga ==
  ASSUME TypeInv, SagaInv, NEW t \in Tasks, AuthorizeCreate(t)
  PROVE  SagaInv'
<1> DEFINE c == call[t]
           r == [pay |-> c.pay.id, inst |-> c.pay.inst, user |-> c.user, from |-> NotRead]
<1>1. c \in Call /\ pc[t] = "authorize" /\ c.act = "CREATE"
  BY DEF AuthorizeCreate, TypeInv, TypeOK
<1>2. UNCHANGED <<payments, uses, ledger, nextPayment, call>>
  BY DEF AuthorizeCreate
<1>3. CASE c.pay.type # "SINGLE_USE"
  <2>1. Takes(t, "write", c) /\ UNCHANGED wire
    BY <1>3, GotoTakes DEF AuthorizeCreate
  <2>2. UsedAt("write", c, uses)
    BY <1>3 DEF UsedAt, Used
  <2>3. Creates(pc[t], c)
    BY <1>1 DEF Creates
  <2>4. \A id \in PaymentIds : payments'[id] # NoPayment => Used(payments'[id], uses)
    BY <1>2 DEF SagaInv
  <2> HIDE DEF c
  <2> QED BY <1>2, <2>1, <2>2, <2>3, <2>4, OneTaskSaga DEF c
<1>4. CASE c.pay.type = "SINGLE_USE"
  <2>1. Takes(t, "use", c) /\ wire' = wire \cup {r}
    BY <1>4, GotoTakes DEF AuthorizeCreate
  <2>2. \A u \in Tasks : UsedAt(pc'[u], call'[u], uses)
    <3>1. UsedAt("use", c, uses)
      BY <1>1 DEF UsedAt
    <3> QED BY <2>1, <3>1 DEF Takes, SagaInv
  <2>3. \A u \in Tasks : /\ Creates(pc'[u], call'[u]) => Creates(pc[u], call[u])
                         /\ call'[u] = call[u]
    BY <1>1, <1>2, <2>1 DEF Takes, Creates
  <2>4. Creates(pc[t], c)
    BY <1>1 DEF Creates
  <2>5. r.pay = c.pay.id /\ r.inst = c.pay.inst
    OBVIOUS
  <2> HIDE DEF r
  <2>6. \A u \in Tasks : OwnsAt(pc'[u], call'[u], wire', uses, ledger, nextPayment)
    <3> SUFFICES ASSUME NEW u \in Tasks, Creates(pc[u], call[u])
                 PROVE  /\ Given(call[u].pay.id, nextPayment)
                        /\ call[u].pay.ver <= Cardinality(VersionsIn(ledger, call[u].pay.inst))
                        /\ \A q \in wire' : q.pay = call[u].pay.id => q.inst = call[u].pay.inst
                        /\ \A w \in uses : w.pay = call[u].pay.id =>
                             w.inst = call[u].pay.inst /\ w.ver > call[u].pay.ver
      BY <2>3 DEF OwnsAt
    <3>1. OwnsAt(pc[u], call[u], wire, uses, ledger, nextPayment)
      BY DEF SagaInv
    <3>2. r.pay = call[u].pay.id => u = t
      BY <2>4, <2>5 DEF SagaInv
    <3>3. \A q \in wire' : q.pay = call[u].pay.id => q.inst = call[u].pay.inst
      BY <2>1, <2>5, <3>1, <3>2 DEF OwnsAt
    <3> QED BY <3>1, <3>3 DEF OwnsAt
  <2>7. \A s, u \in Tasks : s # u /\ Creates(pc'[s], call'[s]) /\ Creates(pc'[u], call'[u])
                              => call'[s].pay.id # call'[u].pay.id
    BY <2>3 DEF SagaInv
  <2>8. \A q \in wire' : Given(q.pay, nextPayment)
    BY <2>1, <2>4, <2>5 DEF SagaInv, OwnsAt
  <2> QED BY <1>2, <2>2, <2>6, <2>7, <2>8 DEF SagaInv
<1> QED BY <1>3, <1>4

\* A creation takes a number nobody has.
LEMMA BeginSaga ==
  ASSUME TypeInv, SagaInv, NEW t \in Tasks, BeginAny(t)
  PROVE  SagaInv'
<1>1. ASSUME NEW user \in Users, NEW act \in {"SUBMIT", "APPROVE", "REJECT"},
             NEW id \in PaymentIds, Begin(t, act, user, id), payments[id] # NoPayment,
             Takes(t, "fetch", [act |-> act, user |-> user, pay |-> payments[id],
                                status |-> NotRead, denied |-> FALSE])
      PROVE  SagaInv'
  <2> DEFINE n == [act |-> act, user |-> user, pay |-> payments[id], status |-> NotRead,
                   denied |-> FALSE]
  <2>1. UsedAt("fetch", n, uses) /\ ~Creates("fetch", n)
    BY <1>1 DEF UsedAt, Creates, SagaInv
  <2>2. UNCHANGED <<wire, uses, ledger, nextPayment, payments>>
    BY <1>1 DEF Begin, instructionSide
  <2>3. \A k \in PaymentIds : payments'[k] # NoPayment => Used(payments'[k], uses)
    BY <2>2 DEF SagaInv
  <2>4. Takes(t, "fetch", n)
    BY <1>1
  <2> HIDE DEF n
  <2> QED BY <2>1, <2>2, <2>3, <2>4, OneTaskSaga
<1>2. ASSUME NEW user \in Users, NEW i \in Instructions, NEW amount \in Amounts,
             NEW v \in Version, NEW id, id = <<Terms[i].lob, nextPayment[Terms[i].lob] + 1>>,
             NEW n, n = [act |-> "CREATE", user |-> user,
                         pay |-> NewPayment(id, i, v, amount, user),
                         status |-> v.status, denied |-> FALSE],
             BeginCreate(t, user, i, amount), v \in Current(i), v.status \in Active,
             id \in PaymentIds, Takes(t, "authorize", n)
      PROVE  SagaInv'
  <2> DEFINE lob == Terms[i].lob
  <2>1. /\ nextPayment' = [nextPayment EXCEPT ![lob] = @ + 1]
        /\ UNCHANGED <<payments, wire, uses, ledger>>
    BY <1>2 DEF BeginCreate, instructionSide
  <2>2. lob \in Lobs /\ id[1] = lob /\ id[2] = nextPayment[lob] + 1
    BY <1>2, PaymentAssumption
  <2> HIDE DEF lob
  <2>3. nextPayment \in [Lobs -> Nat] /\ nextPayment' \in [Lobs -> Nat]
    BY <2>1, <2>2, PaymentAssumption DEF TypeInv, TypeOK
  <2>4. \A l \in Lobs : nextPayment[l] <= nextPayment'[l]
    BY <2>1, <2>2, <2>3
  <2>5. ~Given(id, nextPayment) /\ Given(id, nextPayment')
    BY <2>1, <2>2, <2>3 DEF Given
  <2>6. n.act = "CREATE" /\ n.pay.id = id /\ n.pay.inst = i /\ n.pay.ver = v.ver
    BY <1>2 DEF NewPayment
  <2>7. \A k \in PaymentIds : Given(k, nextPayment) => Given(k, nextPayment')
    BY <2>3, <2>4, PaymentAssumption DEF Given, PaymentIds
  <2>8. \A u \in Tasks : UsedAt(pc'[u], call'[u], uses)
    <3>1. UsedAt("authorize", n, uses)
      BY <2>6 DEF UsedAt
    <3> QED BY <1>2, <3>1 DEF Takes, SagaInv
  <2>9. OwnsAt("authorize", n, wire, uses, ledger, nextPayment')
    <3>1. n.pay.ver <= Cardinality(VersionsIn(ledger, i))
      <4>1. n.pay.ver = Cardinality(VersionsIn(ledger, i))
        BY <1>2, <2>6, VersionsOf DEF Current
      <4> QED BY <4>1, VersionsGrow DEF TypeInv
    <3>2. \A r \in wire : r.pay # id
      BY <2>5 DEF SagaInv
    <3>3. \A u \in uses : u.pay # id
      BY <2>5 DEF SagaInv
    <3> QED BY <2>5, <2>6, <3>1, <3>2, <3>3 DEF OwnsAt
  <2>10. \A u \in Tasks : OwnsAt(pc'[u], call'[u], wire, uses, ledger, nextPayment')
    <3> SUFFICES ASSUME NEW u \in Tasks, u # t
                 PROVE  OwnsAt(pc'[u], call'[u], wire, uses, ledger, nextPayment')
      BY <1>2, <2>9 DEF Takes
    <3>1. pc'[u] = pc[u] /\ call'[u] = call[u]
      BY <1>2 DEF Takes
    <3>2. Creates(pc[u], call[u]) => call[u].pay.id \in PaymentIds
      BY DEF Creates, TypeInv, TypeOK, Call, Payment
    <3>3. OwnsAt(pc[u], call[u], wire, uses, ledger, nextPayment)
      BY DEF SagaInv
    <3> QED BY <2>7, <3>1, <3>2, <3>3 DEF OwnsAt
  <2>11. \A s, u \in Tasks : s # u /\ Creates(pc'[s], call'[s]) /\ Creates(pc'[u], call'[u])
                               => call'[s].pay.id # call'[u].pay.id
    <3>1. \A u \in Tasks \ {t} : Creates(pc'[u], call'[u]) =>
                                   call'[u].pay.id = call[u].pay.id /\ call[u].pay.id # id
      BY <1>2, <2>5 DEF Takes, SagaInv, OwnsAt
    <3>2. call'[t].pay.id = id
      BY <1>2, <2>6 DEF Takes
    <3>3. \A s, u \in Tasks \ {t} :
            s # u /\ Creates(pc'[s], call'[s]) /\ Creates(pc'[u], call'[u])
              => call'[s].pay.id # call'[u].pay.id
      BY <1>2 DEF Takes, SagaInv
    <3> QED BY <3>1, <3>2, <3>3
  <2>12. /\ \A r \in wire : Given(r.pay, nextPayment')
         /\ \A u \in uses : Given(u.pay, nextPayment')
    BY <2>7 DEF SagaInv, TypeInv, TypeOK, UseRequest, Use
  <2> QED BY <2>1, <2>8, <2>10, <2>11, <2>12 DEF SagaInv
<1> QED BY <1>1, <1>2, BeginTakes

\* The steps of instruction-service: versions are added, and a request is answered by a
\* version later than all there were.
LEMMA ServiceSaga ==
  ASSUME TypeInv, SagaInv, UNCHANGED <<pc, call, payments, nextPayment>>,
         ledger \subseteq ledger', IsFiniteSet(ledger'), uses \subseteq uses',
         \A q \in wire' : \E r \in wire : q.pay = r.pay /\ q.inst = r.inst,
         \A w \in uses' \ uses :
           \E r \in wire : /\ w.pay = r.pay /\ w.inst = r.inst
                           /\ w.ver = Cardinality(VersionsIn(ledger, r.inst)) + 1
  PROVE  SagaInv'
<1>1. \A u \in Tasks : UsedAt(pc'[u], call'[u], uses')
  BY OneTaskUsed
<1>2. ASSUME NEW u \in Tasks
      PROVE  OwnsAt(pc'[u], call'[u], wire', uses', ledger', nextPayment')
  <2> DEFINE c == call[u]
  <2>1. OwnsAt(pc[u], c, wire, uses, ledger, nextPayment)
    BY DEF SagaInv
  <2>2. Creates(pc[u], c) => c \in Call
    BY DEF Creates, TypeInv, TypeOK
  <2>3. ASSUME Creates(pc[u], c), NEW w \in uses' \ uses, w.pay = c.pay.id
        PROVE  w.inst = c.pay.inst /\ w.ver > c.pay.ver
    <3>1. PICK r \in wire : /\ w.pay = r.pay /\ w.inst = r.inst
                            /\ w.ver = Cardinality(VersionsIn(ledger, r.inst)) + 1
      OBVIOUS
    <3>2. r.inst = c.pay.inst /\ c.pay.ver <= Cardinality(VersionsIn(ledger, c.pay.inst))
      BY <2>1, <2>3, <3>1 DEF OwnsAt
    <3>3. c.pay.ver \in Nat
      BY <2>2, <2>3 DEF Call, Payment
    <3>4. Cardinality(VersionsIn(ledger, r.inst)) \in Nat
      BY VersionsGrow DEF TypeInv
    <3> QED BY <3>1, <3>2, <3>3, <3>4
  <2>4. nextPayment \in [Lobs -> Nat] /\ \A l \in Lobs : nextPayment[l] <= nextPayment[l]
    BY PaymentAssumption DEF TypeInv, TypeOK
  <2> HIDE DEF c
  <2>5. OwnsAt(pc[u], c, wire', uses', ledger', nextPayment)
    <3> DEFINE ph == pc[u]
    <3>1. Creates(ph, c) =>
            /\ \A q \in wire' : \/ q.pay = c.pay.id => q.inst = c.pay.inst
                                \/ \E s \in wire : s.pay = q.pay /\ s.inst = q.inst
            /\ \A w \in uses' \ uses : w.pay = c.pay.id => w.inst = c.pay.inst /\ w.ver > c.pay.ver
      BY <2>3
    <3>2. OwnsAt(ph, c, wire, uses, ledger, nextPayment) /\ (Creates(ph, c) => c \in Call)
      BY <2>1, <2>2
    <3> HIDE DEF ph
    <3>3. OwnsAt(ph, c, wire', uses', ledger', nextPayment)
      BY <2>4, <3>1, <3>2, OwnsKept
    <3> QED BY <3>3 DEF ph
  <2> QED BY <2>5 DEF c
<1>3. \A q \in wire' : Given(q.pay, nextPayment)
  BY DEF SagaInv
<1>4. \A w \in uses' : Given(w.pay, nextPayment)
  BY DEF SagaInv
<1>5. \A id \in PaymentIds : payments[id] # NoPayment => Used(payments[id], uses')
  BY UsedKept DEF SagaInv
<1>6. \A s, u \in Tasks : s # u /\ Creates(pc'[s], call'[s]) /\ Creates(pc'[u], call'[u])
                            => call'[s].pay.id # call'[u].pay.id
  BY DEF SagaInv
<1> QED BY <1>1, <1>2, <1>3, <1>4, <1>5, <1>6 DEF SagaInv

LEMMA RequestSaga ==
  ASSUME TypeInv, SagaInv, TypeInv',
         \/ \E r \in wire : UseRead(r) \/ UseCommit(r) \/ UseDropped(r)
         \/ InstructionMoves
  PROVE  SagaInv'
<1>1. ASSUME NEW r \in wire, UseRead(r) PROVE SagaInv'
  <2>1. PICK status : wire' = (wire \ {r}) \cup {[r EXCEPT !.from = status]}
    BY <1>1 DEF UseRead
  <2>2. [r EXCEPT !.from = status].pay = r.pay /\ [r EXCEPT !.from = status].inst = r.inst
    BY DEF TypeInv, TypeOK, UseRequest
  <2>3. \A q \in wire' : \E s \in wire : q.pay = s.pay /\ q.inst = s.inst
    BY <2>1, <2>2
  <2>4. UNCHANGED <<pc, call, payments, nextPayment, ledger, uses>>
    BY <1>1 DEF UseRead
  <2> QED BY <2>3, <2>4, ServiceSaga DEF TypeInv
<1>2. ASSUME NEW r \in wire, UseCommit(r) PROVE SagaInv'
  <2> DEFINE w == [pay |-> r.pay, inst |-> r.inst,
                   ver |-> Cardinality(Service!Of(r.inst)) + 1]
  <2>1. /\ uses' = uses \cup {w} /\ wire' = wire \ {r}
        /\ UNCHANGED <<pc, call, payments, nextPayment>>
    BY <1>2 DEF UseCommit
  <2>2. ledger \subseteq ledger'
    BY <1>2 DEF UseCommit, Service!Extend
  <2>3. /\ w.pay = r.pay /\ w.inst = r.inst
        /\ w.ver = Cardinality(VersionsIn(ledger, r.inst)) + 1
    BY VersionsOf
  <2> HIDE DEF w
  <2>4. \A q \in wire' : \E s \in wire : q.pay = s.pay /\ q.inst = s.inst
    BY <2>1
  <2>5. \A x \in uses' \ uses :
          \E s \in wire : /\ x.pay = s.pay /\ x.inst = s.inst
                          /\ x.ver = Cardinality(VersionsIn(ledger, s.inst)) + 1
    BY <2>1, <2>3
  <2>6. uses \subseteq uses' /\ IsFiniteSet(ledger')
    BY <2>1 DEF TypeInv
  <2> QED BY <2>1, <2>2, <2>4, <2>5, <2>6, ServiceSaga
<1>3. ASSUME NEW r \in wire, UseDropped(r) PROVE SagaInv'
  <2>1. wire' = wire \ {r} /\ UNCHANGED <<pc, call, payments, nextPayment, ledger, uses>>
    BY <1>3 DEF UseDropped
  <2>2. \A q \in wire' : \E s \in wire : q.pay = s.pay /\ q.inst = s.inst
    BY <2>1
  <2> QED BY <2>1, <2>2, ServiceSaga DEF TypeInv
<1>4. CASE InstructionMoves
  <2>1. UNCHANGED <<pc, call, payments, nextPayment, wire, uses>>
    BY <1>4 DEF InstructionMoves
  <2>2. ledger \subseteq ledger' /\ IsFiniteSet(ledger')
    BY <1>4 DEF InstructionMoves, Service!Extend, TypeInv
  <2>3. \A q \in wire' : \E s \in wire : q.pay = s.pay /\ q.inst = s.inst
    BY <2>1
  <2> QED BY <2>1, <2>2, <2>3, ServiceSaga
<1> QED BY <1>1, <1>2, <1>3, <1>4

LEMMA SagaInvariant == Spec => [](TypeInv /\ SagaInv)
<1>1. Init => SagaInv
  BY DEF Init, SagaInv, UsedAt, OwnsAt, Creates
<1>2. TypeInv /\ SagaInv /\ [Next]_vars => (TypeInv /\ SagaInv)'
  <2> SUFFICES ASSUME TypeInv, SagaInv, [Next]_vars PROVE SagaInv'
    BY NextTypeInv
  <2>1. TypeInv'
    BY NextTypeInv
  <2>2. ASSUME NEW t \in Tasks, Interrupt(t) PROVE SagaInv'
    <3>1. Takes(t, "idle", NoCall) /\ UNCHANGED <<payments, nextPayment, wire, uses, ledger>>
      BY <2>2, FinishTakes DEF Interrupt, instructionSide
    <3>2. UsedAt("idle", NoCall, uses) /\ ~Creates("idle", NoCall)
      BY DEF UsedAt, Creates
    <3>3. \A k \in PaymentIds : payments'[k] # NoPayment => Used(payments'[k], uses)
      BY <3>1 DEF SagaInv
    <3> QED BY <3>1, <3>2, <3>3, OneTaskSaga
  <2>3. CASE UNCHANGED <<payments, nextPayment, pc, call, wire, uses, ledger>>
    BY <2>3 DEF SagaInv
  <2>4. CASE Tick \/ UNCHANGED vars
    BY <2>3, <2>4 DEF Tick, vars, instructionSide
  <2> QED BY <2>1, <2>2, <2>4, BeginSaga, AuthorizeSaga, StepSaga, RequestSaga DEF Next
<1> QED BY <1>1, <1>2, InitTypeInv, PTL DEF Spec

\* A payment on a single-use instruction is stored only once instruction-service has
\* committed the instruction's use for this very payment, in a later version than the
\* one the payment names, whatever answers are lost, late or taken for failures.
THEOREM UseComesFirst == Spec => []UsedBeforePaid
<1>1. SagaInv => UsedBeforePaid
  BY DEF SagaInv, Used, UsedBeforePaid, Stored
<1> QED BY <1>1, SagaInvariant, PTL

=============================================================================
