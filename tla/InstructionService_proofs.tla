----------------------- MODULE InstructionService_proofs -----------------------
(***************************************************************************)
(* Theorems about InstructionService, for every directory of users, every  *)
(* set of tasks and every bound, however the calls race: type correctness, *)
(* no instruction carries an approval that is not independent, versions    *)
(* form a chain, history only grows, event numbers are never given twice.  *)
(***************************************************************************)
EXTENDS InstructionService, TLAPS

-----------------------------------------------------------------------------
(* What the helpers return.                                                *)

LEMMA NewInstructionType ==
  ASSUME NEW req \in Requests, NEW user \in Users
  PROVE  NewInstruction(req, user) \in Body
BY ServiceAssumption DEF NewInstruction, Body, Types, Statuses, Optional

LEMMA RevisedType ==
  ASSUME NEW b \in Body, NEW req \in Requests
  PROVE  Revised(b, req) \in Body
BY ServiceAssumption DEF Revised, Body

LEMMA PresentedType ==
  ASSUME NEW b \in Body, NEW act \in Actions
  PROVE  Presented(act, b) \in Body
<1>1. CASE act = "DELETE"
  BY <1>1 DEF Presented, Body, Statuses
<1>2. CASE act = "USE"
  BY <1>2 DEF Presented, Body
<1>3. CASE act \notin {"DELETE", "USE"}
  BY <1>3 DEF Presented
<1> QED BY <1>1, <1>2, <1>3

LEMMA EffectType ==
  ASSUME NEW b \in Body, NEW act \in Actions, NEW user \in Users
  PROVE  Effect(act, b, user) \in Body
<1>1. CASE act = "SUBMIT"
  BY <1>1 DEF Effect, Submitted, Body, Statuses
<1>2. CASE act = "APPROVE"
  BY <1>2 DEF Effect, ApprovedBy, Body, Statuses, Types, Optional
<1>3. CASE act = "REJECT"
  BY <1>3 DEF Effect, RejectedBy, Body, Statuses, Optional
<1>4. CASE act = "SUSPEND"
  BY <1>4 DEF Effect, SuspendedBy, Body, Statuses, Optional
<1>5. CASE act = "REACTIVATE"
  BY <1>5 DEF Effect, Reactivated, Body, Statuses, Types, Optional
<1>6. CASE act = "USE"
  BY <1>6 DEF Effect, UsedUp, Body, Statuses
<1>7. CASE act \notin {"SUBMIT", "APPROVE", "REJECT", "SUSPEND", "REACTIVATE", "USE"}
  BY <1>7 DEF Effect
<1> QED BY <1>1, <1>2, <1>3, <1>4, <1>5, <1>6, <1>7

LEMMA OutcomeType ==
  ASSUME NEW b \in Body, NEW act \in Actions, NEW user \in Users
  PROVE  Outcome(act, b, user) \in Body
<1> DEFINE e == Effect(act, b, user)
<1>1. e \in Body
  BY EffectType
<1>2. [act |-> act, user |-> user] \in LifecycleEvent
  BY DEF LifecycleEvent
<1>3. e.trail \in Seq(LifecycleEvent)
  BY <1>1 DEF Body
<1>4. Append(e.trail, [act |-> act, user |-> user]) \in Seq(LifecycleEvent)
  BY <1>2, <1>3
<1>5. [e EXCEPT !.trail = Append(@, [act |-> act, user |-> user])] \in Body
  <2> HIDE DEF e
  <2> QED BY <1>1, <1>4 DEF Body
<1> QED BY <1>5 DEF Outcome

LEMMA SecurityEventType ==
  ASSUME NEW c \in Call, c.evt > 0
  PROVE  SecurityEvent(c) \in Event
<1>1. /\ c.id \in Ids /\ c.act \in Actions /\ c.subject \in Users
      /\ c.evt \in Nat /\ c.seen \in Nat /\ c.base \in Nat
  BY DEF Call
<1>2. (IF c.denied THEN 0 ELSE IF c.act = "VIEW" THEN c.seen ELSE c.base + 1) \in Nat
  BY <1>1
<1> QED BY <1>1, <1>2 DEF SecurityEvent, Event

LEMMA InstructionFactType ==
  ASSUME NEW c \in Call
  PROVE  InstructionFact(c) \in Fact
BY DEF Call, InstructionFact, Fact

-----------------------------------------------------------------------------
(* Type correctness.  It needs to know that an instruction number is taken *)
(* by an accepted request, and that an event is numbered before it is      *)
(* stored or published.                                                    *)

Numbered ==
  \A t \in Tasks :
    \/ pc[t] \in {"insert", "pubevent"}
    \/ pc[t] = "commit" /\ IsRecorded(call[t].subject)
    => call[t].evt > 0

TypeInv ==
  /\ TypeOK
  /\ \A l \in Lobs : nextId[l] <= calls
  /\ Numbered

LEMMA InitTypeInv == Init => TypeInv
BY ServiceAssumption
   DEF Init, TypeInv, TypeOK, Numbered, Phases

\* A task that starts or ends keeps the types of its phase and of its call.
LEMMA AcceptType ==
  ASSUME TypeInv, NEW t \in Tasks, NEW c \in Call, Accept(t, c)
  PROVE  /\ pc' \in [Tasks -> Phases]
         /\ DOMAIN call' = Tasks
         /\ \A u \in Tasks : pc'[u] # "idle" => call'[u] \in Call
         /\ calls' \in 0..MaxCalls /\ calls' = calls + 1 /\ calls < MaxCalls
         /\ Numbered'
<1> USE DEF TypeInv, TypeOK, Accept, Goto
<1>1. pc' \in [Tasks -> Phases] /\ pc' = [pc EXCEPT ![t] = "authorize"]
  BY DEF Phases
<1>2. DOMAIN call' = Tasks /\ call' = [call EXCEPT ![t] = c]
  OBVIOUS
<1>3. \A u \in Tasks : pc'[u] # "idle" => call'[u] \in Call
  BY <1>1, <1>2
<1>4. calls' \in 0..MaxCalls /\ calls' = calls + 1 /\ calls < MaxCalls
  BY ServiceAssumption
<1>5. Numbered'
  BY <1>1, <1>2 DEF Numbered
<1> QED BY <1>1, <1>2, <1>3, <1>4, <1>5

LEMMA FinishType ==
  ASSUME TypeInv, NEW t \in Tasks, Finish(t)
  PROVE  /\ pc' \in [Tasks -> Phases]
         /\ DOMAIN call' = Tasks
         /\ \A u \in Tasks : pc'[u] # "idle" => call'[u] \in Call
         /\ Numbered'
<1> USE DEF TypeInv, TypeOK, Finish
<1>1. pc' \in [Tasks -> Phases] /\ pc' = [pc EXCEPT ![t] = "idle"]
  BY DEF Phases
<1>2. DOMAIN call' = Tasks /\ call' = [call EXCEPT ![t] = NoCall]
  OBVIOUS
<1>3. \A u \in Tasks : pc'[u] # "idle" => call'[u] \in Call
  BY <1>1, <1>2
<1>4. Numbered'
  BY <1>1, <1>2 DEF Numbered
<1> QED BY <1>1, <1>2, <1>3, <1>4

\* So does a task that moves on with a call c of the right type.
LEMMA MoveType ==
  ASSUME TypeInv, NEW t \in Tasks, NEW phase \in Phases, NEW c \in Call,
         pc' = [pc EXCEPT ![t] = phase],
         call' = [call EXCEPT ![t] = c],
         \/ phase \in {"insert", "pubevent"}
         \/ phase = "commit" /\ IsRecorded(c.subject)
         => c.evt > 0
  PROVE  /\ pc' \in [Tasks -> Phases]
         /\ DOMAIN call' = Tasks
         /\ \A u \in Tasks : pc'[u] # "idle" => call'[u] \in Call
         /\ Numbered'
<1> USE DEF TypeInv, TypeOK
<1>1. pc' \in [Tasks -> Phases] /\ DOMAIN call' = Tasks
  OBVIOUS
<1>2. \A u \in Tasks : pc'[u] # "idle" => call'[u] \in Call
  OBVIOUS
<1>3. Numbered'
  BY DEF Numbered
<1> QED BY <1>1, <1>2, <1>3

LEMMA GotoType ==
  ASSUME TypeInv, NEW t \in Tasks, NEW phase \in Phases,
         pc[t] # "idle",
         pc' = [pc EXCEPT ![t] = phase],
         UNCHANGED call,
         \/ phase \in {"insert", "pubevent"}
         \/ phase = "commit" /\ IsRecorded(call[t].subject)
         => call[t].evt > 0
  PROVE  /\ pc' \in [Tasks -> Phases]
         /\ DOMAIN call' = Tasks
         /\ \A u \in Tasks : pc'[u] # "idle" => call'[u] \in Call
         /\ Numbered'
<1> USE DEF TypeInv, TypeOK
<1>1. pc' \in [Tasks -> Phases] /\ DOMAIN call' = Tasks
  OBVIOUS
<1>2. \A u \in Tasks : pc'[u] # "idle" => call'[u] \in Call
  OBVIOUS
<1>3. Numbered'
  BY DEF Numbered
<1> QED BY <1>1, <1>2, <1>3

LEMMA BeginOnType ==
  ASSUME TypeInv, NEW t \in Tasks, NEW d \in docs, NEW act \in Actions,
         NEW user \in Users, NEW principal \in Users, NEW copy \in Body,
         BeginOn(t, d, act, user, principal, copy)
  PROVE  TypeInv'
<1> DEFINE c == [act |-> act, subject |-> user, principal |-> principal, id |-> d.id,
                 body |-> copy, seen |-> d.ver, base |-> 0, evt |-> 0, denied |-> FALSE]
<1>1. d \in Doc
  BY DEF TypeInv, TypeOK
<1>2. c \in Call
  BY <1>1 DEF Call, Doc
<1>3. Accept(t, c) /\ UNCHANGED <<storage, counters, topics, now>>
  BY DEF BeginOn
<1> HIDE DEF c
<1>4. /\ pc' \in [Tasks -> Phases]
      /\ DOMAIN call' = Tasks
      /\ \A u \in Tasks : pc'[u] # "idle" => call'[u] \in Call
      /\ calls' \in 0..MaxCalls /\ calls' = calls + 1
      /\ Numbered'
  BY <1>2, <1>3, AcceptType
<1>5. \A l \in Lobs : nextId'[l] <= calls'
  BY <1>3, <1>4 DEF TypeInv, TypeOK, counters
<1> QED BY <1>3, <1>4, <1>5 DEF TypeInv, TypeOK, counters, storage, topics

LEMMA BeginCreateType ==
  ASSUME TypeInv, NEW t \in Tasks, NEW user \in Users, NEW req \in Requests,
         BeginCreate(t, user, req)
  PROVE  TypeInv'
<1> DEFINE id == <<req.lob, nextId[req.lob] + 1>>
           c  == [act |-> "CREATE", subject |-> user, principal |-> user, id |-> id,
                  body |-> NewInstruction(req, user),
                  seen |-> 0, base |-> 0, evt |-> 0, denied |-> FALSE]
<1>1. /\ Accept(t, c)
      /\ nextId' = [nextId EXCEPT ![req.lob] = @ + 1]
      /\ UNCHANGED <<storage, nextEvent, topics, now>>
  BY DEF BeginCreate, NextInstructionId, Incremented
<1>2. req.lob \in Lobs
  BY ServiceAssumption
<1>3. calls < MaxCalls /\ calls \in 0..MaxCalls /\ MaxCalls \in Nat
  BY <1>1, ServiceAssumption DEF Accept, TypeInv, TypeOK
<1>4. nextId \in [Lobs -> 0..MaxCalls] /\ \A l \in Lobs : nextId[l] <= calls
  BY DEF TypeInv, TypeOK
<1>5. id \in Ids
  BY <1>2, <1>3, <1>4 DEF Ids
<1>6. NewInstruction(req, user) \in Body
  BY NewInstructionType
<1>7. c \in Call
  <2> HIDE DEF id
  <2> QED BY <1>5, <1>6 DEF Call, Actions
<1> HIDE DEF c, id
<1>8. /\ pc' \in [Tasks -> Phases]
      /\ DOMAIN call' = Tasks
      /\ \A u \in Tasks : pc'[u] # "idle" => call'[u] \in Call
      /\ calls' \in 0..MaxCalls /\ calls' = calls + 1
      /\ Numbered'
  BY <1>1, <1>7, AcceptType
<1>9. /\ nextId' \in [Lobs -> 0..MaxCalls]
      /\ \A l \in Lobs : nextId'[l] <= calls'
  BY <1>1, <1>2, <1>3, <1>4, <1>8
<1> QED BY <1>1, <1>8, <1>9 DEF TypeInv, TypeOK, storage, topics

LEMMA BeginAnyType ==
  ASSUME TypeInv, NEW t \in Tasks, BeginAny(t)
  PROVE  TypeInv'
<1>1. ASSUME NEW user \in Users, NEW req \in Requests, BeginCreate(t, user, req)
      PROVE  TypeInv'
  BY <1>1, BeginCreateType
<1>2. ASSUME NEW user \in Users, NEW req \in Requests, BeginUpdate(t, user, req)
      PROVE  TypeInv'
  <2>1. PICK d \in Readable("UPDATE") :
               BeginOn(t, d, "UPDATE", user, user, Revised(d.body, req))
    BY <1>2 DEF BeginUpdate
  <2>2. d \in docs /\ d.body \in Body
    BY DEF Readable, TypeInv, TypeOK, Doc
  <2>3. Revised(d.body, req) \in Body /\ "UPDATE" \in Actions
    BY <2>2, RevisedType DEF Actions
  <2> QED BY <2>1, <2>2, <2>3, BeginOnType
<1>3. ASSUME NEW user \in Users, NEW act \in Actions, Begin(t, act, user)
      PROVE  TypeInv'
  <2>1. PICK d \in Readable(act), p \in Principals(act, user) :
               BeginOn(t, d, act, user, p, Presented(act, d.body))
    BY <1>3 DEF Begin
  <2>2. d \in docs /\ d.body \in Body /\ p \in Users
    BY ServiceAssumption DEF Readable, Principals, TypeInv, TypeOK, Doc
  <2>3. Presented(act, d.body) \in Body
    BY <2>2, PresentedType
  <2> QED BY <2>1, <2>2, <2>3, BeginOnType
<1> QED BY <1>1, <1>2, <1>3 DEF BeginAny

LEMMA CommitType ==
  ASSUME TypeInv, NEW t \in Tasks, Commit(t)
  PROVE  TypeInv'
<1> DEFINE c == call[t]
           new == [id |-> c.id, ver |-> c.base + 1, out |-> FALSE, body |-> c.body]
<1>1. c \in Call /\ pc[t] = "commit"
  BY DEF Commit, TypeInv, TypeOK
<1>2. new \in Doc
  <2>1. c.id \in Ids /\ c.base + 1 \in Nat \ {0} /\ c.body \in Body
    BY <1>1 DEF Call
  <2> HIDE DEF c
  <2> QED BY <2>1 DEF Doc
<1>3. \A d \in Closed(c) : d \in Doc /\ [d EXCEPT !.out = TRUE] \in Doc
  BY DEF Closed, TypeInv, TypeOK, Doc
<1>4. docs' \subseteq Doc
  BY <1>2, <1>3 DEF Commit, TypeInv, TypeOK
<1>5. CASE IsRecorded(c.subject)
  <2>1. c.evt > 0
    BY <1>1, <1>5 DEF TypeInv, Numbered
  <2>2. events' \subseteq Event
    BY <1>1, <1>5, <2>1, SecurityEventType DEF Commit, TypeInv, TypeOK
  <2>3. pc' = [pc EXCEPT ![t] = "pubevent"] /\ UNCHANGED call
    BY <1>5 DEF Commit, Goto
  <2>4. /\ pc' \in [Tasks -> Phases]
        /\ DOMAIN call' = Tasks
        /\ \A u \in Tasks : pc'[u] # "idle" => call'[u] \in Call
        /\ Numbered'
    BY <1>1, <2>1, <2>3, GotoType DEF Phases
  <2> QED BY <1>4, <2>2, <2>4 DEF Commit, TypeInv, TypeOK, counters, topics
<1>6. CASE ~IsRecorded(c.subject)
  <2>1. UNCHANGED events /\ Finish(t)
    BY <1>6 DEF Commit
  <2>2. /\ pc' \in [Tasks -> Phases]
        /\ DOMAIN call' = Tasks
        /\ \A u \in Tasks : pc'[u] # "idle" => call'[u] \in Call
        /\ Numbered'
    BY <2>1, FinishType
  <2> QED BY <1>4, <2>1, <2>2 DEF Commit, TypeInv, TypeOK, counters, topics
<1> QED BY <1>5, <1>6

LEMMA StepTypeInv ==
  ASSUME TypeInv, NEW t \in Tasks, Step(t)
  PROVE  TypeInv'
<1> DEFINE Kept == /\ pc' \in [Tasks -> Phases]
                   /\ DOMAIN call' = Tasks
                   /\ \A u \in Tasks : pc'[u] # "idle" => call'[u] \in Call
                   /\ Numbered'
<1>a. pc[t] # "idle" => call[t] \in Call
  BY DEF TypeInv, TypeOK
<1>1. CASE AuthorizeMutation(t)
  <2> DEFINE o == Outcome(call[t].act, call[t].body, call[t].subject)
             n == [call[t] EXCEPT !.body = o]
             phase == IF call[t].act = "CREATE" THEN "txwrite" ELSE "txread"
  <2>1. call[t] \in Call
    BY <1>1, <1>a DEF AuthorizeMutation
  <2>2. o \in Body
    BY <2>1, OutcomeType DEF Call
  <2>3. n \in Call
    <3> HIDE DEF o
    <3> QED BY <2>1, <2>2 DEF Call
  <2>4. call' = [call EXCEPT ![t] = n] /\ pc' = [pc EXCEPT ![t] = phase]
    BY <1>1 DEF AuthorizeMutation, Goto
  <2>5. phase \in Phases /\ phase \notin {"insert", "pubevent", "commit"}
    BY DEF Phases
  <2> HIDE DEF n, phase
  <2>6. Kept
    BY <2>3, <2>4, <2>5, MoveType
  <2> QED BY <1>1, <2>6 DEF AuthorizeMutation, TypeInv, TypeOK, counters, storage, topics
<1>2. CASE AuthorizeView(t)
  <2>1. CASE IsRecorded(call[t].subject)
    <3>1. pc' = [pc EXCEPT ![t] = "audit"] /\ UNCHANGED call /\ pc[t] # "idle"
      BY <1>2, <2>1 DEF AuthorizeView, Goto
    <3>2. Kept
      BY <3>1, GotoType DEF Phases
    <3> QED BY <1>2, <3>2 DEF AuthorizeView, TypeInv, TypeOK, counters, storage, topics
  <2>2. CASE ~IsRecorded(call[t].subject)
    <3>1. Kept
      BY <1>2, <2>2, FinishType DEF AuthorizeView
    <3> QED BY <1>2, <3>1 DEF AuthorizeView, TypeInv, TypeOK, counters, storage, topics
  <2> QED BY <2>1, <2>2
<1>3. CASE Deny(t)
  <2>1. CASE IsRecorded(call[t].subject)
    <3> DEFINE n == [call[t] EXCEPT !.denied = TRUE]
    <3>1. call' = [call EXCEPT ![t] = n] /\ pc' = [pc EXCEPT ![t] = "audit"]
      BY <1>3, <2>1 DEF Deny, Goto
    <3>2. n \in Call
      BY <1>3, <1>a DEF Deny, Call
    <3> HIDE DEF n
    <3>3. Kept
      BY <3>1, <3>2, MoveType DEF Phases
    <3> QED BY <1>3, <3>3 DEF Deny, TypeInv, TypeOK, counters, storage, topics
  <2>2. CASE ~IsRecorded(call[t].subject)
    <3>1. Kept
      BY <1>3, <2>2, FinishType DEF Deny
    <3> QED BY <1>3, <3>1 DEF Deny, TypeInv, TypeOK, counters, storage, topics
  <2> QED BY <2>1, <2>2
<1>4. CASE TxRead(t)
  <2>1. PICK d \in docs : call' = [call EXCEPT ![t].base = d.ver]
    BY <1>4 DEF TxRead
  <2> DEFINE n == [call[t] EXCEPT !.base = d.ver]
  <2>2. call' = [call EXCEPT ![t] = n] /\ pc' = [pc EXCEPT ![t] = "txwrite"]
    BY <1>4, <2>1 DEF TxRead, Goto
  <2>3. n \in Call
    <3>1. d.ver \in Nat
      BY DEF TypeInv, TypeOK, Doc
    <3> QED BY <1>4, <1>a, <3>1 DEF TxRead, Call
  <2> HIDE DEF n
  <2>4. Kept
    BY <2>2, <2>3, MoveType DEF Phases
  <2> QED BY <1>4, <2>4 DEF TxRead, TypeInv, TypeOK, counters, storage, topics
<1>5. CASE TxWrite(t)
  <2> DEFINE phase == IF IsRecorded(call[t].subject) THEN "txevent" ELSE "commit"
  <2>1. pc' = [pc EXCEPT ![t] = phase] /\ UNCHANGED call /\ pc[t] # "idle"
    BY <1>5 DEF TxWrite, Goto
  <2>2. phase \in Phases /\ phase \notin {"insert", "pubevent"}
        /\ (phase = "commit" => ~IsRecorded(call[t].subject))
    BY DEF Phases
  <2> HIDE DEF phase
  <2>3. Kept
    BY <2>1, <2>2, GotoType
  <2> QED BY <1>5, <2>3 DEF TxWrite, TypeInv, TypeOK, counters, storage, topics
<1>6. CASE TxConflict(t)
  <2>1. Kept
    BY <1>6, FinishType DEF TxConflict
  <2> QED BY <1>6, <2>1 DEF TxConflict, TypeInv, TypeOK, counters, storage, topics
<1>7. CASE AllocateEvent(t)
  <2> DEFINE k == nextEvent[call[t].id] + 1
             n == [call[t] EXCEPT !.evt = k]
             phase == IF pc[t] = "txevent" THEN "commit" ELSE "insert"
  <2>1. call[t] \in Call /\ call[t].id \in Ids
    BY <1>7, <1>a DEF AllocateEvent, Incremented, NextEventNumber, Call
  <2>2. k \in Nat /\ k > 0
    BY <2>1 DEF TypeInv, TypeOK
  <2>3. n \in Call /\ n.evt > 0
    <3> HIDE DEF k
    <3> QED BY <2>1, <2>2 DEF Call
  <2>4. /\ call' = [call EXCEPT ![t] = n] /\ pc' = [pc EXCEPT ![t] = phase]
        /\ nextEvent' = [nextEvent EXCEPT ![call[t].id] = @ + 1]
    BY <1>7 DEF AllocateEvent, Incremented, NextEventNumber, Goto
  <2>5. phase \in Phases
    BY DEF Phases
  <2> HIDE DEF n, phase
  <2>6. Kept
    BY <2>3, <2>4, <2>5, MoveType
  <2>7. nextEvent' \in [Ids -> Nat]
    BY <2>1, <2>4 DEF TypeInv, TypeOK
  <2> QED BY <1>7, <2>6, <2>7 DEF AllocateEvent, Incremented, NextEventNumber, TypeInv, TypeOK,
             storage, topics
<1>8. CASE Commit(t)
  BY <1>8, CommitType
<1>9. CASE InsertEvent(t)
  <2>1. pc[t] = "insert" /\ call[t] \in Call /\ call[t].evt > 0
    BY <1>9, <1>a DEF InsertEvent, TypeInv, Numbered
  <2>2. events' \subseteq Event
    BY <1>9, <2>1, SecurityEventType DEF InsertEvent, TypeInv, TypeOK
  <2>3. Kept
    BY <1>9, <2>1, GotoType DEF InsertEvent, Goto, Phases
  <2> QED BY <1>9, <2>2, <2>3 DEF InsertEvent, TypeInv, TypeOK, counters, topics
<1>10. CASE PublishEvent(t)
  <2>1. pc[t] = "pubevent" /\ call[t] \in Call /\ call[t].evt > 0
    BY <1>10, <1>a DEF PublishEvent, TypeInv, Numbered
  <2>2. eventTopic' \subseteq Event
    BY <1>10, <2>1, SecurityEventType DEF PublishEvent, TypeInv, TypeOK
  <2>3. CASE IsMutation(call[t])
    <3>1. Kept
      BY <1>10, <2>1, <2>3, GotoType DEF PublishEvent, Goto, Phases
    <3> QED BY <1>10, <2>2, <3>1 DEF PublishEvent, TypeInv, TypeOK, counters, storage
  <2>4. CASE ~IsMutation(call[t])
    <3>1. Kept
      BY <1>10, <2>4, FinishType DEF PublishEvent
    <3> QED BY <1>10, <2>2, <3>1 DEF PublishEvent, TypeInv, TypeOK, counters, storage
  <2> QED BY <2>3, <2>4
<1>11. CASE PublishFact(t)
  <2>1. InstructionFact(call[t]) \in Fact
    BY <1>11, <1>a, InstructionFactType DEF PublishFact
  <2>2. factTopic' \in Seq(Fact)
    <3>1. factTopic \in Seq(Fact)
      BY DEF TypeInv, TypeOK
    <3>2. Append(factTopic, InstructionFact(call[t])) \in Seq(Fact)
      BY <2>1, <3>1
    <3>3. factTopic' \in {factTopic, Append(factTopic, InstructionFact(call[t]))}
      BY <1>11 DEF PublishFact
    <3> QED BY <3>1, <3>2, <3>3
  <2>3. Kept
    BY <1>11, FinishType DEF PublishFact
  <2> QED BY <1>11, <2>2, <2>3 DEF PublishFact, TypeInv, TypeOK, counters, storage
<1> QED BY <1>1, <1>2, <1>3, <1>4, <1>5, <1>6, <1>7, <1>8, <1>9, <1>10, <1>11 DEF Step

LEMMA NextTypeInv == TypeInv /\ [Next]_vars => TypeInv'
<1> SUFFICES ASSUME TypeInv, [Next]_vars PROVE TypeInv'
  OBVIOUS
<1>1. ASSUME NEW t \in Tasks, BeginAny(t) PROVE TypeInv'
  BY <1>1, BeginAnyType
<1>2. ASSUME NEW t \in Tasks, Step(t) PROVE TypeInv'
  BY <1>2, StepTypeInv
<1>3. ASSUME NEW t \in Tasks, Interrupt(t) PROVE TypeInv'
  BY <1>3, FinishType DEF Interrupt, TypeInv, TypeOK, counters, storage, topics
<1>4. CASE Tick
  <2>1. now' \in 0..MaxNow
    BY <1>4, ServiceAssumption DEF Tick, TypeInv, TypeOK
  <2> QED BY <1>4, <2>1
          DEF Tick, TypeInv, TypeOK, Numbered, counters, storage, topics
<1>5. CASE UNCHANGED vars
  BY <1>5 DEF vars, TypeInv, TypeOK, Numbered, counters, storage, topics
<1> QED BY <1>1, <1>2, <1>3, <1>4, <1>5 DEF Next

\* Every reachable state is well typed, whatever the desk, the tasks and the bounds.
THEOREM TypeCorrect == Spec => []TypeOK
<1>1. Spec => []TypeInv
  BY InitTypeInv, NextTypeInv, PTL DEF Spec
<1>2. TypeInv => TypeOK
  BY DEF TypeInv
<1> QED BY <1>1, <1>2, PTL

-----------------------------------------------------------------------------
(* Approvals.  IndependentApproval speaks of stored versions only and is   *)
(* not inductive: a commit stores the copy a call carries, and an update   *)
(* may move an instruction to another desk.  ApprovalInv adds that the     *)
(* copies in flight are sound too, that a draft or a pending instruction   *)
(* has no approver, and that the person an approval is recorded for is the *)
(* one the policy was asked about.                                         *)

LEMMA RevisedApproval ==
  ASSUME NEW b \in Body, NEW req \in Requests, b.status = "DRAFT", SoundApproval(b)
  PROVE  SoundApproval(Revised(b, req))
BY DEF SoundApproval, Independent, Revised, Body

LEMMA PresentedApproval ==
  ASSUME NEW b \in Body, NEW act \in Actions, SoundApproval(b)
  PROVE  SoundApproval(Presented(act, b))
<1>1. CASE act = "DELETE"
  BY <1>1 DEF Presented, SoundApproval, Independent, Body
<1>2. CASE act = "USE"
  BY <1>2 DEF Presented, SoundApproval, Independent, Body
<1>3. CASE act \notin {"DELETE", "USE"}
  BY <1>3 DEF Presented
<1> QED BY <1>1, <1>2, <1>3

LEMMA EffectApproval ==
  ASSUME NEW b \in Body, NEW act \in Actions, NEW user \in Users, SoundApproval(b),
         act = "SUBMIT" => b.status = "DRAFT",
         act = "APPROVE" => IndependentApprover(user, b) /\ SameLob(user, b)
  PROVE  SoundApproval(Effect(act, b, user))
<1> USE DEF SoundApproval, Independent
<1>1. CASE act = "SUBMIT"
  BY <1>1 DEF Effect, Submitted, Body
<1>2. CASE act = "APPROVE"
  BY <1>2 DEF Effect, ApprovedBy, Body, Types, IndependentApprover, SameLob, CreatorIsNotApprover,
              NotSupervisorOfCreator, ApproverNotSubordinateOfCreator, ApproverIsAllowed
<1>3. CASE act = "REJECT"
  BY <1>3 DEF Effect, RejectedBy, Body
<1>4. CASE act = "SUSPEND"
  BY <1>4 DEF Effect, SuspendedBy, Body
<1>5. CASE act = "REACTIVATE"
  BY <1>5 DEF Effect, Reactivated, Body, Types
<1>6. CASE act = "USE"
  BY <1>6 DEF Effect, UsedUp, Body
<1>7. CASE act \notin {"SUBMIT", "APPROVE", "REJECT", "SUSPEND", "REACTIVATE", "USE"}
  BY <1>7 DEF Effect
<1> QED BY <1>1, <1>2, <1>3, <1>4, <1>5, <1>6, <1>7

\* What the handler stores after the policy allowed the call.
LEMMA OutcomeApproval ==
  ASSUME NEW b \in Body, NEW act \in Actions, NEW user \in Users, SoundApproval(b),
         NEW p \in Users, act \notin {"VIEW", "USE"} => p = user,
         Allowed(act, p, DelegatedRoles, b, now)
  PROVE  SoundApproval(Outcome(act, b, user))
<1> DEFINE e == Effect(act, b, user)
<1>1. act = "SUBMIT" => b.status = "DRAFT"
  BY DEF Allowed, AllowSubmit
<1>2. act = "APPROVE" => IndependentApprover(user, b) /\ SameLob(user, b)
  BY DEF Allowed, AllowApprove, DeskApprover
<1>3. e \in Body /\ SoundApproval(e)
  BY <1>1, <1>2, EffectType, EffectApproval
<1>4. SoundApproval([e EXCEPT !.trail = Append(@, [act |-> act, user |-> user])])
  <2> HIDE DEF e
  <2> QED BY <1>3 DEF SoundApproval, Independent, Body
<1> QED BY <1>4 DEF Outcome

-----------------------------------------------------------------------------

LEMMA InitApproval == Init => ApprovalInv
BY DEF Init, ApprovalInv

\* A step that stores nothing and gives at most task t a new, sound call.
LEMMA QuietApproval ==
  ASSUME TypeInv, ApprovalInv, NEW t \in Tasks, UNCHANGED docs,
         \A u \in Tasks \ {t} : pc'[u] = pc[u] /\ call'[u] = call[u],
         pc'[t] # "idle" =>
           /\ SoundApproval(call'[t].body)
           /\ call'[t].act \notin {"VIEW", "USE"} => call'[t].principal = call'[t].subject
  PROVE  ApprovalInv'
<1>1. \A d \in docs' : SoundApproval(d.body)
  BY DEF ApprovalInv
<1>2. ASSUME NEW u \in Tasks, pc'[u] # "idle"
      PROVE  /\ SoundApproval(call'[u].body)
             /\ call'[u].act \notin {"VIEW", "USE"} => call'[u].principal = call'[u].subject
  BY <1>2 DEF ApprovalInv
<1> QED BY <1>1, <1>2 DEF ApprovalInv

LEMMA BeginOnApproval ==
  ASSUME TypeInv, ApprovalInv, NEW t \in Tasks, NEW d, NEW act, NEW user,
         NEW principal, NEW copy, SoundApproval(copy),
         act \notin {"VIEW", "USE"} => principal = user,
         BeginOn(t, d, act, user, principal, copy)
  PROVE  ApprovalInv'
<1> DEFINE c == [act |-> act, subject |-> user, principal |-> principal, id |-> d.id,
                 body |-> copy, seen |-> d.ver, base |-> 0, evt |-> 0, denied |-> FALSE]
<1>1. Accept(t, c) /\ UNCHANGED docs
  BY DEF BeginOn, storage
<1>2. c.body = copy /\ c.act = act /\ c.subject = user /\ c.principal = principal
  OBVIOUS
<1> HIDE DEF c
<1>3. call'[t] = c /\ \A u \in Tasks \ {t} : pc'[u] = pc[u] /\ call'[u] = call[u]
  BY <1>1 DEF Accept, Goto, TypeInv, TypeOK
<1> QED BY <1>1, <1>2, <1>3, QuietApproval

LEMMA BeginAnyApproval ==
  ASSUME TypeInv, ApprovalInv, NEW t \in Tasks, BeginAny(t)
  PROVE  ApprovalInv'
<1>1. ASSUME NEW user \in Users, NEW req \in Requests, BeginCreate(t, user, req)
      PROVE  ApprovalInv'
  <2> DEFINE b == NewInstruction(req, user)
             c == [act |-> "CREATE", subject |-> user, principal |-> user,
                   id |-> <<req.lob, nextId[req.lob] + 1>>, body |-> b,
                   seen |-> 0, base |-> 0, evt |-> 0, denied |-> FALSE]
  <2>1. SoundApproval(b)
    BY DEF NewInstruction, SoundApproval, Independent
  <2>2. c.body = b /\ c.subject = user /\ c.principal = user
    OBVIOUS
  <2>3. Accept(t, c) /\ UNCHANGED docs
    BY <1>1 DEF BeginCreate, NextInstructionId, Incremented, storage
  <2> HIDE DEF b, c
  <2>4. call'[t] = c /\ \A u \in Tasks \ {t} : pc'[u] = pc[u] /\ call'[u] = call[u]
    BY <2>3 DEF Accept, Goto, TypeInv, TypeOK
  <2> QED BY <2>1, <2>2, <2>3, <2>4, QuietApproval
<1>2. ASSUME NEW user \in Users, NEW req \in Requests, BeginUpdate(t, user, req)
      PROVE  ApprovalInv'
  <2>1. PICK d \in Readable("UPDATE") :
               BeginOn(t, d, "UPDATE", user, user, Revised(d.body, req))
    BY <1>2 DEF BeginUpdate
  <2>2. /\ d.body \in Body /\ SoundApproval(d.body)
        /\ d.body.status = "DRAFT"
    BY DEF Readable, OpenTo, ApprovalInv, TypeInv, TypeOK, Doc
  <2>3. SoundApproval(Revised(d.body, req))
    BY <2>2, RevisedApproval
  <2> QED BY <2>1, <2>3, BeginOnApproval
<1>3. ASSUME NEW user \in Users, NEW act \in Actions, Begin(t, act, user)
      PROVE  ApprovalInv'
  <2>1. PICK d \in Readable(act), p \in Principals(act, user) :
               BeginOn(t, d, act, user, p, Presented(act, d.body))
    BY <1>3 DEF Begin
  <2>2. d.body \in Body /\ SoundApproval(d.body)
    BY DEF Readable, ApprovalInv, TypeInv, TypeOK, Doc
  <2>3. SoundApproval(Presented(act, d.body))
    BY <2>2, PresentedApproval
  <2>4. act \notin {"VIEW", "USE"} => p = user
    BY DEF Principals
  <2> QED BY <2>1, <2>3, <2>4, BeginOnApproval
<1> QED BY <1>1, <1>2, <1>3 DEF BeginAny

LEMMA StepApproval ==
  ASSUME TypeInv, ApprovalInv, NEW t \in Tasks, Step(t)
  PROVE  ApprovalInv'
<1> DEFINE Others == \A u \in Tasks \ {t} : pc'[u] = pc[u] /\ call'[u] = call[u]
<1>f. pc \in [Tasks -> Phases] /\ DOMAIN call = Tasks
  BY DEF TypeInv, TypeOK
<1>a. pc[t] # "idle" =>
        /\ call[t] \in Call
        /\ SoundApproval(call[t].body)
        /\ call[t].act \notin {"VIEW", "USE"} => call[t].principal = call[t].subject
  BY DEF TypeInv, TypeOK, ApprovalInv
<1>1. ASSUME Finish(t), UNCHANGED docs PROVE ApprovalInv'
  <2>1. Others /\ pc'[t] = "idle"
    BY <1>1, <1>f DEF Finish
  <2> QED BY <1>1, <2>1, QuietApproval
<1>2. ASSUME NEW phase, Goto(t, phase), UNCHANGED <<docs, call>>, pc[t] # "idle"
      PROVE  ApprovalInv'
  <2>1. Others
    BY <1>2, <1>f DEF Goto
  <2> QED BY <1>2, <1>a, <2>1, QuietApproval
<1>3. ASSUME NEW phase, Goto(t, phase), UNCHANGED docs, pc[t] # "idle",
             NEW n, call' = [call EXCEPT ![t] = n],
             n.body = call[t].body, n.act = call[t].act,
             n.principal = call[t].principal, n.subject = call[t].subject
      PROVE  ApprovalInv'
  <2>1. Others /\ call'[t] = n
    BY <1>3, <1>f DEF Goto
  <2> QED BY <1>3, <1>a, <2>1, QuietApproval
<1>4. CASE AuthorizeMutation(t)
  <2> DEFINE o == Outcome(call[t].act, call[t].body, call[t].subject)
             n == [call[t] EXCEPT !.body = o]
  <2>1. Others /\ call'[t] = n /\ UNCHANGED docs
    BY <1>4, <1>f DEF AuthorizeMutation, Goto, storage
  <2>2. Allowed(call[t].act, call[t].principal, DelegatedRoles, call[t].body, now)
    BY <1>4 DEF AuthorizeMutation, Decision
  <2>3. call[t] \in Call
    BY <1>4, <1>a DEF AuthorizeMutation
  <2>4. /\ call[t].body \in Body /\ call[t].act \in Actions
        /\ call[t].subject \in Users /\ call[t].principal \in Users
    BY <2>3 DEF Call
  <2>5. SoundApproval(o)
    BY <1>4, <1>a, <2>2, <2>4, OutcomeApproval DEF AuthorizeMutation
  <2>6. n.body = o /\ n.act = call[t].act /\ n.principal = call[t].principal
        /\ n.subject = call[t].subject
    <3> HIDE DEF o
    <3> QED BY <2>3 DEF Call
  <2> HIDE DEF o, n
  <2> QED BY <1>4, <1>a, <2>1, <2>5, <2>6, QuietApproval DEF AuthorizeMutation
<1>5. CASE AuthorizeView(t)
  BY <1>5, <1>1, <1>2 DEF AuthorizeView, storage
<1>6. CASE Deny(t)
  <2>1. CASE IsRecorded(call[t].subject)
    <3> DEFINE n == [call[t] EXCEPT !.denied = TRUE]
    <3>1. /\ Goto(t, "audit") /\ UNCHANGED docs /\ pc[t] # "idle"
          /\ call' = [call EXCEPT ![t] = n]
      BY <1>6, <2>1 DEF Deny, storage
    <3>2. /\ n.body = call[t].body /\ n.act = call[t].act
          /\ n.principal = call[t].principal /\ n.subject = call[t].subject
      BY <3>1, <1>a DEF Call
    <3> HIDE DEF n
    <3> QED BY <3>1, <3>2, <1>3
  <2>2. CASE ~IsRecorded(call[t].subject)
    BY <1>6, <2>2, <1>1 DEF Deny, storage
  <2> QED BY <2>1, <2>2
<1>7. CASE TxRead(t)
  <2>1. PICK d \in docs : call' = [call EXCEPT ![t].base = d.ver]
    BY <1>7 DEF TxRead
  <2> DEFINE n == [call[t] EXCEPT !.base = d.ver]
  <2>2. /\ Goto(t, "txwrite") /\ UNCHANGED docs /\ pc[t] # "idle"
        /\ call' = [call EXCEPT ![t] = n]
    BY <1>7, <2>1 DEF TxRead, storage
  <2>3. /\ n.body = call[t].body /\ n.act = call[t].act
        /\ n.principal = call[t].principal /\ n.subject = call[t].subject
    BY <2>2, <1>a DEF Call
  <2> HIDE DEF n
  <2> QED BY <2>2, <2>3, <1>3
<1>8. CASE TxWrite(t)
  BY <1>8, <1>2 DEF TxWrite, storage
<1>9. CASE TxConflict(t)
  BY <1>9, <1>1 DEF TxConflict, storage
<1>10. CASE AllocateEvent(t)
  <2> DEFINE k == nextEvent[call[t].id] + 1
             n == [call[t] EXCEPT !.evt = k]
             phase == IF pc[t] = "txevent" THEN "commit" ELSE "insert"
  <2>1. /\ Goto(t, phase) /\ UNCHANGED docs /\ pc[t] # "idle"
        /\ call' = [call EXCEPT ![t] = n]
    BY <1>10 DEF AllocateEvent, Incremented, NextEventNumber, storage
  <2>2. /\ n.body = call[t].body /\ n.act = call[t].act
        /\ n.principal = call[t].principal /\ n.subject = call[t].subject
    BY <2>1, <1>a DEF Call
  <2> HIDE DEF n, phase
  <2> QED BY <2>1, <2>2, <1>3
<1>11. CASE Commit(t)
  <2>1. Others /\ (pc'[t] # "idle" => call'[t] = call[t])
    BY <1>11, <1>f DEF Commit, Goto, Finish
  <2>2. pc[t] # "idle" /\ call[t] \in Call
    BY <1>11, <1>a DEF Commit
  <2>3. ASSUME NEW d \in docs' PROVE SoundApproval(d.body)
    <3>1. CASE d \in docs
      BY <3>1 DEF ApprovalInv
    <3>2. CASE \E o \in Closed(call[t]) : d = [o EXCEPT !.out = TRUE]
      BY <3>2 DEF Closed, ApprovalInv, TypeInv, TypeOK, Doc
    <3>3. CASE d.body = call[t].body
      BY <3>3, <2>2, <1>a
    <3> QED BY <1>11, <3>1, <3>2, <3>3 DEF Commit
  <2>4. ASSUME NEW u \in Tasks, pc'[u] # "idle"
        PROVE  /\ SoundApproval(call'[u].body)
               /\ call'[u].act \notin {"VIEW", "USE"} =>
                    call'[u].principal = call'[u].subject
    BY <2>1, <2>2, <2>4, <1>a DEF ApprovalInv
  <2> QED BY <2>3, <2>4 DEF ApprovalInv
<1>12. CASE InsertEvent(t)
  BY <1>12, <1>2 DEF InsertEvent
<1>13. CASE PublishEvent(t)
  BY <1>13, <1>1, <1>2 DEF PublishEvent, storage
<1>14. CASE PublishFact(t)
  BY <1>14, <1>1 DEF PublishFact, storage
<1> QED BY <1>4, <1>5, <1>6, <1>7, <1>8, <1>9, <1>10, <1>11, <1>12, <1>13, <1>14 DEF Step

LEMMA NextApproval == TypeInv /\ ApprovalInv /\ [Next]_vars => ApprovalInv'
<1> SUFFICES ASSUME TypeInv, ApprovalInv, [Next]_vars PROVE ApprovalInv'
  OBVIOUS
<1>1. ASSUME NEW t \in Tasks, BeginAny(t) PROVE ApprovalInv'
  BY <1>1, BeginAnyApproval
<1>2. ASSUME NEW t \in Tasks, Step(t) PROVE ApprovalInv'
  BY <1>2, StepApproval
<1>3. ASSUME NEW t \in Tasks, Interrupt(t) PROVE ApprovalInv'
  <2>1. /\ UNCHANGED docs /\ pc'[t] = "idle"
        /\ \A u \in Tasks \ {t} : pc'[u] = pc[u] /\ call'[u] = call[u]
    BY <1>3 DEF Interrupt, Finish, storage, TypeInv, TypeOK
  <2> QED BY <2>1, QuietApproval
<1>4. CASE Tick
  BY <1>4 DEF Tick, storage, ApprovalInv
<1>5. CASE UNCHANGED vars
  BY <1>5 DEF vars, storage, ApprovalInv
<1> QED BY <1>1, <1>2, <1>3, <1>4, <1>5 DEF Next

LEMMA ApprovalInvariant == Spec => [](TypeInv /\ ApprovalInv)
<1>1. Init => TypeInv /\ ApprovalInv
  BY InitTypeInv, InitApproval
<1>2. TypeInv /\ ApprovalInv /\ [Next]_vars => (TypeInv /\ ApprovalInv)'
  BY NextTypeInv, NextApproval
<1> QED BY <1>1, <1>2, PTL DEF Spec

\* No copy of an instruction, stored or in the hands of a handler between its read and
\* its commit, carries an unsound approval or one that came before the decision.
THEOREM CopiesAreSound == Spec => []ApprovalInv
BY ApprovalInvariant, PTL

\* Every approval a stored version carries was given by a senior of the creator on the
\* instruction's desk who neither reports to the creator nor supervises the creator.
THEOREM ApprovalsAreIndependent == Spec => []IndependentApproval
<1>1. TypeInv /\ ApprovalInv => IndependentApproval
  BY DEF ApprovalInv, SoundApproval, IndependentApproval
<1> QED BY <1>1, ApprovalInvariant, PTL

-----------------------------------------------------------------------------
(* What a commit does to the documents.                                    *)

\* A version as it is once a later one has been stored.
Shut(d) == [d EXCEPT !.out = TRUE]

LEMMA CommitDocs ==
  ASSUME TypeInv, NEW t \in Tasks, Commit(t)
  PROVE  \E new \in docs' :
           /\ new.id = call[t].id /\ new.ver = call[t].base + 1 /\ new.out = FALSE
           /\ \A d \in docs' : d = new \/ \E o \in docs :
                /\ o.id = d.id /\ o.ver = d.ver /\ o.body = d.body
                /\ IF o.id = call[t].id /\ o.ver = call[t].base
                     THEN d = Shut(o) /\ d.out = TRUE ELSE d = o
           /\ \A o \in docs : \E d \in docs' :
                /\ o.id = d.id /\ o.ver = d.ver /\ o.body = d.body
                /\ IF o.id = call[t].id /\ o.ver = call[t].base
                     THEN d = Shut(o) /\ d.out = TRUE ELSE d = o
<1> DEFINE c   == call[t]
           new == [id |-> c.id, ver |-> c.base + 1, out |-> FALSE, body |-> c.body]
           Old(d, o) ==
             /\ o.id = d.id /\ o.ver = d.ver /\ o.body = d.body
             /\ IF o.id = c.id /\ o.ver = c.base
                  THEN d = Shut(o) /\ d.out = TRUE ELSE d = o
<1>1. docs' = (docs \ Closed(c)) \cup {Shut(d) : d \in Closed(c)} \cup {new}
  BY DEF Commit, Shut
<1>2. new.id = c.id /\ new.ver = c.base + 1 /\ new.out = FALSE
  OBVIOUS
<1>3. ASSUME NEW o \in Closed(c)
      PROVE  Old(Shut(o), o) /\ o \in docs
  BY <1>3 DEF Closed, Shut, TypeInv, TypeOK, Doc
<1>4. ASSUME NEW o \in docs \ Closed(c)
      PROVE  Old(o, o)
  BY <1>4 DEF Closed
<1> HIDE DEF c, new, Old
<1>5. \A d \in docs' : d = new \/ \E o \in docs : Old(d, o)
  BY <1>1, <1>3, <1>4
<1>6. \A o \in docs : \E d \in docs' : Old(d, o)
  BY <1>1, <1>3, <1>4
<1>7. new \in docs'
  BY <1>1
<1> USE DEF c, Old
<1> QED BY <1>2, <1>5, <1>6, <1>7

-----------------------------------------------------------------------------
(* The version chain.  It needs TransactionsExclusive: a commit closes the *)
(* version its transaction read, which must still be open, and stores the  *)
(* next one, which must not exist.                                         *)

ChainInv == VersionChain /\ TransactionsExclusive

LEMMA InitChain == Init => ChainInv
BY DEF Init, ChainInv, VersionChain, TransactionsExclusive, InTransaction

\* A step that stores nothing, and lets no task but t enter a transaction.
LEMMA QuietChain ==
  ASSUME TypeInv, ChainInv, NEW t \in Tasks, UNCHANGED docs,
         \A u \in Tasks \ {t} : pc'[u] = pc[u] /\ call'[u] = call[u],
         pc'[t] \in InTransaction =>
           /\ pc[t] \in InTransaction
           /\ call'[t].id = call[t].id /\ call'[t].base = call[t].base
  PROVE  ChainInv'
<1>1. VersionChain'
  BY DEF ChainInv, VersionChain
<1>2. TransactionsExclusive'
  BY DEF ChainInv, TransactionsExclusive, IsOpen, Holds
<1> QED BY <1>1, <1>2 DEF ChainInv

LEMMA TxWriteChain ==
  ASSUME TypeInv, ChainInv, NEW t \in Tasks, TxWrite(t)
  PROVE  ChainInv'
<1>1. UNCHANGED <<docs, call>> /\ \A u \in Tasks \ {t} : pc'[u] = pc[u]
  BY DEF TxWrite, Goto, storage, TypeInv, TypeOK
<1>2. VersionChain'
  BY <1>1 DEF ChainInv, VersionChain
<1>3. /\ call[t].base > 0 => IsOpen(call[t].id, call[t].base)
      /\ \A u \in Tasks \ {t} : ~Holds(u, call[t].id)
      /\ ~\E d \in docs : d.id = call[t].id /\ d.ver = call[t].base + 1
  BY DEF TxWrite, WriteConflict
<1>4. ASSUME NEW u \in Tasks, pc'[u] \in InTransaction
      PROVE  /\ call'[u].base > 0 => IsOpen(call[u].id, call[u].base)'
             /\ ~\E d \in docs' : d.id = call'[u].id /\ d.ver = call'[u].base + 1
             /\ \A v \in Tasks \ {u} : ~Holds(v, call[u].id)'
  <2>1. CASE u = t
    BY <1>1, <1>3, <2>1 DEF IsOpen, Holds
  <2>2. CASE u # t
    <3>1. pc[u] \in InTransaction
      BY <1>1, <1>4, <2>2
    <3>2. call[t].id # call[u].id
      BY <1>3, <2>2, <3>1 DEF Holds
    <3> QED BY <1>1, <2>2, <3>1, <3>2
            DEF ChainInv, TransactionsExclusive, IsOpen, Holds
  <2> QED BY <2>1, <2>2
<1>5. TransactionsExclusive'
  BY <1>4 DEF TransactionsExclusive
<1> QED BY <1>2, <1>5 DEF ChainInv

LEMMA CommitChain ==
  ASSUME TypeInv, ChainInv, NEW t \in Tasks, Commit(t)
  PROVE  ChainInv'
<1> DEFINE id == call[t].id
           base == call[t].base
<1>1. call[t] \in Call /\ pc[t] = "commit"
  BY DEF Commit, TypeInv, TypeOK
<1>2. base \in Nat /\ \A d \in docs : d.ver \in Nat \ {0} /\ d.out \in BOOLEAN
  BY <1>1 DEF Call, TypeInv, TypeOK, Doc
<1>3. /\ base > 0 => \E d \in docs : d.id = id /\ d.ver = base /\ ~d.out
      /\ \A d \in docs : ~(d.id = id /\ d.ver = base + 1)
      /\ \A u \in Tasks \ {t} : ~Holds(u, id)
  BY <1>1 DEF ChainInv, TransactionsExclusive, InTransaction, IsOpen
<1>4. PICK new \in docs' :
        /\ new.id = id /\ new.ver = base + 1 /\ new.out = FALSE
        /\ \A d \in docs' : d = new \/ \E o \in docs :
             /\ o.id = d.id /\ o.ver = d.ver /\ o.body = d.body
             /\ IF o.id = id /\ o.ver = base
                  THEN d = Shut(o) /\ d.out = TRUE ELSE d = o
        /\ \A o \in docs : \E d \in docs' :
             /\ o.id = d.id /\ o.ver = d.ver /\ o.body = d.body
             /\ IF o.id = id /\ o.ver = base
                  THEN d = Shut(o) /\ d.out = TRUE ELSE d = o
  BY CommitDocs
<1> HIDE DEF id, base
<1> USE DEF VersionChain
<1>v. VersionChain
  BY DEF ChainInv
<1>n. ~\E d \in docs : d.id = id /\ d.ver = base + 2
  BY <1>2, <1>3, <1>v
<1>5. ASSUME NEW d \in docs', NEW e \in docs', d.id = e.id, d.ver = e.ver
      PROVE  d = e
  <2>1. ASSUME NEW x \in docs', x.id = id, x.ver = base + 1 PROVE x = new
    BY <1>3, <1>4, <2>1
  <2>2. CASE d = new \/ e = new
    <3>1. d.id = id /\ d.ver = base + 1 /\ e.id = id /\ e.ver = base + 1
      BY <1>4, <1>5, <2>2
    <3> QED BY <2>1, <3>1
  <2>3. CASE d # new /\ e # new
    <3>1. PICK o \in docs :
            /\ o.id = d.id /\ o.ver = d.ver
            /\ IF o.id = id /\ o.ver = base THEN d = Shut(o) ELSE d = o
      BY <1>4, <2>3
    <3>2. PICK q \in docs :
            /\ q.id = e.id /\ q.ver = e.ver
            /\ IF q.id = id /\ q.ver = base THEN e = Shut(q) ELSE e = q
      BY <1>4, <2>3
    <3>3. o = q
      BY <1>5, <1>v, <3>1, <3>2
    <3> QED BY <3>1, <3>2, <3>3
  <2> QED BY <2>2, <2>3
<1>6. ASSUME NEW d \in docs', d.ver > 1
      PROVE  \E e \in docs' : e.id = d.id /\ e.ver = d.ver - 1
  <2>1. CASE d = new
    BY <1>2, <1>3, <1>4, <1>6, <2>1
  <2>2. CASE d # new
    BY <1>2, <1>4, <1>6, <1>v, <2>2
  <2> QED BY <2>1, <2>2
<1>7. ASSUME NEW d \in docs'
      PROVE  d.out <=> \E e \in docs' : e.id = d.id /\ e.ver = d.ver + 1
  <2>1. CASE d = new
    <3>1. ASSUME NEW e \in docs', e.id = id, e.ver = base + 2 PROVE FALSE
      BY <1>2, <1>4, <1>n, <3>1
    <3> QED BY <1>2, <1>4, <2>1, <3>1
  <2>2. ASSUME NEW o \in docs, d = o, ~(o.id = id /\ o.ver = base)
        PROVE  d.out <=> \E e \in docs' : e.id = d.id /\ e.ver = d.ver + 1
    <3>1. (\E e \in docs : e.id = d.id /\ e.ver = d.ver + 1) <=>
          (\E e \in docs' : e.id = d.id /\ e.ver = d.ver + 1)
      BY <1>2, <1>4, <2>2
    <3> QED BY <1>v, <2>2, <3>1
  <2>3. ASSUME NEW o \in docs, d.id = id, d.ver = base, d.out = TRUE
        PROVE  d.out <=> \E e \in docs' : e.id = d.id /\ e.ver = d.ver + 1
    BY <1>4, <2>3
  <2> QED BY <1>4, <2>1, <2>2, <2>3
<1>8. VersionChain'
  BY <1>5, <1>6, <1>7
<1>9. ASSUME NEW u \in Tasks, pc'[u] \in InTransaction
      PROVE  /\ call'[u].base > 0 => IsOpen(call[u].id, call[u].base)'
             /\ ~\E d \in docs' : d.id = call'[u].id /\ d.ver = call'[u].base + 1
             /\ \A v \in Tasks \ {u} : ~Holds(v, call[u].id)'
  <2>1. /\ pc'[t] \notin InTransaction
        /\ \A v \in Tasks \ {t} : pc'[v] = pc[v] /\ call'[v] = call[v]
    BY DEF Commit, Goto, Finish, InTransaction, TypeInv, TypeOK
  <2>2. u # t /\ pc[u] \in InTransaction /\ call'[u] = call[u]
    BY <1>9, <2>1
  <2>3. call[u].id # id
    BY <1>3, <2>2 DEF Holds
  <2>4. /\ call[u].base > 0 => IsOpen(call[u].id, call[u].base)
        /\ ~\E d \in docs : d.id = call[u].id /\ d.ver = call[u].base + 1
        /\ \A v \in Tasks \ {u} : ~Holds(v, call[u].id)
    BY <2>2 DEF ChainInv, TransactionsExclusive
  <2>5. call[u].base > 0 => IsOpen(call[u].id, call[u].base)'
    BY <1>4, <2>2, <2>3, <2>4 DEF IsOpen
  <2>6. ~\E d \in docs' : d.id = call'[u].id /\ d.ver = call'[u].base + 1
    BY <1>4, <2>2, <2>3, <2>4
  <2>7. \A v \in Tasks \ {u} : ~Holds(v, call[u].id)'
    BY <2>1, <2>2, <2>4 DEF Holds
  <2> QED BY <2>2, <2>5, <2>6, <2>7
<1>10. TransactionsExclusive'
  BY <1>9 DEF TransactionsExclusive
<1> QED BY <1>8, <1>10 DEF ChainInv

LEMMA StepChain ==
  ASSUME TypeInv, ChainInv, NEW t \in Tasks, Step(t)
  PROVE  ChainInv'
<1>f. pc \in [Tasks -> Phases] /\ DOMAIN call = Tasks
      /\ (pc[t] # "idle" => call[t] \in Call)
  BY DEF TypeInv, TypeOK
<1>1. ASSUME Finish(t), UNCHANGED docs PROVE ChainInv'
  <2>1. /\ \A u \in Tasks \ {t} : pc'[u] = pc[u] /\ call'[u] = call[u]
        /\ pc'[t] \notin InTransaction
    BY <1>1, <1>f DEF Finish, InTransaction
  <2> QED BY <1>1, <2>1, QuietChain
<1>2. ASSUME NEW phase, phase \notin InTransaction, Goto(t, phase), UNCHANGED docs,
             \/ UNCHANGED call
             \/ \E n : call' = [call EXCEPT ![t] = n]
      PROVE  ChainInv'
  <2>1. /\ \A u \in Tasks \ {t} : pc'[u] = pc[u] /\ call'[u] = call[u]
        /\ pc'[t] \notin InTransaction
    BY <1>2, <1>f DEF Goto
  <2> QED BY <1>2, <2>1, QuietChain
<1> USE DEF storage
<1>3. CASE AuthorizeMutation(t)
  BY <1>3, <1>2 DEF AuthorizeMutation, InTransaction
<1>4. CASE AuthorizeView(t)
  BY <1>4, <1>1, <1>2 DEF AuthorizeView, InTransaction
<1>5. CASE Deny(t)
  BY <1>5, <1>1, <1>2 DEF Deny, InTransaction
<1>6. CASE TxRead(t)
  BY <1>6, <1>2 DEF TxRead, InTransaction
<1>7. CASE TxWrite(t)
  BY <1>7, TxWriteChain
<1>8. CASE TxConflict(t)
  BY <1>8, <1>1 DEF TxConflict
<1>9. CASE AllocateEvent(t)
  <2> DEFINE k == nextEvent[call[t].id] + 1
             n == [call[t] EXCEPT !.evt = k]
  <2>1. call' = [call EXCEPT ![t] = n] /\ UNCHANGED docs /\ call[t] \in Call
    BY <1>9, <1>f DEF AllocateEvent, Incremented, NextEventNumber
  <2>2. n.id = call[t].id /\ n.base = call[t].base
    BY <2>1 DEF Call
  <2> HIDE DEF n
  <2>3. CASE pc[t] = "txevent"
    <3>1. /\ \A u \in Tasks \ {t} : pc'[u] = pc[u] /\ call'[u] = call[u]
          /\ pc[t] \in InTransaction /\ call'[t] = n
      BY <1>9, <1>f, <2>1, <2>3 DEF AllocateEvent, Incremented, NextEventNumber, Goto, InTransaction
    <3> QED BY <2>1, <2>2, <3>1, QuietChain
  <2>4. CASE pc[t] = "audit"
    BY <1>9, <2>1, <2>4, <1>2 DEF AllocateEvent, Incremented, NextEventNumber, InTransaction
  <2> QED BY <1>9, <2>3, <2>4 DEF AllocateEvent, Incremented, NextEventNumber
<1>10. CASE Commit(t)
  BY <1>10, CommitChain
<1>11. CASE InsertEvent(t)
  BY <1>11, <1>2 DEF InsertEvent, InTransaction
<1>12. CASE PublishEvent(t)
  BY <1>12, <1>1, <1>2 DEF PublishEvent, InTransaction
<1>13. CASE PublishFact(t)
  BY <1>13, <1>1 DEF PublishFact
<1> QED BY <1>3, <1>4, <1>5, <1>6, <1>7, <1>8, <1>9, <1>10, <1>11, <1>12, <1>13 DEF Step

LEMMA NextChain == TypeInv /\ ChainInv /\ [Next]_vars => ChainInv'
<1> SUFFICES ASSUME TypeInv, ChainInv, [Next]_vars PROVE ChainInv'
  OBVIOUS
<1>f. pc \in [Tasks -> Phases] /\ DOMAIN call = Tasks
  BY DEF TypeInv, TypeOK
<1>1. ASSUME NEW t \in Tasks, NEW c, Accept(t, c), UNCHANGED docs PROVE ChainInv'
  <2>1. /\ \A u \in Tasks \ {t} : pc'[u] = pc[u] /\ call'[u] = call[u]
        /\ pc'[t] \notin InTransaction
    BY <1>1, <1>f DEF Accept, Goto, InTransaction
  <2> QED BY <1>1, <2>1, QuietChain
<1>2. ASSUME NEW t \in Tasks, BeginAny(t) PROVE ChainInv'
  BY <1>1, <1>2 DEF BeginAny, BeginCreate, BeginUpdate, Begin, BeginOn, storage
<1>3. ASSUME NEW t \in Tasks, Step(t) PROVE ChainInv'
  BY <1>3, StepChain
<1>4. ASSUME NEW t \in Tasks, Interrupt(t) PROVE ChainInv'
  <2>1. /\ \A u \in Tasks \ {t} : pc'[u] = pc[u] /\ call'[u] = call[u]
        /\ pc'[t] \notin InTransaction /\ UNCHANGED docs
    BY <1>4, <1>f DEF Interrupt, Finish, InTransaction, storage
  <2> QED BY <2>1, QuietChain
<1>5. CASE UNCHANGED <<docs, pc, call>>
  BY <1>5 DEF ChainInv, VersionChain, TransactionsExclusive, IsOpen, Holds
<1>6. CASE Tick
  BY <1>5, <1>6 DEF Tick, storage
<1>7. CASE UNCHANGED vars
  BY <1>5, <1>7 DEF vars, storage
<1> QED BY <1>2, <1>3, <1>4, <1>6, <1>7 DEF Next

LEMMA ChainInvariant == Spec => [](TypeInv /\ ChainInv)
<1>1. Init => TypeInv /\ ChainInv
  BY InitTypeInv, InitChain
<1>2. TypeInv /\ ChainInv /\ [Next]_vars => (TypeInv /\ ChainInv)'
  BY NextTypeInv, NextChain
<1> QED BY <1>1, <1>2, PTL DEF Spec

\* However many transactions race on an instruction, its versions are numbered 1, 2, ...
\* without a gap or a duplicate and exactly the last one is open.
THEOREM VersionsFormAChain == Spec => []VersionChain
<1>1. TypeInv /\ ChainInv => VersionChain
  BY DEF ChainInv
<1> QED BY <1>1, ChainInvariant, PTL

\* At most one transaction at a time has written to an instruction and not committed.
THEOREM WritersExcludeEachOther == Spec => []TransactionsExclusive
<1>1. TypeInv /\ ChainInv => TransactionsExclusive
  BY DEF ChainInv
<1> QED BY <1>1, ChainInvariant, PTL

-----------------------------------------------------------------------------
(* Event numbers are unique: one that a call has taken and not yet stored  *)
(* is below its counter and the call's own.                                *)

\* The number of an event that a call holds and has not stored yet.
Pending(t) ==
  \/ pc[t] = "insert"
  \/ pc[t] = "commit" /\ IsRecorded(call[t].subject)

NumbersTaken ==
  /\ \A e \in events : e.n <= nextEvent[e.res]
  /\ \A t \in Tasks : Pending(t) =>
       /\ call[t].evt <= nextEvent[call[t].id]
       /\ \A e \in events : ~(e.res = call[t].id /\ e.n = call[t].evt)
       /\ \A u \in Tasks \ {t} :
            Pending(u) => ~(call[u].id = call[t].id /\ call[u].evt = call[t].evt)

NumberInv == EventIdsUnique /\ NumbersTaken

LEMMA InitNumber == Init => NumberInv
BY DEF Init, NumberInv, EventIdsUnique, NumbersTaken, Pending

\* A step that takes no number and after which t has nothing to store.
LEMMA QuietNumber ==
  ASSUME TypeInv, NumberInv, NEW t \in Tasks, UNCHANGED <<events, nextEvent>>,
         \A u \in Tasks \ {t} : pc'[u] = pc[u] /\ call'[u] = call[u],
         ~Pending(t)'
  PROVE  NumberInv'
<1>1. \A u \in Tasks : Pending(u)' => u # t /\ Pending(u) /\ call'[u] = call[u]
  BY DEF Pending
<1>2. NumbersTaken'
  BY <1>1 DEF NumberInv, NumbersTaken
<1>3. EventIdsUnique'
  BY DEF NumberInv, EventIdsUnique
<1> QED BY <1>2, <1>3 DEF NumberInv

LEMMA AllocateNumber ==
  ASSUME TypeInv, NumberInv, NEW t \in Tasks, AllocateEvent(t)
  PROVE  NumberInv'
<1> DEFINE id == call[t].id
           k  == nextEvent[id] + 1
           n  == [call[t] EXCEPT !.evt = k]
<1>1. /\ call' = [call EXCEPT ![t] = n]
      /\ nextEvent' = [nextEvent EXCEPT ![id] = k]
      /\ UNCHANGED events
      /\ call[t] \in Call
      /\ \A u \in Tasks \ {t} : pc'[u] = pc[u]
  BY DEF AllocateEvent, Incremented, NextEventNumber, Goto, storage, TypeInv, TypeOK
<1>2. id \in Ids /\ n.id = id /\ n.evt = k
  BY <1>1 DEF Call
<1>3. nextEvent \in [Ids -> Nat] /\ DOMAIN call = Tasks
      /\ \A e \in events : e.res \in Ids /\ e.n \in Nat
  BY DEF TypeInv, TypeOK, Event
<1> HIDE DEF id, n
<1>4. /\ call'[t] = n /\ \A u \in Tasks \ {t} : call'[u] = call[u]
      /\ nextEvent'[id] = k /\ k \in Nat
      /\ \A i \in Ids : nextEvent'[i] \in Nat /\ nextEvent[i] <= nextEvent'[i]
  BY <1>1, <1>2, <1>3
<1>5. \A e \in events' : e.n <= nextEvent'[e.res] /\ ~(e.res = id /\ e.n = k)
  BY <1>1, <1>3, <1>4 DEF NumberInv, NumbersTaken
<1>6. ASSUME NEW u \in Tasks \ {t}, Pending(u)'
      PROVE  /\ Pending(u) /\ call'[u] = call[u]
             /\ call[u] \in Call /\ call[u].id \in Ids /\ call[u].evt \in Nat
             /\ call[u].evt <= nextEvent[call[u].id]
             /\ ~(call[u].id = id /\ call[u].evt = k)
  <2>1. Pending(u) /\ call'[u] = call[u]
    BY <1>1, <1>4, <1>6 DEF Pending
  <2>2. call[u] \in Call
    BY <2>1 DEF Pending, TypeInv, TypeOK
  <2>3. call[u].id \in Ids /\ call[u].evt \in Nat
    BY <2>2 DEF Call
  <2>4. call[u].evt <= nextEvent[call[u].id]
    BY <2>1 DEF NumberInv, NumbersTaken
  <2> QED BY <1>2, <1>3, <2>1, <2>2, <2>3, <2>4
<1> HIDE DEF k
<1>7. ASSUME NEW u \in Tasks, Pending(u)'
      PROVE  /\ call'[u].evt <= nextEvent'[call'[u].id]
             /\ \A e \in events' : ~(e.res = call'[u].id /\ e.n = call'[u].evt)
             /\ \A v \in Tasks \ {u} : Pending(v)' =>
                  ~(call'[v].id = call'[u].id /\ call'[v].evt = call'[u].evt)
  <2>1. CASE u = t
    <3>1. call'[u].id = id /\ call'[u].evt = k
      BY <1>2, <1>4, <2>1
    <3>2. \A v \in Tasks \ {u} : Pending(v)' =>
            ~(call'[v].id = call'[u].id /\ call'[v].evt = call'[u].evt)
      BY <1>6, <2>1, <3>1
    <3>3. call'[u].evt <= nextEvent'[call'[u].id]
      BY <1>4, <3>1
    <3> QED BY <1>5, <3>1, <3>2, <3>3
  <2>2. CASE u # t
    <3>1. /\ Pending(u) /\ call'[u] = call[u] /\ call[u].id \in Ids /\ call[u].evt \in Nat
          /\ call[u].evt <= nextEvent[call[u].id]
          /\ ~(call[u].id = id /\ call[u].evt = k)
      BY <1>6, <1>7, <2>2
    <3>2. call'[u].evt <= nextEvent'[call'[u].id]
      BY <1>3, <1>4, <3>1
    <3>3. \A e \in events' : ~(e.res = call'[u].id /\ e.n = call'[u].evt)
      BY <1>1, <3>1 DEF NumberInv, NumbersTaken
    <3>4. ASSUME NEW v \in Tasks \ {u}, Pending(v)'
          PROVE  ~(call'[v].id = call'[u].id /\ call'[v].evt = call'[u].evt)
      <4>1. CASE v = t
        BY <1>2, <1>4, <3>1, <4>1
      <4>2. CASE v # t
        <5>1. Pending(v) /\ call'[v] = call[v]
          BY <1>6, <3>4, <4>2
        <5> QED BY <3>1, <3>4, <5>1 DEF NumberInv, NumbersTaken
      <4> QED BY <4>1, <4>2
    <3> QED BY <3>2, <3>3, <3>4
  <2> QED BY <2>1, <2>2
<1>8. NumbersTaken'
  BY <1>5, <1>7 DEF NumbersTaken
<1>9. EventIdsUnique'
  BY <1>1 DEF NumberInv, EventIdsUnique
<1> QED BY <1>8, <1>9 DEF NumberInv

\* A task stores the event whose number it holds.
LEMMA StoreNumber ==
  ASSUME TypeInv, NumberInv, NEW t \in Tasks, Pending(t), ~Pending(t)',
         events' = events \cup {SecurityEvent(call[t])},
         UNCHANGED nextEvent,
         \A u \in Tasks \ {t} : pc'[u] = pc[u] /\ call'[u] = call[u]
  PROVE  NumberInv'
<1> DEFINE s == SecurityEvent(call[t])
<1>1. s.res = call[t].id /\ s.n = call[t].evt
  BY DEF SecurityEvent
<1> HIDE DEF s
<1>2. events' = events \cup {s}
  BY DEF s
<1>3. \A u \in Tasks : Pending(u)' => u # t /\ Pending(u) /\ call'[u] = call[u]
  BY DEF Pending
<1>4. NumbersTaken'
  <2>1. \A e \in events' : e.n <= nextEvent'[e.res]
    BY <1>1, <1>2 DEF NumberInv, NumbersTaken
  <2>2. ASSUME NEW u \in Tasks, Pending(u)'
        PROVE  /\ call'[u].evt <= nextEvent'[call'[u].id]
               /\ \A e \in events' : ~(e.res = call'[u].id /\ e.n = call'[u].evt)
               /\ \A v \in Tasks \ {u} : Pending(v)' =>
                    ~(call'[v].id = call'[u].id /\ call'[v].evt = call'[u].evt)
    BY <1>1, <1>2, <1>3, <2>2 DEF NumberInv, NumbersTaken
  <2> QED BY <2>1, <2>2 DEF NumbersTaken
<1>5. EventIdsUnique'
  BY <1>1, <1>2 DEF NumberInv, NumbersTaken, EventIdsUnique
<1> QED BY <1>4, <1>5 DEF NumberInv

LEMMA NextNumber == TypeInv /\ NumberInv /\ [Next]_vars => NumberInv'
<1> SUFFICES ASSUME TypeInv, NumberInv, [Next]_vars PROVE NumberInv'
  OBVIOUS
<1>f. pc \in [Tasks -> Phases] /\ DOMAIN call = Tasks
  BY DEF TypeInv, TypeOK
<1>1. ASSUME NEW t \in Tasks, Finish(t), UNCHANGED <<events, nextEvent>>
      PROVE  NumberInv'
  <2>1. /\ \A u \in Tasks \ {t} : pc'[u] = pc[u] /\ call'[u] = call[u]
        /\ ~Pending(t)'
    BY <1>1, <1>f DEF Finish, Pending
  <2> QED BY <1>1, <2>1, QuietNumber
<1>2. ASSUME NEW t \in Tasks, NEW phase, phase \notin {"insert", "commit"}, Goto(t, phase),
             UNCHANGED <<events, nextEvent>>,
             \/ UNCHANGED call
             \/ \E n : call' = [call EXCEPT ![t] = n]
      PROVE  NumberInv'
  <2>1. /\ \A u \in Tasks \ {t} : pc'[u] = pc[u] /\ call'[u] = call[u]
        /\ ~Pending(t)'
    BY <1>2, <1>f DEF Goto, Pending
  <2> QED BY <1>2, <2>1, QuietNumber
<1> USE DEF storage, counters
<1>3. ASSUME NEW t \in Tasks, BeginAny(t) PROVE NumberInv'
  BY <1>3, <1>2 DEF BeginAny, BeginCreate, BeginUpdate, Begin, BeginOn, Accept
<1>4. ASSUME NEW t \in Tasks, AuthorizeMutation(t) PROVE NumberInv'
  BY <1>4, <1>2 DEF AuthorizeMutation
<1>5. ASSUME NEW t \in Tasks, AuthorizeView(t) PROVE NumberInv'
  BY <1>5, <1>1, <1>2 DEF AuthorizeView
<1>6. ASSUME NEW t \in Tasks, Deny(t) PROVE NumberInv'
  BY <1>6, <1>1, <1>2 DEF Deny
<1>7. ASSUME NEW t \in Tasks, TxRead(t) PROVE NumberInv'
  BY <1>7, <1>2 DEF TxRead
<1>8. ASSUME NEW t \in Tasks, TxWrite(t) PROVE NumberInv'
  <2>1. /\ \A u \in Tasks \ {t} : pc'[u] = pc[u] /\ call'[u] = call[u]
        /\ UNCHANGED <<events, nextEvent>>
        /\ ~Pending(t)'
    BY <1>8, <1>f DEF TxWrite, Goto, Pending
  <2> QED BY <2>1, QuietNumber
<1>9. ASSUME NEW t \in Tasks, TxConflict(t) PROVE NumberInv'
  BY <1>9, <1>1 DEF TxConflict
<1>10. ASSUME NEW t \in Tasks, AllocateEvent(t) PROVE NumberInv'
  BY <1>10, AllocateNumber
<1>11. ASSUME NEW t \in Tasks, Commit(t) PROVE NumberInv'
  <2>1. CASE IsRecorded(call[t].subject)
    <3>1. /\ Pending(t) /\ ~Pending(t)'
          /\ events' = events \cup {SecurityEvent(call[t])}
          /\ UNCHANGED nextEvent
          /\ \A u \in Tasks \ {t} : pc'[u] = pc[u] /\ call'[u] = call[u]
      BY <1>11, <1>f, <2>1 DEF Commit, Goto, Pending
    <3> QED BY <3>1, StoreNumber
  <2>2. CASE ~IsRecorded(call[t].subject)
    BY <1>1, <1>11, <2>2 DEF Commit
  <2> QED BY <2>1, <2>2
<1>12. ASSUME NEW t \in Tasks, InsertEvent(t) PROVE NumberInv'
  <2>1. /\ Pending(t) /\ ~Pending(t)'
        /\ events' = events \cup {SecurityEvent(call[t])}
        /\ UNCHANGED nextEvent
        /\ \A u \in Tasks \ {t} : pc'[u] = pc[u] /\ call'[u] = call[u]
    BY <1>12, <1>f DEF InsertEvent, Goto, Pending
  <2> QED BY <2>1, StoreNumber
<1>13. ASSUME NEW t \in Tasks, PublishEvent(t) PROVE NumberInv'
  BY <1>13, <1>1, <1>2 DEF PublishEvent
<1>14. ASSUME NEW t \in Tasks, PublishFact(t) PROVE NumberInv'
  BY <1>14, <1>1 DEF PublishFact
<1>15. ASSUME NEW t \in Tasks, Interrupt(t) PROVE NumberInv'
  BY <1>15, <1>1 DEF Interrupt
<1>16. CASE UNCHANGED <<events, nextEvent, pc, call>>
  BY <1>16 DEF NumberInv, NumbersTaken, EventIdsUnique, Pending
<1>17. CASE Tick
  BY <1>16, <1>17 DEF Tick
<1>18. CASE UNCHANGED vars
  BY <1>16, <1>18 DEF vars
<1> QED BY <1>3, <1>4, <1>5, <1>6, <1>7, <1>8, <1>9, <1>10, <1>11, <1>12, <1>13, <1>14,
           <1>15, <1>17, <1>18 DEF Next, Step

\* No two stored security events of an instruction have the same number, although the
\* numbers are taken over HTTP and aborted calls lose theirs.
THEOREM EventNumbersAreUnique == Spec => []EventIdsUnique
<1>1. Init => TypeInv /\ NumberInv
  BY InitTypeInv, InitNumber
<1>2. TypeInv /\ NumberInv /\ [Next]_vars => (TypeInv /\ NumberInv)'
  BY NextTypeInv, NextNumber
<1>3. TypeInv /\ NumberInv => EventIdsUnique
  BY DEF NumberInv
<1> QED BY <1>1, <1>2, <1>3, PTL DEF Spec

-----------------------------------------------------------------------------
(* History only grows.                                                     *)

\* No step changes the content of a stored version, reopens a closed one or removes a
\* security event.
THEOREM HistoryOnlyGrows == Spec => AppendOnly
<1> DEFINE Grows == /\ \A d \in docs : \E e \in docs' :
                         e.id = d.id /\ e.ver = d.ver /\ e.body = d.body /\ (d.out => e.out)
                    /\ events \subseteq events'
<1>1. ASSUME NEW t \in Tasks, TypeInv, Commit(t) PROVE Grows
  <2>1. \A d \in docs : \E e \in docs' :
           e.id = d.id /\ e.ver = d.ver /\ e.body = d.body /\ (d.out => e.out)
    <3>1. \A o \in docs : \E d \in docs' :
             /\ o.id = d.id /\ o.ver = d.ver /\ o.body = d.body
             /\ IF o.id = call[t].id /\ o.ver = call[t].base
                  THEN d = Shut(o) /\ d.out = TRUE ELSE d = o
      BY <1>1, CommitDocs
    <3> QED BY <3>1
  <2>2. events \subseteq events'
    BY <1>1 DEF Commit
  <2> QED BY <2>1, <2>2
<1>2. ASSUME NEW t \in Tasks, InsertEvent(t) PROVE Grows
  BY <1>2 DEF InsertEvent
<1>3. TypeInv /\ [Next]_vars => [Grows]_storage
  <2> SUFFICES ASSUME TypeInv, [Next]_vars PROVE Grows \/ UNCHANGED storage
    OBVIOUS
  <2> HIDE DEF Grows
  <2> QED
    BY <1>1, <1>2
       DEF Next, vars, BeginAny, BeginCreate, BeginUpdate, Begin, BeginOn, Step, Tick,
           AuthorizeMutation, AuthorizeView, Deny, TxRead, TxWrite, TxConflict,
           AllocateEvent, PublishEvent, PublishFact, Interrupt
<1>4. Init => TypeInv
  BY InitTypeInv
<1>5. TypeInv /\ [Next]_vars => TypeInv'
  BY NextTypeInv
<1> QED BY <1>3, <1>4, <1>5, PTL DEF Spec, AppendOnly

=============================================================================
