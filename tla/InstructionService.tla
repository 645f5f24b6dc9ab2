------------------------- MODULE InstructionService -------------------------
(***************************************************************************)
(* instruction-service: the lifecycle handlers of service.py, the          *)
(* bi-temporal repository they write to, the MongoDB transaction that      *)
(* stores a version together with its security event, and the two Kafka    *)
(* topics the service publishes to after the commit.                       *)
(*                                                                         *)
(* A task is one request being served.  The service is asynchronous, so    *)
(* tasks interleave at every await: between the read of the current        *)
(* version, the policy decision, each operation of the transaction, the    *)
(* commit and each publication.  The order of the phases of a task is      *)
(*                                                                         *)
(*   Begin -> authorize -> txread -> txwrite -> allocate -> commit         *)
(*         -> publish event -> publish fact                 (a mutation)   *)
(*   Begin -> authorize -> allocate -> insert -> publish event             *)
(*                                      (a view, or a call that is denied) *)
(*                                                                         *)
(* A task may end at any await: authorization-service or sequence-service  *)
(* fails, the connection is lost, the process crashes (Interrupt).         *)
(***************************************************************************)
EXTENDS InstructionPolicy, Sequences, FiniteSets

CONSTANTS
  Tasks,           \* requests in flight at once
  Requests,        \* bodies of create and update requests
  ServiceUser,     \* svc-payment, the account payment-service calls with
  DelegatedRoles,  \* roles of svc-instruction, the account authz is called with
  Unrecorded,      \* user ids configured out of the security-event log
  NoCall,          \* the call of an idle task
  MaxCalls,        \* bound: requests the service accepts in a behaviour
  MaxNow           \* bound: how far OPA's clock runs

ASSUME ServiceAssumption ==
  /\ Requests \subseteq [type : Types, lob : Lobs, accountLob : Lobs,
                         start : Nat, end : Nat]
  /\ ServiceUser \in Users
  /\ DelegatedRoles \subseteq Roles
  /\ Unrecorded \subseteq Users
  /\ MaxCalls \in Nat
  /\ MaxNow \in Nat

VARIABLES
  docs,            \* documents of the instructions collection
  events,          \* documents of the security_events collection
  nextId,          \* sequence-service counter per line of business
  nextEvent,       \* sequence-service counter per instruction id
  pc,              \* phase of each task
  call,            \* local state of each task
  eventTopic,      \* security events published to Kafka
  factTopic,       \* instruction facts published to Kafka, in broker order
  calls,           \* requests accepted so far
  now              \* OPA's clock

storage == <<docs, events>>
counters == <<nextId, nextEvent>>
topics == <<eventTopic, factTopic>>
vars == <<storage, counters, pc, call, topics, calls, now>>

-----------------------------------------------------------------------------
(* Data.                                                                   *)

\* sequence-service numbers instructions per line of business.
Ids == Lobs \X (1..MaxCalls)

Statuses == {"DRAFT", "PENDING", "STANDING", "SINGLE_USE", "SUSPENDED",
             "REJECTED", "USED", "DELETED"}

Optional(S) == S \cup {NoUser}

LifecycleEvent == [act : Actions, user : Users]

Body == [type : Types, lob : Lobs, accountLob : Lobs, start : Nat, end : Nat,
         status : Statuses, createdBy : Users,
         approvedBy : Optional(Users), rejectedBy : Optional(Users),
         suspendedBy : Optional(Users), usage : Nat, trail : Seq(LifecycleEvent)]

\* A stored version; out says that the version has been closed.
Doc == [id : Ids, ver : Nat \ {0}, out : BOOLEAN, body : Body]

Event == [res : Ids, n : Nat \ {0}, act : Actions, user : Users,
          outcome : {"success", "failure"}, ver : Nat]

Fact == [id : Ids, ver : Nat \ {0}, act : Actions, user : Users, body : Body]

\* subject: whom the call is recorded for; principal: whom the bearer token names;
\* seen: the version the handler read; base: the version the transaction closes;
\* evt: the number of the security event; denied: the policy refused the call.
Call == [act : Actions, subject : Users, principal : Users, id : Ids, body : Body,
         seen : Nat, base : Nat, evt : Nat, denied : BOOLEAN]

Phases == {"idle", "authorize", "txread", "txwrite", "txevent", "commit",
           "audit", "insert", "pubevent", "pubfact"}

-----------------------------------------------------------------------------
(* What a handler does to the copy of the instruction it works on.         *)

\* The statuses from which a handler goes on; any other is answered with 409.
OpenTo(act) ==
  CASE act \in {"UPDATE", "SUBMIT"}   -> {"DRAFT"}
    [] act = "DELETE"                 -> {"DRAFT", "PENDING"}
    [] act \in {"APPROVE", "REJECT"}  -> {"PENDING"}
    [] act \in {"SUSPEND", "USE"}     -> Approved
    [] act = "REACTIVATE"             -> {"SUSPENDED"}
    [] OTHER                          -> Statuses            \* VIEW

NewInstruction(req, user) ==
  [type |-> req.type, lob |-> req.lob, accountLob |-> req.accountLob,
   start |-> req.start, end |-> req.end, status |-> "DRAFT", createdBy |-> user,
   approvedBy |-> NoUser, rejectedBy |-> NoUser, suspendedBy |-> NoUser,
   usage |-> 0, trail |-> <<>>]

\* The copy that is put to the policy: a deletion and a use are evaluated on a copy the
\* handler has already changed, an update on the new content.
Presented(act, b) ==
  CASE act = "DELETE" -> [b EXCEPT !.status = "DELETED"]
    [] act = "USE"    -> [b EXCEPT !.usage = @ + 1]
    [] OTHER          -> b

Revised(b, req) ==
  [b EXCEPT !.type = req.type, !.lob = req.lob, !.accountLob = req.accountLob,
            !.start = req.start, !.end = req.end]

\* Mutant of Effect: an approval sets the status payments use.
EffectForeignStatus(act, b, user) ==
  IF act = "APPROVE" THEN [b EXCEPT !.status = "APPROVED", !.approvedBy = user]
  ELSE IF act = "SUBMIT" THEN [b EXCEPT !.status = "PENDING"] ELSE b

\* Mutant of Effect: a reactivation keeps the name of the suspender.
EffectKeepsSuspender(act, b, user) ==
  CASE act = "SUSPEND"    -> [b EXCEPT !.status = "SUSPENDED", !.suspendedBy = user]
    [] act = "REACTIVATE" -> [b EXCEPT !.status = b.type]
    [] act = "SUBMIT"     -> [b EXCEPT !.status = "PENDING"]
    [] act = "APPROVE"    -> [b EXCEPT !.status = b.type, !.approvedBy = user]
    [] OTHER              -> b

\* The fields each handler sets once it is authorized.
Submitted(b)         == [b EXCEPT !.status = "PENDING"]
ApprovedBy(b, user)  == [b EXCEPT !.status = b.type, !.approvedBy = user]
RejectedBy(b, user)  == [b EXCEPT !.status = "REJECTED", !.rejectedBy = user]
SuspendedBy(b, user) == [b EXCEPT !.status = "SUSPENDED", !.suspendedBy = user]
Reactivated(b)       == [b EXCEPT !.status = b.type, !.suspendedBy = NoUser]
UsedUp(b)            == IF b.type = "SINGLE_USE" THEN [b EXCEPT !.status = "USED"] ELSE b

Effect(act, b, user) ==
  CASE act = "SUBMIT"     -> Submitted(b)
    [] act = "APPROVE"    -> ApprovedBy(b, user)
    [] act = "REJECT"     -> RejectedBy(b, user)
    [] act = "SUSPEND"    -> SuspendedBy(b, user)
    [] act = "REACTIVATE" -> Reactivated(b)
    [] act = "USE"        -> UsedUp(b)
    [] OTHER              -> b

\* What is stored: _persist_new_version records the lifecycle event just before.
Outcome(act, b, user) ==
  [Effect(act, b, user) EXCEPT !.trail = Append(@, [act |-> act, user |-> user])]

-----------------------------------------------------------------------------
(* sequence-service: a counter is incremented and read in one operation,   *)
(* and is never set back.                                                  *)

Incremented(counter, key) == [counter EXCEPT ![key] = @ + 1]

\* next_instruction_id: the number is the line of business's next.
NextInstructionId(lob) == <<lob, nextId[lob] + 1>>

\* next_security_event_id: the number is the instruction's next.
NextEventNumber(id) == nextEvent[id] + 1

-----------------------------------------------------------------------------
Init ==
  /\ docs = {}
  /\ events = {}
  /\ nextId = [l \in Lobs |-> 0]
  /\ nextEvent = [i \in Ids |-> 0]
  /\ pc = [t \in Tasks |-> "idle"]
  /\ call = [t \in Tasks |-> NoCall]
  /\ eventTopic = {}
  /\ factTopic = <<>>
  /\ calls = 0
  /\ now = 0

Goto(t, phase) == pc' = [pc EXCEPT ![t] = phase]

\* The task answers its client and is gone; what it held in memory is forgotten.
Finish(t) ==
  /\ pc' = [pc EXCEPT ![t] = "idle"]
  /\ call' = [call EXCEPT ![t] = NoCall]

Accept(t, c) ==
  /\ pc[t] = "idle"
  /\ calls < MaxCalls
  /\ calls' = calls + 1
  /\ call' = [call EXCEPT ![t] = c]
  /\ Goto(t, "authorize")

\* create: an instruction id is allocated before anything is authorized.
BeginCreate(t, user, req) ==
  LET id == NextInstructionId(req.lob)
  IN  /\ Accept(t, [act |-> "CREATE", subject |-> user, principal |-> user, id |-> id,
                    body |-> NewInstruction(req, user),
                    seen |-> 0, base |-> 0, evt |-> 0, denied |-> FALSE])
      /\ nextId' = Incremented(nextId, req.lob)
      /\ UNCHANGED <<storage, nextEvent, topics, now>>

\* Every other handler works on a copy of the current version d.
BeginOn(t, d, act, user, principal, copy) ==
  /\ Accept(t, [act |-> act, subject |-> user, principal |-> principal, id |-> d.id,
                body |-> copy, seen |-> d.ver, base |-> 0, evt |-> 0, denied |-> FALSE])
  /\ UNCHANGED <<storage, counters, topics, now>>

\* The versions a handler goes on with: current, and in a status open to the action.
Readable(act) == {d \in docs : ~d.out /\ d.body.status \in OpenTo(act)}

BeginUpdate(t, user, req) ==
  \E d \in Readable("UPDATE") : BeginOn(t, d, "UPDATE", user, user, Revised(d.body, req))

\* Users call with their own token; payment-service calls GET and USE with its own
\* token and the user's in X-On-Behalf-Of.
Principals(act, user) == IF act \in {"VIEW", "USE"} THEN {user, ServiceUser} ELSE {user}

Begin(t, act, user) ==
  \E d \in Readable(act), p \in Principals(act, user) :
    BeginOn(t, d, act, user, p, Presented(act, d.body))

BeginAny(t) ==
  \E user \in Users :
    \/ \E req \in Requests : BeginCreate(t, user, req) \/ BeginUpdate(t, user, req)
    \/ \E act \in Actions \ {"CREATE", "UPDATE"} : Begin(t, act, user)

-----------------------------------------------------------------------------
(* The policy decision, on the copy the handler holds.                     *)

IsRecorded(user) == user \notin Unrecorded

\* Mutant of Decision: skip_authorize, without the decision that comes before it.
DecisionSkipped(t) ==
  \/ call[t].act \in {"SUBMIT", "APPROVE", "REJECT", "SUSPEND", "REACTIVATE", "USE"}
  \/ Allowed(call[t].act, call[t].principal, DelegatedRoles, call[t].body, now)

Decision(t) ==
  Allowed(call[t].act, call[t].principal, DelegatedRoles, call[t].body, now)

AuthorizeMutation(t) ==
  LET c == call[t] IN
  /\ pc[t] = "authorize" /\ c.act # "VIEW" /\ Decision(t)
  /\ call' = [call EXCEPT ![t].body = Outcome(c.act, c.body, c.subject)]
  /\ Goto(t, IF c.act = "CREATE" THEN "txwrite" ELSE "txread")
  /\ UNCHANGED <<storage, counters, topics, calls, now>>

AuthorizeView(t) ==
  /\ pc[t] = "authorize" /\ call[t].act = "VIEW" /\ Decision(t)
  /\ IF IsRecorded(call[t].subject)
       THEN Goto(t, "audit") /\ UNCHANGED call
       ELSE Finish(t)
  /\ UNCHANGED <<storage, counters, topics, calls, now>>

Deny(t) ==
  /\ pc[t] = "authorize" /\ ~Decision(t)
  /\ IF IsRecorded(call[t].subject)
       THEN /\ call' = [call EXCEPT ![t].denied = TRUE]
            /\ Goto(t, "audit")
       ELSE Finish(t)
  /\ UNCHANGED <<storage, counters, topics, calls, now>>

-----------------------------------------------------------------------------
(* The transaction.  Its operations see the collection as of its first     *)
(* read; MongoDB aborts it with a write conflict when the document it      *)
(* updates was changed since, or is held by another open transaction.      *)

InTransaction == {"txevent", "commit"}

Holds(u, id) == pc[u] \in InTransaction /\ call[u].id = id

IsOpen(id, ver) == \E d \in docs : d.id = id /\ d.ver = ver /\ ~d.out

\* Mutant of WriteConflict: update_one by _id alone and no unique index.
WriteConflictByIdOnly(t) == \E u \in Tasks \ {t} : Holds(u, call[t].id)

\* The transaction cannot close the version it read, or the unique index on
\* (instruction_id, version_number) refuses the version it inserts.
WriteConflict(t) ==
  LET c == call[t] IN
  \/ c.base > 0 /\ ~IsOpen(c.id, c.base)
  \/ \E u \in Tasks \ {t} : Holds(u, c.id)
  \/ \E d \in docs : d.id = c.id /\ d.ver = c.base + 1

\* append_version looks up the current version again, inside the transaction.
TxRead(t) ==
  /\ pc[t] = "txread"
  /\ \E d \in docs :
       /\ d.id = call[t].id /\ ~d.out
       /\ call' = [call EXCEPT ![t].base = d.ver]
  /\ Goto(t, "txwrite")
  /\ UNCHANGED <<storage, counters, topics, calls, now>>

\* Close that version and insert the next one; nothing of it is visible before the
\* commit.  A user outside the security-event log gets no event.
TxWrite(t) ==
  /\ pc[t] = "txwrite"
  /\ ~WriteConflict(t)
  /\ Goto(t, IF IsRecorded(call[t].subject) THEN "txevent" ELSE "commit")
  /\ UNCHANGED <<storage, counters, call, topics, calls, now>>

\* Mutant of TxConflict: the transaction retries with the version it read before.
TxConflictRetried(t) ==
  /\ pc[t] = "txwrite"
  /\ WriteConflict(t)
  /\ UNCHANGED vars

\* ConcurrentModificationError: the transaction aborts, the client gets 409.
TxConflict(t) ==
  /\ pc[t] = "txwrite"
  /\ WriteConflict(t)
  /\ Finish(t)
  /\ UNCHANGED <<storage, counters, topics, calls, now>>

\* Mutant of AllocateEvent: the number is counted from the stored events.
AllocateEventCounted(t) ==
  LET id == call[t].id IN
  /\ pc[t] \in {"txevent", "audit"}
  /\ call' = [call EXCEPT ![t].evt = Cardinality({e \in events : e.res = id}) + 1]
  /\ Goto(t, IF pc[t] = "txevent" THEN "commit" ELSE "insert")
  /\ UNCHANGED <<storage, counters, topics, calls, now>>

\* The number of a security event, allocated over HTTP: inside the transaction for a
\* mutation ("txevent"), on its own for a view or a denial ("audit").
AllocateEvent(t) ==
  LET id == call[t].id IN
  /\ pc[t] \in {"txevent", "audit"}
  /\ nextEvent' = Incremented(nextEvent, id)
  /\ call' = [call EXCEPT ![t].evt = NextEventNumber(id)]
  /\ Goto(t, IF pc[t] = "txevent" THEN "commit" ELSE "insert")
  /\ UNCHANGED <<storage, nextId, topics, calls, now>>

\* Mutant of SecurityEvent: it names the version after the one the handler read.
SecurityEventOfRead(c) ==
  [res |-> c.id, n |-> c.evt, act |-> c.act, user |-> c.subject,
   outcome |-> IF c.denied THEN "failure" ELSE "success",
   ver |-> IF c.denied THEN 0 ELSE IF c.act = "VIEW" THEN c.seen ELSE c.seen + 1]

SecurityEvent(c) ==
  [res |-> c.id, n |-> c.evt, act |-> c.act, user |-> c.subject,
   outcome |-> IF c.denied THEN "failure" ELSE "success",
   ver |-> IF c.denied THEN 0 ELSE IF c.act = "VIEW" THEN c.seen ELSE c.base + 1]

Closed(c) == {d \in docs : d.id = c.id /\ d.ver = c.base}

\* Mutant of Commit: the new version replaces the one it closes.
CommitInPlace(t) ==
  LET c == call[t] IN
  /\ pc[t] = "commit"
  /\ docs' = (docs \ Closed(c))
               \cup {[id |-> c.id, ver |-> c.base + 1, out |-> FALSE, body |-> c.body]}
  /\ events' = events \cup {SecurityEvent(c)}
  /\ Goto(t, "pubevent")
  /\ UNCHANGED <<counters, call, topics, calls, now>>

\* Mutant of Commit: the event is stored after the version, outside of the transaction.
CommitThenInsert(t) ==
  LET c == call[t] IN
  /\ pc[t] = "commit"
  /\ docs' = (docs \ Closed(c))
               \cup {[d EXCEPT !.out = TRUE] : d \in Closed(c)}
               \cup {[id |-> c.id, ver |-> c.base + 1, out |-> FALSE, body |-> c.body]}
  /\ Goto(t, "insert")
  /\ UNCHANGED <<events, counters, call, topics, calls, now>>

\* The version and its event become visible together.
Commit(t) ==
  LET c == call[t] IN
  /\ pc[t] = "commit"
  /\ docs' = (docs \ Closed(c))
               \cup {[d EXCEPT !.out = TRUE] : d \in Closed(c)}
               \cup {[id |-> c.id, ver |-> c.base + 1, out |-> FALSE, body |-> c.body]}
  /\ IF IsRecorded(c.subject)
       THEN /\ events' = events \cup {SecurityEvent(c)}
            /\ Goto(t, "pubevent")
            /\ UNCHANGED call
       ELSE UNCHANGED events /\ Finish(t)
  /\ UNCHANGED <<counters, topics, calls, now>>

\* A view or a denial: the event is inserted without a transaction.
InsertEvent(t) ==
  /\ pc[t] = "insert"
  /\ events' = events \cup {SecurityEvent(call[t])}
  /\ Goto(t, "pubevent")
  /\ UNCHANGED <<docs, counters, call, topics, calls, now>>

-----------------------------------------------------------------------------
(* Publication: the producer's errors are logged and swallowed.            *)

IsMutation(c) == c.act # "VIEW" /\ ~c.denied

PublishEvent(t) ==
  /\ pc[t] = "pubevent"
  /\ \/ eventTopic' = eventTopic \cup {SecurityEvent(call[t])}
     \/ UNCHANGED eventTopic
  /\ IF IsMutation(call[t]) THEN Goto(t, "pubfact") /\ UNCHANGED call ELSE Finish(t)
  /\ UNCHANGED <<storage, counters, factTopic, calls, now>>

\* Mutant of InstructionFact: the version after the one the handler read.
InstructionFactOfRead(c) ==
  [id |-> c.id, ver |-> c.seen + 1, act |-> c.act, user |-> c.subject, body |-> c.body]

InstructionFact(c) ==
  [id |-> c.id, ver |-> c.base + 1, act |-> c.act, user |-> c.subject, body |-> c.body]

PublishFact(t) ==
  /\ pc[t] = "pubfact"
  /\ \/ factTopic' = Append(factTopic, InstructionFact(call[t]))
     \/ UNCHANGED factTopic
  /\ Finish(t)
  /\ UNCHANGED <<storage, counters, eventTopic, calls, now>>

-----------------------------------------------------------------------------
\* A call to another service or to MongoDB fails, or the process stops: an open
\* transaction is aborted and the rest of the handler is not run.
Interrupt(t) ==
  /\ pc[t] # "idle"
  /\ Finish(t)
  /\ UNCHANGED <<storage, counters, topics, calls, now>>

Tick ==
  /\ now < MaxNow
  /\ now' = now + 1
  /\ UNCHANGED <<storage, counters, pc, call, topics, calls>>

\* What the event loop goes on with once a request has been accepted.
Step(t) ==
  \/ AuthorizeMutation(t) \/ AuthorizeView(t) \/ Deny(t)
  \/ TxRead(t) \/ TxWrite(t) \/ TxConflict(t) \/ AllocateEvent(t)
  \/ Commit(t) \/ InsertEvent(t)
  \/ PublishEvent(t) \/ PublishFact(t)

Next ==
  \/ \E t \in Tasks : BeginAny(t) \/ Step(t) \/ Interrupt(t)
  \/ Tick

Spec == Init /\ [][Next]_vars

FairSpec == Spec /\ \A t \in Tasks : WF_vars(Step(t))

-----------------------------------------------------------------------------
(* Properties.                                                             *)

\* Every variable keeps its type; a task in a phase has a call to serve.
TypeOK ==
  /\ docs \subseteq Doc
  /\ events \subseteq Event
  /\ nextId \in [Lobs -> 0..MaxCalls]
  /\ nextEvent \in [Ids -> Nat]
  /\ pc \in [Tasks -> Phases]
  /\ DOMAIN call = Tasks
  /\ \A t \in Tasks : pc[t] # "idle" => call[t] \in Call
  /\ eventTopic \subseteq Event
  /\ factTopic \in Seq(Fact)
  /\ calls \in 0..MaxCalls
  /\ now \in 0..MaxNow

\* The versions of an instruction are numbered from 1 without a gap and exactly the
\* last one is open, whatever transactions race (repository.append_version).
VersionChain ==
  \A d \in docs :
    /\ \A e \in docs : d.id = e.id /\ d.ver = e.ver => d = e
    /\ d.ver > 1 => \E e \in docs : e.id = d.id /\ e.ver = d.ver - 1
    /\ d.out <=> \E e \in docs : e.id = d.id /\ e.ver = d.ver + 1

\* Who approved, rejected or suspended a stored version agrees with its status and with
\* the last entry of its own lifecycle_events, also when a stale copy was stored.
Provenance(b) ==
  /\ b.trail # <<>>
  /\ b.trail[1] = [act |-> "CREATE", user |-> b.createdBy]
  /\ (b.approvedBy # NoUser) <=> (b.status \in Approved \cup {"SUSPENDED", "USED"})
  /\ (b.rejectedBy # NoUser) <=> (b.status = "REJECTED")
  /\ (b.suspendedBy # NoUser) <=> (b.status = "SUSPENDED")
  /\ b.status \in Approved => b.status = b.type
  /\ b.status = "USED" => b.type = "SINGLE_USE" /\ b.usage > 0

ProvenanceMatchesStatus == \A d \in docs : Provenance(d.body)

\* The approver of b, if any, is a senior of the creator on the instruction's desk and
\* neither the creator, nor the creator's supervisor or subordinate.
Independent(b) ==
  LET a == b.approvedBy IN
  a # NoUser => /\ a # b.createdBy
                /\ a # Directory[b.createdBy].supervisor
                /\ Directory[a].supervisor # b.createdBy
                /\ Directory[a].title \in SeniorTo(Directory[b.createdBy].title)
                /\ Directory[a].lob = b.lob

\* No stored version carries an approval by its creator, by the creator's supervisor, by
\* a subordinate of the creator, by someone not senior to the creator or by another
\* desk, whichever copy of the instruction was stored last.
IndependentApproval == \A d \in docs : Independent(d.body)

\* In the history of every stored version, an instruction is reactivated right after it
\* was suspended and by someone else.
DualControlOfSuspension ==
  \A d \in docs : \A k \in DOMAIN d.body.trail :
    d.body.trail[k].act = "REACTIVATE" =>
      /\ k > 1
      /\ d.body.trail[k - 1].act = "SUSPEND"
      /\ d.body.trail[k - 1].user # d.body.trail[k].user

\* b2 is b after one action a handler accepts and the policy allows.
LawfulStep(b, b2) ==
  \E act \in Actions \ {"CREATE", "VIEW"}, user \in Users :
    /\ b.status \in OpenTo(act)
    /\ \E copy \in IF act = "UPDATE" THEN {Revised(b, req) : req \in Requests}
                                   ELSE {Presented(act, b)} :
         /\ b2 = Outcome(act, copy, user)
         /\ \E p \in Principals(act, user), time \in 0..now :
              Allowed(act, p, DelegatedRoles, copy, time)

\* Every stored version is a new draft or comes from an earlier version of the same
\* instruction by one lawful step: a race may drop a step, never invent one.
LawfulDescent ==
  \A d \in docs :
    IF d.ver = 1 THEN \E u \in Users, req \in Requests :
                        d.body = Outcome("CREATE", NewInstruction(req, u), u)
                 ELSE \E e \in docs : /\ e.id = d.id /\ e.ver < d.ver
                                      /\ LawfulStep(e.body, d.body)

LastEntry(b) == b.trail[Len(b.trail)]

\* The event that tells of version d of an instruction.
Tells(e, d) ==
  /\ e.outcome = "success" /\ e.act # "VIEW"
  /\ e.res = d.id /\ e.ver = d.ver
  /\ e.act = LastEntry(d.body).act /\ e.user = LastEntry(d.body).user

\* The security-event log and the versions agree: a version written by a recorded user
\* has exactly one event, and a success event names a version that is stored, also when
\* transactions abort between the write and the event.
AuditComplete ==
  /\ \A d \in docs : IsRecorded(LastEntry(d.body).user) =>
       \E e \in events :
         /\ Tells(e, d)
         /\ \A f \in events : Tells(f, d) => f = e
  /\ \A e \in events : e.outcome = "success" =>
       \E d \in docs : e.res = d.id /\ e.ver = d.ver /\ (e.act # "VIEW" => Tells(e, d))

\* Event ids are never given twice, although the counter is read outside of the
\* transaction and an aborted call leaves a gap.
EventIdsUnique ==
  \A e, f \in events : e.res = f.res /\ e.n = f.n => e = f

\* Kafka never tells of what is not stored: every published event is in the log, every
\* fact carries the content of its stored version, and no version is published twice.
PublishedIsCommitted ==
  /\ eventTopic \subseteq events
  /\ \A k \in DOMAIN factTopic :
       LET f == factTopic[k] IN
       /\ \E d \in docs : d.id = f.id /\ d.ver = f.ver /\ d.body = f.body
       /\ \A j \in DOMAIN factTopic :
            factTopic[j].id = f.id /\ factTopic[j].ver = f.ver => j = k

\* Storing a version never changes or reopens an older one, and no event is ever
\* removed: the bi-temporal history only grows.
AppendOnly ==
  [][/\ \A d \in docs : \E e \in docs' :
          e.id = d.id /\ e.ver = d.ver /\ e.body = d.body /\ (d.out => e.out)
     /\ events \subseteq events']_storage

-----------------------------------------------------------------------------
(* The inductive strengthenings the proofs need: what holds of the copies  *)
(* that calls in flight carry, and of the transactions that are open.      *)

\* An approval is independent, and an instruction that still awaits one has none.
SoundApproval(b) ==
  /\ Independent(b)
  /\ b.status \in {"DRAFT", "PENDING"} => b.approvedBy = NoUser

\* Every copy of an instruction, stored or carried by a call, has a sound approval, and
\* only views and uses are evaluated for another principal than the recorded subject.
ApprovalInv ==
  /\ \A d \in docs : SoundApproval(d.body)
  /\ \A t \in Tasks : pc[t] # "idle" =>
       /\ SoundApproval(call[t].body)
       /\ call[t].act \notin {"VIEW", "USE"} => call[t].principal = call[t].subject

\* Between its write and its commit, a transaction is the only one on its instruction,
\* the version it closes is still open and the version it stores is not there yet.
TransactionsExclusive ==
  \A t \in Tasks : pc[t] \in InTransaction =>
    /\ call[t].base > 0 => IsOpen(call[t].id, call[t].base)
    /\ ~\E d \in docs : d.id = call[t].id /\ d.ver = call[t].base + 1
    /\ \A u \in Tasks \ {t} : ~Holds(u, call[t].id)

\* Every accepted request is answered: no transaction waits for another one.
EveryCallEnds == \A t \in Tasks : (pc[t] # "idle") ~> (pc[t] = "idle")

-----------------------------------------------------------------------------
(* What the repository's texts say and the code does not do.               *)

\* models/fact_validation.py:31 (and README.md): a fact's snapshot is "a complete
\* cumulative document": its lifecycle_events extend those of the version before.
HistoryCumulative ==
  \A d, e \in docs : d.id = e.id /\ e.ver = d.ver + 1 =>
    e.body.trail = Append(d.body.trail, LastEntry(e.body))

=============================================================================
