----------------------- MODULE InstructionHistory_proofs -----------------------
(***************************************************************************)
(* What a stored version tells of its past is true, and the security-event *)
(* log and Kafka tell the same: every version is a new draft or comes from *)
(* an earlier one by a lawful step, it names who approved, rejected or     *)
(* suspended it, each version of a recorded user has its event, and what   *)
(* has been published is stored.                                           *)
(*                                                                         *)
(* The properties speak of what is stored; the inductive invariants speak  *)
(* of the calls in flight, whose copies were read before other calls       *)
(* committed: what a call carries is still a lawful outcome of a version   *)
(* that is in the collection when its transaction commits.                 *)
(***************************************************************************)
EXTENDS InstructionService_proofs

-----------------------------------------------------------------------------
(* What the calls in flight have in their hands: D are the stored versions *)
(* and n is OPA's clock, so that the operators are constant and a proof    *)
(* can compare them before and after a step.                               *)

\* The copies of a version with body b a handler may put to the policy.
Copies(act, b) ==
  IF act = "UPDATE" THEN {Revised(b, req) : req \in Requests} ELSE {Presented(act, b)}

\* LawfulStep, decided at some time up to n.
LawfulBy(b, b2, n) ==
  \E act \in Actions \ {"CREATE", "VIEW"}, user \in Users :
    /\ b.status \in OpenTo(act)
    /\ \E copy \in Copies(act, b) :
         /\ b2 = Outcome(act, copy, user)
         /\ \E p \in Principals(act, user), time \in 0..n :
              Allowed(act, p, DelegatedRoles, copy, time)

\* e is the version call c has read.
IsRead(c, e) == e.id = c.id /\ e.ver = c.seen

\* Before the decision: a new draft, or a copy of a stored version that was open to the
\* action when it was read.
FaithfulCopy(c, D) ==
  /\ ~c.denied
  /\ c.principal \in Principals(c.act, c.subject)
  /\ IF c.act = "CREATE"
       THEN c.base = 0 /\ \E req \in Requests : c.body = NewInstruction(req, c.subject)
       ELSE \E e \in D : /\ IsRead(c, e)
                         /\ e.body.status \in OpenTo(c.act)
                         /\ c.body \in Copies(c.act, e.body)

\* After it: what the transaction is to store, with the lifecycle event on top.
LawfulOutcome(c, D, n) ==
  /\ c.act # "VIEW" /\ ~c.denied
  /\ c.body.trail # <<>>
  /\ LastEntry(c.body) = [act |-> c.act, user |-> c.subject]
  /\ IF c.act = "CREATE"
       THEN c.base = 0 /\ \E req \in Requests :
              c.body = Outcome("CREATE", NewInstruction(req, c.subject), c.subject)
       ELSE \E e \in D : IsRead(c, e) /\ LawfulBy(e.body, c.body, n)

\* A mutation that has not been committed yet.
Uncommitted == {"txread", "txwrite", "txevent", "commit"}

\* What holds of a call c in phase p; the version it closes is not older than the one it
\* has read.
LawfulAt(p, c, D, n) ==
  /\ p = "authorize" => FaithfulCopy(c, D)
  /\ p \in Uncommitted => LawfulOutcome(c, D, n)
  /\ p = "txread" => c.act # "CREATE"
  /\ p \in Uncommitted \ {"txread"} /\ c.act # "CREATE" => c.base >= c.seen

CallsAreLawful == \A t \in Tasks : LawfulAt(pc[t], call[t], docs, now)

\* The open version of an instruction is its last one, and its first one exists.
OpenIsLast ==
  /\ \A d, e \in docs : d.id = e.id /\ ~d.out => e.ver <= d.ver
  /\ \A d \in docs : \E e \in docs : e.id = d.id /\ e.ver = 1

\* LawfulDescent, of the versions D by the time n.
Descent(D, n) ==
  \A d \in D :
    IF d.ver = 1 THEN \E u \in Users, req \in Requests :
                        d.body = Outcome("CREATE", NewInstruction(req, u), u)
                 ELSE \E e \in D : /\ e.id = d.id /\ e.ver < d.ver
                                   /\ LawfulBy(e.body, d.body, n)

LineageInv == CallsAreLawful /\ OpenIsLast /\ Descent(docs, now)

LEMMA DescentNow == Descent(docs, now) => LawfulDescent
<1>1. \A b, b2 : LawfulBy(b, b2, now) => LawfulStep(b, b2)
  BY DEF LawfulStep, LawfulBy, Copies
<1> QED BY <1>1 DEF Descent, LawfulDescent

-----------------------------------------------------------------------------
(* What any step may change.                                               *)

\* E holds every version of D with its content.
Extends(E, D) == \A d \in D : \E e \in E : e.id = d.id /\ e.ver = d.ver /\ e.body = d.body

\* Every stored version stays, with its content.
Grows == Extends(docs', docs)

Kept(u) == pc'[u] = pc[u] /\ call'[u] = call[u]

LEMMA ChangeOfOne ==
  ASSUME TypeInv, [Next]_vars
  PROVE  /\ Grows
         /\ now \in Nat /\ now' \in Nat /\ now <= now'
         /\ \/ UNCHANGED <<docs, events, pc, call, topics>>
            \/ \E t \in Tasks : /\ BeginAny(t) \/ Step(t) \/ Interrupt(t)
                               /\ \A u \in Tasks \ {t} : Kept(u)
<1>f. /\ pc \in [Tasks -> Phases] /\ DOMAIN call = Tasks
      /\ now \in Nat /\ MaxNow \in Nat
  BY ServiceAssumption DEF TypeInv, TypeOK
<1>1. ASSUME NEW t \in Tasks, Commit(t) PROVE Grows
  <2>1. \A o \in docs : \E d \in docs' :
           /\ o.id = d.id /\ o.ver = d.ver /\ o.body = d.body
           /\ IF o.id = call[t].id /\ o.ver = call[t].base
                THEN d = Shut(o) /\ d.out = TRUE ELSE d = o
    BY <1>1, CommitDocs
  <2> QED BY <2>1 DEF Grows, Extends
<1>2. ASSUME UNCHANGED docs PROVE Grows
  BY <1>2 DEF Grows, Extends
<1>3. ASSUME NEW t \in Tasks, BeginAny(t)
      PROVE  UNCHANGED docs /\ UNCHANGED now /\ \A u \in Tasks \ {t} : Kept(u)
  BY <1>3, <1>f DEF BeginAny, BeginCreate, BeginUpdate, Begin, BeginOn, Accept, Goto, Kept,
                    storage
<1>4. ASSUME NEW t \in Tasks, Step(t)
      PROVE  /\ UNCHANGED docs \/ Commit(t)
             /\ UNCHANGED now /\ \A u \in Tasks \ {t} : Kept(u)
  <2> USE <1>f DEF Goto, Finish, Kept, storage
  <2>1. CASE AuthorizeMutation(t) \/ AuthorizeView(t) \/ Deny(t)
    BY <2>1 DEF AuthorizeMutation, AuthorizeView, Deny
  <2>2. CASE TxRead(t) \/ TxWrite(t) \/ TxConflict(t) \/ AllocateEvent(t)
    BY <2>2 DEF TxRead, TxWrite, TxConflict, AllocateEvent
  <2>3. CASE Commit(t) \/ InsertEvent(t)
    BY <2>3 DEF Commit, InsertEvent
  <2>4. CASE PublishEvent(t) \/ PublishFact(t)
    BY <2>4 DEF PublishEvent, PublishFact
  <2> QED BY <1>4, <2>1, <2>2, <2>3, <2>4 DEF Step
<1>5. ASSUME NEW t \in Tasks, Interrupt(t)
      PROVE  UNCHANGED docs /\ UNCHANGED now /\ \A u \in Tasks \ {t} : Kept(u)
  BY <1>5, <1>f DEF Interrupt, Finish, Kept, storage
<1>6. CASE Tick
  BY <1>2, <1>6, <1>f DEF Tick, storage, topics
<1>7. CASE UNCHANGED vars
  BY <1>2, <1>7, <1>f DEF vars, storage, topics
<1>8. CASE \E t \in Tasks : BeginAny(t) \/ Step(t) \/ Interrupt(t)
  BY <1>1, <1>2, <1>3, <1>4, <1>5, <1>8, <1>f
<1> QED BY <1>6, <1>7, <1>8 DEF Next

LEMMA OnlyCommits == [Next]_vars => UNCHANGED docs \/ \E t \in Tasks : Commit(t)
<1>1. ASSUME NEW t \in Tasks, BeginAny(t) PROVE UNCHANGED docs
  BY <1>1 DEF BeginAny, BeginCreate, BeginUpdate, Begin, BeginOn, storage
<1>2. ASSUME NEW t \in Tasks, Step(t) PROVE UNCHANGED docs \/ Commit(t)
  BY <1>2 DEF Step, storage, AuthorizeMutation, AuthorizeView, Deny, TxRead, TxWrite,
              TxConflict, AllocateEvent, InsertEvent, PublishEvent, PublishFact
<1> QED BY <1>1, <1>2 DEF Next, Interrupt, Tick, vars, storage

-----------------------------------------------------------------------------
(* The calls in flight stay lawful.                                        *)

LEMMA LawfulLater ==
  ASSUME NEW m \in Nat, NEW n \in Nat, m <= n
  PROVE  \A b, b2 : LawfulBy(b, b2, m) => LawfulBy(b, b2, n)
<1>1. 0..m \subseteq 0..n
  OBVIOUS
<1> QED BY <1>1 DEF LawfulBy

\* Time passes and versions are added: what was lawful still is.
LEMMA StillLawful ==
  ASSUME NEW D, NEW E, Extends(E, D), NEW m \in Nat, NEW n \in Nat, m <= n,
         NEW p, NEW c, LawfulAt(p, c, D, m)
  PROVE  LawfulAt(p, c, E, n)
<1>1. \A b, b2 : LawfulBy(b, b2, m) => LawfulBy(b, b2, n)
  BY LawfulLater
<1>2. FaithfulCopy(c, D) => FaithfulCopy(c, E)
  BY DEF FaithfulCopy, Extends, IsRead
<1>3. LawfulOutcome(c, D, m) => LawfulOutcome(c, E, n)
  BY <1>1 DEF LawfulOutcome, Extends, IsRead
<1> QED BY <1>2, <1>3 DEF LawfulAt

\* In every other phase nothing is asked.
Settled == {"idle", "audit", "insert", "pubevent", "pubfact"}

LEMMA SettledLawful ==
  ASSUME NEW p \in Settled, NEW c, NEW D, NEW n
  PROVE  LawfulAt(p, c, D, n)
BY DEF Settled, LawfulAt, Uncommitted

LEMMA EffectTrail ==
  ASSUME NEW b \in Body, NEW act \in Actions, NEW user \in Users
  PROVE  Effect(act, b, user).trail = b.trail
<1>1. CASE act = "SUBMIT"
  BY <1>1 DEF Effect, Submitted, Body
<1>2. CASE act = "APPROVE"
  BY <1>2 DEF Effect, ApprovedBy, Body
<1>3. CASE act = "REJECT"
  BY <1>3 DEF Effect, RejectedBy, Body
<1>4. CASE act = "SUSPEND"
  BY <1>4 DEF Effect, SuspendedBy, Body
<1>5. CASE act = "REACTIVATE"
  BY <1>5 DEF Effect, Reactivated, Body
<1>6. CASE act = "USE"
  BY <1>6 DEF Effect, UsedUp, Body
<1>7. CASE act \notin {"SUBMIT", "APPROVE", "REJECT", "SUSPEND", "REACTIVATE", "USE"}
  BY <1>7 DEF Effect
<1> QED BY <1>1, <1>2, <1>3, <1>4, <1>5, <1>6, <1>7

\* An outcome has the history of the copy and the lifecycle event on top.
LEMMA OutcomeTrail ==
  ASSUME NEW b \in Body, NEW act \in Actions, NEW user \in Users
  PROVE  LET o     == Outcome(act, b, user)
             entry == [act |-> act, user |-> user]
         IN  /\ o.trail = Append(b.trail, entry)
             /\ o.trail # <<>> /\ LastEntry(o) = entry
             /\ Len(o.trail) = Len(b.trail) + 1
             /\ \A k \in 1..Len(b.trail) : o.trail[k] = b.trail[k]
<1> DEFINE e     == Effect(act, b, user)
           entry == [act |-> act, user |-> user]
           o     == [e EXCEPT !.trail = Append(@, entry)]
<1>1. e \in Body /\ e.trail = b.trail /\ b.trail \in Seq(LifecycleEvent)
  BY EffectType, EffectTrail DEF Body
<1>2. entry \in LifecycleEvent
  BY DEF LifecycleEvent
<1>3. Outcome(act, b, user) = o
  BY DEF Outcome
<1> HIDE DEF e, entry
<1>4. o.trail = Append(b.trail, entry)
  BY <1>1 DEF Body
<1> HIDE DEF o
<1>5. /\ Len(o.trail) = Len(b.trail) + 1 /\ o.trail[Len(b.trail) + 1] = entry
      /\ \A k \in 1..Len(b.trail) : o.trail[k] = b.trail[k]
      /\ Len(b.trail) \in Nat
  BY <1>1, <1>2, <1>4
<1>6. o.trail # <<>>
  BY <1>5
<1> USE DEF entry
<1> QED BY <1>3, <1>4, <1>5, <1>6 DEF LastEntry

LEMMA BeginOnLawful ==
  ASSUME TypeInv, NEW t \in Tasks, NEW d \in docs, NEW act \in Actions \ {"CREATE"},
         NEW user, NEW p \in Principals(act, user), NEW copy \in Copies(act, d.body),
         d.body.status \in OpenTo(act), BeginOn(t, d, act, user, p, copy)
  PROVE  LawfulAt(pc[t], call[t], docs, now)'
<1> DEFINE c == [act |-> act, subject |-> user, principal |-> p, id |-> d.id,
                 body |-> copy, seen |-> d.ver, base |-> 0, evt |-> 0, denied |-> FALSE]
<1>1. FaithfulCopy(c, docs)
  BY DEF FaithfulCopy, IsRead
<1>2. Accept(t, c) /\ docs' = docs
  BY DEF BeginOn, storage
<1> HIDE DEF c
<1>3. pc'[t] = "authorize" /\ call'[t] = c
  BY <1>2 DEF Accept, Goto, TypeInv, TypeOK
<1> QED BY <1>1, <1>2, <1>3 DEF LawfulAt, Uncommitted

LEMMA BeginLawful ==
  ASSUME TypeInv, NEW t \in Tasks, BeginAny(t)
  PROVE  LawfulAt(pc[t], call[t], docs, now)'
<1>1. ASSUME NEW user \in Users, NEW req \in Requests, BeginCreate(t, user, req)
      PROVE  LawfulAt(pc[t], call[t], docs, now)'
  <2> DEFINE c == [act |-> "CREATE", subject |-> user, principal |-> user,
                   id |-> NextInstructionId(req.lob), body |-> NewInstruction(req, user),
                   seen |-> 0, base |-> 0, evt |-> 0, denied |-> FALSE]
  <2>1. FaithfulCopy(c, docs)
    <3>1. /\ c.denied = FALSE /\ c.act = "CREATE" /\ c.base = 0
          /\ c.principal = user /\ c.subject = user /\ c.body = NewInstruction(req, user)
      OBVIOUS
    <3> HIDE DEF c
    <3> QED BY <3>1 DEF FaithfulCopy, Principals
  <2>2. Accept(t, c) /\ docs' = docs
    BY <1>1 DEF BeginCreate, storage
  <2> HIDE DEF c
  <2>3. pc'[t] = "authorize" /\ call'[t] = c
    BY <2>2 DEF Accept, Goto, TypeInv, TypeOK
  <2> QED BY <2>1, <2>2, <2>3 DEF LawfulAt, Uncommitted
<1>2. ASSUME NEW user \in Users, NEW req \in Requests, BeginUpdate(t, user, req)
      PROVE  LawfulAt(pc[t], call[t], docs, now)'
  <2>1. PICK d \in Readable("UPDATE") :
               BeginOn(t, d, "UPDATE", user, user, Revised(d.body, req))
    BY <1>2 DEF BeginUpdate
  <2>2. d \in docs /\ d.body.status \in OpenTo("UPDATE")
    BY DEF Readable
  <2>3. /\ Revised(d.body, req) \in Copies("UPDATE", d.body)
        /\ user \in Principals("UPDATE", user) /\ "UPDATE" \in Actions \ {"CREATE"}
    BY DEF Copies, Principals, Actions
  <2> QED BY <2>1, <2>2, <2>3, BeginOnLawful
<1>3. ASSUME NEW user \in Users, NEW act \in Actions \ {"CREATE", "UPDATE"},
             Begin(t, act, user)
      PROVE  LawfulAt(pc[t], call[t], docs, now)'
  <2>1. PICK d \in Readable(act), p \in Principals(act, user) :
               BeginOn(t, d, act, user, p, Presented(act, d.body))
    BY <1>3 DEF Begin
  <2>2. d \in docs /\ d.body.status \in OpenTo(act)
    BY DEF Readable
  <2>3. Presented(act, d.body) \in Copies(act, d.body)
    BY DEF Copies
  <2> QED BY <2>1, <2>2, <2>3, BeginOnLawful
<1> QED BY <1>1, <1>2, <1>3 DEF BeginAny

\* The decision turns a faithful copy into a lawful outcome.
LEMMA AuthorizedLawful ==
  ASSUME TypeInv, NEW t \in Tasks, AuthorizeMutation(t), FaithfulCopy(call[t], docs)
  PROVE  LawfulAt(pc[t], call[t], docs, now)'
<1> DEFINE c == call[t]
           o == Outcome(c.act, c.body, c.subject)
           n == [c EXCEPT !.body = o]
<1>1. /\ c \in Call /\ c.act # "VIEW"
      /\ Allowed(c.act, c.principal, DelegatedRoles, c.body, now)
      /\ call' = [call EXCEPT ![t] = n] /\ UNCHANGED <<docs, now>>
      /\ pc' = [pc EXCEPT ![t] = IF c.act = "CREATE" THEN "txwrite" ELSE "txread"]
  BY DEF AuthorizeMutation, Decision, Goto, storage, TypeInv, TypeOK
<1>2. c.body \in Body /\ c.act \in Actions /\ c.subject \in Users /\ now \in 0..now
  BY <1>1, ServiceAssumption DEF Call, TypeInv, TypeOK
<1>3. o.trail # <<>> /\ LastEntry(o) = [act |-> c.act, user |-> c.subject]
  BY <1>2, OutcomeTrail
<1>4. n.act = c.act /\ n.subject = c.subject /\ n.denied = c.denied /\ n.base = c.base
      /\ n.id = c.id /\ n.seen = c.seen /\ n.body = o
  <2> HIDE DEF o
  <2> QED BY <1>1 DEF Call
<1>5. call'[t] = n /\ pc'[t] = IF c.act = "CREATE" THEN "txwrite" ELSE "txread"
  BY <1>1 DEF TypeInv, TypeOK
<1>6. CASE c.act = "CREATE"
  <2>1. PICK req \in Requests : c.body = NewInstruction(req, c.subject)
    BY <1>6 DEF FaithfulCopy
  <2>2. c.base = 0 /\ c.denied = FALSE
    BY <1>1, <1>6 DEF FaithfulCopy, Call
  <2>3. LawfulOutcome(n, docs, now)
    <3> HIDE DEF c, n
    <3> QED BY <1>1, <1>3, <1>4, <1>6, <2>1, <2>2 DEF LawfulOutcome
  <2> HIDE DEF n, o, c
  <2> QED BY <1>1, <1>4, <1>5, <1>6, <2>3 DEF LawfulAt, Uncommitted
<1>7. CASE c.act # "CREATE"
  <2>1. PICK e \in docs : /\ IsRead(c, e) /\ e.body.status \in OpenTo(c.act)
                          /\ c.body \in Copies(c.act, e.body)
    BY <1>7 DEF FaithfulCopy
  <2>2. c.denied = FALSE /\ c.principal \in Principals(c.act, c.subject)
    BY <1>1 DEF FaithfulCopy, Call
  <2>3. LawfulBy(e.body, o, now)
    <3>1. c.act \in Actions \ {"CREATE", "VIEW"}
      BY <1>1, <1>2, <1>7
    <3> HIDE DEF c
    <3> QED BY <1>1, <1>2, <2>1, <2>2, <3>1 DEF LawfulBy
  <2>4. LawfulOutcome(n, docs, now)
    <3> HIDE DEF c, n, o
    <3> QED BY <1>1, <1>3, <1>4, <1>7, <2>1, <2>2, <2>3 DEF LawfulOutcome, IsRead
  <2> HIDE DEF n, o, c
  <2> QED BY <1>1, <1>4, <1>5, <1>7, <2>4 DEF LawfulAt, Uncommitted
<1> QED BY <1>6, <1>7

\* Taking over the current version, or a number, leaves the outcome as it was.
LEMMA RebasedLawful ==
  ASSUME NEW c, NEW n, NEW D, NEW m, LawfulOutcome(c, D, m),
         n.act = c.act, n.subject = c.subject, n.denied = c.denied, n.id = c.id,
         n.seen = c.seen, n.body = c.body, c.act = "CREATE" => n.base = c.base
  PROVE  LawfulOutcome(n, D, m)
BY DEF LawfulOutcome, IsRead

LEMMA StepLawful ==
  ASSUME TypeInv, OpenIsLast, NEW t \in Tasks, Step(t), LawfulAt(pc[t], call[t], docs, now),
         Extends(docs', docs)
  PROVE  LawfulAt(pc[t], call[t], docs, now)'
<1>f. /\ pc \in [Tasks -> Phases] /\ DOMAIN call = Tasks /\ now \in Nat
      /\ (pc[t] # "idle" => call[t] \in Call)
  BY ServiceAssumption DEF TypeInv, TypeOK
<1>s. pc'[t] \in Settled => LawfulAt(pc[t], call[t], docs, now)'
  BY SettledLawful
<1>1. CASE AuthorizeMutation(t)
  BY <1>1, AuthorizedLawful DEF AuthorizeMutation, LawfulAt
<1>2. CASE AuthorizeView(t) \/ Deny(t) \/ TxConflict(t)
  <2>1. pc'[t] \in Settled
    BY <1>2, <1>f DEF AuthorizeView, Deny, TxConflict, Goto, Finish, Settled
  <2> QED BY <2>1, <1>s
<1>3. CASE TxRead(t)
  <2>1. PICK d \in docs : /\ d.id = call[t].id /\ ~d.out
                          /\ call' = [call EXCEPT ![t].base = d.ver]
    BY <1>3 DEF TxRead
  <2> DEFINE c == call[t]
             n == [c EXCEPT !.base = d.ver]
  <2>2. /\ c \in Call /\ LawfulOutcome(c, docs, now) /\ c.act # "CREATE"
        /\ UNCHANGED <<docs, now>> /\ call'[t] = n /\ pc'[t] = "txwrite"
    BY <1>3, <1>f, <2>1 DEF TxRead, Goto, storage, LawfulAt, Uncommitted
  <2>3. /\ n.act = c.act /\ n.subject = c.subject /\ n.denied = c.denied /\ n.id = c.id
        /\ n.seen = c.seen /\ n.body = c.body /\ n.base = d.ver
    BY <2>2 DEF Call
  <2> HIDE DEF n, c
  <2>4. LawfulOutcome(n, docs, now)
    BY <2>2, <2>3, RebasedLawful
  <2>5. PICK e \in docs : IsRead(c, e)
    BY <2>2 DEF LawfulOutcome
  <2>6. e.ver <= d.ver
    BY <2>1, <2>5 DEF OpenIsLast, IsRead, c
  <2>7. n.base >= n.seen
    <3>1. d.ver \in Nat /\ e.ver \in Nat
      BY DEF TypeInv, TypeOK, Doc
    <3> QED BY <2>3, <2>5, <2>6, <3>1 DEF IsRead
  <2> QED BY <2>2, <2>4, <2>7 DEF LawfulAt, Uncommitted
<1>4. CASE TxWrite(t)
  BY <1>4, <1>f DEF TxWrite, Goto, storage, LawfulAt, Uncommitted
<1>5. CASE AllocateEvent(t)
  <2>1. CASE pc[t] = "audit"
    BY <1>5, <1>f, <1>s, <2>1 DEF AllocateEvent, Goto, Settled
  <2>2. CASE pc[t] = "txevent"
    <3> DEFINE c == call[t]
               k == NextEventNumber(c.id)
               n == [c EXCEPT !.evt = k]
    <3>1. /\ c \in Call /\ UNCHANGED <<docs, now>> /\ call'[t] = n /\ pc'[t] = "commit"
          /\ LawfulOutcome(c, docs, now) /\ (c.act # "CREATE" => c.base >= c.seen)
      BY <1>5, <1>f, <2>2 DEF AllocateEvent, Goto, storage, LawfulAt, Uncommitted
    <3>2. /\ n.act = c.act /\ n.subject = c.subject /\ n.denied = c.denied /\ n.id = c.id
          /\ n.seen = c.seen /\ n.body = c.body /\ n.base = c.base
      BY <3>1 DEF Call
    <3> HIDE DEF n, c, k
    <3>3. LawfulOutcome(n, docs, now)
      BY <3>1, <3>2, RebasedLawful
    <3> QED BY <3>1, <3>2, <3>3 DEF LawfulAt, Uncommitted
  <2> QED BY <1>5, <2>1, <2>2 DEF AllocateEvent
<1>6. CASE Commit(t) \/ InsertEvent(t) \/ PublishEvent(t) \/ PublishFact(t)
  <2>1. pc'[t] \in Settled
    BY <1>6, <1>f DEF Commit, InsertEvent, PublishEvent, PublishFact, Goto, Finish, Settled
  <2> QED BY <2>1, <1>s
<1> QED BY <1>1, <1>2, <1>3, <1>4, <1>5, <1>6 DEF Step

LEMMA NextLawful ==
  ASSUME TypeInv, CallsAreLawful, OpenIsLast, [Next]_vars
  PROVE  CallsAreLawful'
<1>1. /\ Extends(docs', docs)
      /\ now \in Nat /\ now' \in Nat /\ now <= now'
      /\ \/ UNCHANGED <<docs, events, pc, call, topics>>
         \/ \E t \in Tasks : /\ BeginAny(t) \/ Step(t) \/ Interrupt(t)
                            /\ \A u \in Tasks \ {t} : Kept(u)
  BY ChangeOfOne DEF Grows
<1>2. ASSUME NEW u \in Tasks, Kept(u)
      PROVE  LawfulAt(pc[u], call[u], docs, now)'
  BY <1>1, <1>2, StillLawful DEF CallsAreLawful, Kept
<1>3. ASSUME UNCHANGED <<pc, call>> PROVE CallsAreLawful'
  BY <1>2, <1>3 DEF Kept, CallsAreLawful
<1>4. ASSUME NEW t \in Tasks, BeginAny(t) \/ Step(t) \/ Interrupt(t),
             \A u \in Tasks \ {t} : Kept(u)
      PROVE  CallsAreLawful'
  <2>1. LawfulAt(pc[t], call[t], docs, now)'
    <3>1. CASE BeginAny(t)
      BY <3>1, BeginLawful
    <3>2. CASE Step(t)
      BY <1>1, <3>2, StepLawful DEF CallsAreLawful
    <3>3. CASE Interrupt(t)
      <4>1. pc'[t] \in Settled
        BY <3>3 DEF Interrupt, Finish, Settled, TypeInv, TypeOK
      <4> QED BY <4>1, SettledLawful
    <3> QED BY <1>4, <3>1, <3>2, <3>3
  <2> QED BY <1>2, <1>4, <2>1 DEF CallsAreLawful
<1> QED BY <1>1, <1>3, <1>4

-----------------------------------------------------------------------------
(* A commit adds a last, open version whose origin is in the collection.   *)

LEMMA CommitOpen ==
  ASSUME TypeInv, ChainInv, OpenIsLast, NEW t \in Tasks, Commit(t)
  PROVE  OpenIsLast'
<1> DEFINE id   == call[t].id
           base == call[t].base
<1>1. pc[t] = "commit" /\ base \in Nat /\ \A d \in docs : d.ver \in Nat \ {0}
  BY DEF Commit, TypeInv, TypeOK, Call, Doc
<1>2. /\ base > 0 => \E d \in docs : d.id = id /\ d.ver = base /\ ~d.out
      /\ \A d \in docs : ~(d.id = id /\ d.ver = base + 1)
  BY <1>1 DEF ChainInv, TransactionsExclusive, InTransaction, IsOpen
<1>3. PICK new \in docs' :
        /\ new.id = id /\ new.ver = base + 1 /\ new.out = FALSE
        /\ \A d \in docs' : d = new \/ \E o \in docs :
             /\ o.id = d.id /\ o.ver = d.ver /\ o.body = d.body
             /\ IF o.id = id /\ o.ver = base
                  THEN d = Shut(o) /\ d.out = TRUE ELSE d = o
        /\ \A o \in docs : \E d \in docs' :
             /\ o.id = d.id /\ o.ver = d.ver /\ o.body = d.body
             /\ IF o.id = id /\ o.ver = base
                  THEN d = Shut(o) /\ d.out = TRUE ELSE d = o
  BY CommitDocs
<1> HIDE DEF id, base
<1>4. ASSUME NEW o \in docs, o.id = id PROVE o.ver <= base /\ base > 0
  <2>1. base > 0
    BY <1>1, <1>2, <1>4 DEF OpenIsLast
  <2> QED BY <1>2, <1>4, <2>1 DEF OpenIsLast
<1>5. ASSUME NEW d \in docs', NEW e \in docs', d.id = e.id, ~d.out
      PROVE  e.ver <= d.ver
  <2>1. CASE d = new
    BY <1>1, <1>3, <1>4, <1>5, <2>1
  <2>2. CASE d # new
    <3>1. PICK o \in docs : /\ o = d /\ o.ver = d.ver /\ ~(o.id = id /\ o.ver = base)
      BY <1>3, <1>5, <2>2
    <3>2. CASE e # new
      BY <1>3, <1>5, <3>1, <3>2 DEF OpenIsLast
    <3>3. CASE e = new
      <4>1. o.id = id /\ o.ver <= base /\ base > 0
        BY <1>3, <1>4, <1>5, <3>1, <3>3
      <4>2. base <= o.ver
        BY <1>2, <1>5, <3>1, <4>1 DEF OpenIsLast
      <4> QED BY <1>1, <3>1, <4>1, <4>2
    <3> QED BY <3>2, <3>3
  <2> QED BY <2>1, <2>2
<1>6. ASSUME NEW d \in docs' PROVE \E e \in docs' : e.id = d.id /\ e.ver = 1
  <2>1. CASE \E o \in docs : o.id = d.id
    BY <1>3, <2>1 DEF OpenIsLast
  <2>2. CASE ~\E o \in docs : o.id = d.id
    <3>1. d = new
      BY <1>3, <2>2
    <3>2. base = 0
      BY <1>1, <1>2, <1>3, <2>2, <3>1
    <3> QED BY <1>3, <3>1, <3>2
  <2> QED BY <2>1, <2>2
<1> QED BY <1>5, <1>6 DEF OpenIsLast

LEMMA CommitDescent ==
  ASSUME TypeInv, LineageInv, NEW t \in Tasks, Commit(t), Extends(docs', docs)
  PROVE  Descent(docs, now)'
<1> DEFINE c == call[t]
<1>1. /\ c \in Call /\ LawfulOutcome(c, docs, now) /\ now' = now
      /\ c.act # "CREATE" => c.base >= c.seen
      /\ docs' = (docs \ Closed(c))
                    \cup {[d EXCEPT !.out = TRUE] : d \in Closed(c)}
                    \cup {[id |-> c.id, ver |-> c.base + 1, out |-> FALSE, body |-> c.body]}
  BY DEF Commit, TypeInv, TypeOK, LineageInv, CallsAreLawful, LawfulAt, Uncommitted
<1>2. \A d \in docs : d \in Doc
  BY DEF TypeInv, TypeOK
<1>3. ASSUME NEW d \in docs'
      PROVE  \/ d.id = c.id /\ d.ver = c.base + 1 /\ d.body = c.body
             \/ \E o \in docs : o.id = d.id /\ o.ver = d.ver /\ o.body = d.body
  BY <1>1, <1>2 DEF Closed, Doc
<1>4. c.base \in Nat /\ c.subject \in Users /\ \A d \in docs : d.ver \in Nat \ {0}
  BY <1>1, <1>2 DEF Call, Doc
<1> HIDE DEF c
<1>5. ASSUME NEW d \in docs', d.id = c.id, d.ver = c.base + 1, d.body = c.body
      PROVE  IF d.ver = 1 THEN \E u \in Users, req \in Requests :
                                 d.body = Outcome("CREATE", NewInstruction(req, u), u)
                          ELSE \E e \in docs' : /\ e.id = d.id /\ e.ver < d.ver
                                                /\ LawfulBy(e.body, d.body, now')
  <2>1. CASE c.act = "CREATE"
    BY <1>1, <1>4, <1>5, <2>1 DEF LawfulOutcome
  <2>2. CASE c.act # "CREATE"
    <3>1. PICK e \in docs : IsRead(c, e) /\ LawfulBy(e.body, c.body, now)
      BY <1>1, <2>2 DEF LawfulOutcome
    <3>2. PICK f \in docs' : f.id = e.id /\ f.ver = e.ver /\ f.body = e.body
      BY DEF Extends
    <3>3. f.id = c.id /\ f.ver < c.base + 1 /\ d.ver # 1
      BY <1>1, <1>4, <1>5, <2>2, <3>1, <3>2 DEF IsRead
    <3> QED BY <1>1, <1>5, <3>1, <3>2, <3>3
  <2> QED BY <2>1, <2>2
<1>6. ASSUME NEW d \in docs', NEW o \in docs,
             o.id = d.id, o.ver = d.ver, o.body = d.body
      PROVE  IF d.ver = 1 THEN \E u \in Users, req \in Requests :
                                 d.body = Outcome("CREATE", NewInstruction(req, u), u)
                          ELSE \E e \in docs' : /\ e.id = d.id /\ e.ver < d.ver
                                                /\ LawfulBy(e.body, d.body, now')
  <2>1. CASE d.ver = 1
    BY <1>6, <2>1 DEF LineageInv, Descent
  <2>2. CASE d.ver # 1
    <3>1. PICK e \in docs : e.id = o.id /\ e.ver < o.ver /\ LawfulBy(e.body, o.body, now)
      BY <1>6, <2>2 DEF LineageInv, Descent
    <3>2. PICK f \in docs' : f.id = e.id /\ f.ver = e.ver /\ f.body = e.body
      BY DEF Extends
    <3>3. LawfulBy(f.body, d.body, now')
      BY <1>1, <1>6, <3>1, <3>2
    <3> QED BY <1>6, <2>2, <3>1, <3>2, <3>3
  <2> QED BY <2>1, <2>2
<1>7. \A d \in docs' :
        IF d.ver = 1 THEN \E u \in Users, req \in Requests :
                            d.body = Outcome("CREATE", NewInstruction(req, u), u)
                     ELSE \E e \in docs' : /\ e.id = d.id /\ e.ver < d.ver
                                           /\ LawfulBy(e.body, d.body, now')
  <2>1. TAKE d \in docs'
  <2>2. CASE d.id = c.id /\ d.ver = c.base + 1 /\ d.body = c.body
    BY <1>5, <2>2
  <2>3. CASE \E o \in docs : o.id = d.id /\ o.ver = d.ver /\ o.body = d.body
    BY <1>6, <2>3
  <2> QED BY <1>3, <2>2, <2>3
<1> QED BY <1>7 DEF Descent

LEMMA NextLineage == TypeInv /\ ChainInv /\ LineageInv /\ [Next]_vars => LineageInv'
<1> SUFFICES ASSUME TypeInv, ChainInv, LineageInv, [Next]_vars PROVE LineageInv'
  OBVIOUS
<1>1. CallsAreLawful'
  BY NextLawful DEF LineageInv
<1>2. /\ Extends(docs', docs)
      /\ now \in Nat /\ now' \in Nat /\ now <= now'
  BY ChangeOfOne DEF Grows
<1>3. ASSUME NEW t \in Tasks, Commit(t) PROVE OpenIsLast' /\ Descent(docs, now)'
  BY <1>2, <1>3, CommitOpen, CommitDescent DEF LineageInv
<1>4. CASE UNCHANGED docs
  <2>1. OpenIsLast'
    BY <1>4 DEF LineageInv, OpenIsLast
  <2>2. \A b, b2 : LawfulBy(b, b2, now) => LawfulBy(b, b2, now')
    BY <1>2, LawfulLater
  <2>3. Descent(docs, now)'
    BY <1>4, <2>2 DEF LineageInv, Descent
  <2> QED BY <1>1, <2>1, <2>3 DEF LineageInv
<1>5. UNCHANGED docs \/ \E t \in Tasks : Commit(t)
  BY OnlyCommits
<1> QED BY <1>1, <1>3, <1>4, <1>5 DEF LineageInv

LEMMA LineageInvariant == Spec => [](TypeInv /\ ChainInv /\ LineageInv)
<1>1. Init => TypeInv /\ ChainInv /\ LineageInv
  <2>1. Init => LineageInv
    BY DEF Init, LineageInv, CallsAreLawful, LawfulAt, Uncommitted, OpenIsLast, Descent
  <2> QED BY <2>1, InitTypeInv, InitChain
<1>2. TypeInv /\ ChainInv /\ LineageInv /\ [Next]_vars => (TypeInv /\ ChainInv /\ LineageInv)'
  BY NextTypeInv, NextChain, NextLineage
<1> QED BY <1>1, <1>2, PTL DEF Spec

\* Every stored version is a new draft or comes by one lawful step from an earlier
\* version of its instruction, however many copies were stale when they were stored.
THEOREM EveryVersionDescends == Spec => []LawfulDescent
<1>1. TypeInv /\ ChainInv /\ LineageInv => LawfulDescent
  BY DescentNow DEF LineageInv
<1> QED BY <1>1, LineageInvariant, PTL

-----------------------------------------------------------------------------
(* What the history of a lawful version tells of its status.               *)

\* A suspended version was suspended last, by the user it names.
SuspensionIsLast(b) ==
  b.status = "SUSPENDED" => LastEntry(b) = [act |-> "SUSPEND", user |-> b.suspendedBy]

DualControl(b) ==
  \A k \in DOMAIN b.trail :
    b.trail[k].act = "REACTIVATE" =>
      /\ k > 1
      /\ b.trail[k - 1].act = "SUSPEND"
      /\ b.trail[k - 1].user # b.trail[k].user

SoundHistory(b) == Provenance(b) /\ DualControl(b) /\ SuspensionIsLast(b)

HistoriesAreSound == \A d \in docs : SoundHistory(d.body)

LEMMA OutcomeFields ==
  ASSUME NEW b \in Body, NEW act \in Actions, NEW user \in Users
  PROVE  LET o == Outcome(act, b, user)
             e == Effect(act, b, user)
         IN  /\ o.type = e.type /\ o.status = e.status /\ o.usage = e.usage
             /\ o.createdBy = e.createdBy /\ o.approvedBy = e.approvedBy
             /\ o.rejectedBy = e.rejectedBy /\ o.suspendedBy = e.suspendedBy
<1>1. Effect(act, b, user) \in Body
  BY EffectType
<1> QED BY <1>1 DEF Outcome, Body

\* The copy put to the policy has the history of the version, and the status too unless it
\* is to be deleted.
LEMMA CopyFields ==
  ASSUME NEW b \in Body, NEW act \in Actions, NEW copy \in Copies(act, b)
  PROVE  /\ copy \in Body
         /\ copy.trail = b.trail /\ copy.createdBy = b.createdBy
         /\ copy.approvedBy = b.approvedBy /\ copy.rejectedBy = b.rejectedBy
         /\ copy.suspendedBy = b.suspendedBy
         /\ act # "UPDATE" => copy.type = b.type
         /\ copy.status = IF act = "DELETE" THEN "DELETED" ELSE b.status
         /\ copy.usage = IF act = "USE" THEN b.usage + 1 ELSE b.usage
<1>1. CASE act = "UPDATE"
  <2>1. PICK req \in Requests : copy = Revised(b, req)
    BY <1>1 DEF Copies
  <2> QED BY <1>1, <2>1, RevisedType DEF Revised, Body
<1>2. CASE act = "DELETE"
  BY <1>2, PresentedType DEF Copies, Presented, Body
<1>3. CASE act = "USE"
  BY <1>3, PresentedType DEF Copies, Presented, Body
<1>4. CASE act \notin {"UPDATE", "DELETE", "USE"}
  BY <1>4 DEF Copies, Presented
<1> QED BY <1>1, <1>2, <1>3, <1>4

LEMMA DraftSound ==
  ASSUME NEW user \in Users, NEW req \in Requests
  PROVE  SoundHistory(Outcome("CREATE", NewInstruction(req, user), user))
<1> DEFINE n == NewInstruction(req, user)
           o == Outcome("CREATE", n, user)
<1>1. /\ n \in Body /\ n.trail = <<>> /\ n.createdBy = user /\ n.status = "DRAFT"
      /\ n.approvedBy = NoUser /\ n.rejectedBy = NoUser /\ n.suspendedBy = NoUser
  BY NewInstructionType DEF NewInstruction
<1>2. "CREATE" \in Actions
  BY DEF Actions
<1> HIDE DEF n
<1>3. Effect("CREATE", n, user) = n
  BY DEF Effect
<1>4. /\ o.trail = Append(n.trail, [act |-> "CREATE", user |-> user])
      /\ o.createdBy = user /\ o.status = "DRAFT"
      /\ o.approvedBy = NoUser /\ o.rejectedBy = NoUser /\ o.suspendedBy = NoUser
  BY <1>1, <1>2, <1>3, OutcomeTrail, OutcomeFields
<1> HIDE DEF o
<1>5. o.trail = <<[act |-> "CREATE", user |-> user]>>
  BY <1>1, <1>4
<1>6. Provenance(o)
  BY <1>4, <1>5 DEF Provenance, Approved
<1>7. DualControl(o) /\ SuspensionIsLast(o)
  BY <1>4, <1>5 DEF DualControl, SuspensionIsLast
<1> USE DEF o, n
<1> QED BY <1>6, <1>7 DEF SoundHistory

\* A lawful entry on top of a sound history.
LEMMA TrailSound ==
  ASSUME NEW b \in Body, NEW copy \in Body, copy.trail = b.trail,
         NEW act \in Actions, NEW user \in Users, b.trail # <<>>, DualControl(b),
         act = "REACTIVATE" => LastEntry(b).act = "SUSPEND" /\ LastEntry(b).user # user
  PROVE  DualControl(Outcome(act, copy, user))
<1> DEFINE o == Outcome(act, copy, user)
           m == Len(b.trail)
<1>1. /\ o.trail = Append(b.trail, [act |-> act, user |-> user])
      /\ b.trail \in Seq(LifecycleEvent)
  BY OutcomeTrail DEF Body
<1> HIDE DEF o
<1>2. /\ m \in Nat /\ m > 0 /\ DOMAIN o.trail = 1..(m + 1) /\ DOMAIN b.trail = 1..m
      /\ o.trail[m + 1] = [act |-> act, user |-> user]
      /\ \A k \in 1..m : o.trail[k] = b.trail[k]
      /\ LastEntry(b) = b.trail[m]
  <2>1. [act |-> act, user |-> user] \in LifecycleEvent
    BY DEF LifecycleEvent
  <2> QED BY <1>1, <2>1 DEF LastEntry
<1> HIDE DEF m
<1>3. ASSUME NEW k \in DOMAIN o.trail, o.trail[k].act = "REACTIVATE"
      PROVE  /\ k > 1 /\ o.trail[k - 1].act = "SUSPEND"
             /\ o.trail[k - 1].user # o.trail[k].user
  <2>1. CASE k = m + 1
    <3>1. o.trail[k - 1] = LastEntry(b) /\ k > 1
      BY <1>2, <2>1
    <3>2. act = "REACTIVATE" /\ o.trail[k].user = user
      BY <1>2, <1>3, <2>1
    <3> QED BY <3>1, <3>2
  <2>2. CASE k # m + 1
    <3>1. k \in 1..m /\ b.trail[k].act = "REACTIVATE"
      BY <1>2, <1>3, <2>2
    <3>2. /\ k > 1 /\ b.trail[k - 1].act = "SUSPEND"
          /\ b.trail[k - 1].user # b.trail[k].user
      BY <1>2, <3>1 DEF DualControl
    <3> QED BY <1>2, <3>1, <3>2
  <2> QED BY <2>1, <2>2
<1> USE DEF o
<1> QED BY <1>3 DEF DualControl

LEMMA LawfulKeepsSound ==
  ASSUME NEW b \in Body, NEW b2, NEW n, SoundHistory(b), LawfulBy(b, b2, n)
  PROVE  SoundHistory(b2)
<1>a. PICK act \in Actions \ {"CREATE", "VIEW"}, user \in Users :
        /\ b.status \in OpenTo(act)
        /\ \E copy \in Copies(act, b) :
             /\ b2 = Outcome(act, copy, user)
             /\ \E p \in Principals(act, user), time \in 0..n :
                  Allowed(act, p, DelegatedRoles, copy, time)
  BY DEF LawfulBy
<1>b. PICK copy \in Copies(act, b) :
        /\ b2 = Outcome(act, copy, user)
        /\ \E p \in Principals(act, user), time \in 0..n :
             Allowed(act, p, DelegatedRoles, copy, time)
  BY <1>a
<1>1. PICK p \in Principals(act, user), time \in 0..n :
        /\ b.status \in OpenTo(act) /\ b2 = Outcome(act, copy, user)
        /\ Allowed(act, p, DelegatedRoles, copy, time)
  BY <1>a, <1>b
<1> DEFINE e == Effect(act, copy, user)
<1>2. /\ copy \in Body
      /\ copy.trail = b.trail /\ copy.createdBy = b.createdBy
      /\ copy.approvedBy = b.approvedBy /\ copy.rejectedBy = b.rejectedBy
      /\ copy.suspendedBy = b.suspendedBy
      /\ act # "UPDATE" => copy.type = b.type
      /\ copy.status = IF act = "DELETE" THEN "DELETED" ELSE b.status
      /\ copy.usage = IF act = "USE" THEN b.usage + 1 ELSE b.usage
  BY CopyFields
<1>3. /\ b2.trail # <<>> /\ LastEntry(b2) = [act |-> act, user |-> user]
      /\ Len(b2.trail) = Len(b.trail) + 1
      /\ \A k \in 1..Len(b.trail) : b2.trail[k] = b.trail[k]
  <2>1. /\ b2.trail # <<>> /\ LastEntry(b2) = [act |-> act, user |-> user]
        /\ Len(b2.trail) = Len(copy.trail) + 1
        /\ \A k \in 1..Len(copy.trail) : b2.trail[k] = copy.trail[k]
    <3>1. act \in Actions /\ copy \in Body /\ b2 = Outcome(act, copy, user)
      BY <1>1, <1>2
    <3> QED BY ONLY <3>1, OutcomeTrail, user \in Users
  <2> QED BY <1>2, <2>1
<1>4. /\ b2.type = e.type /\ b2.status = e.status /\ b2.usage = e.usage
      /\ b2.createdBy = e.createdBy /\ b2.approvedBy = e.approvedBy
      /\ b2.rejectedBy = e.rejectedBy /\ b2.suspendedBy = e.suspendedBy
  BY <1>1, <1>2, OutcomeFields
<1>5. Provenance(b) /\ DualControl(b) /\ SuspensionIsLast(b) /\ b.usage \in Nat
      /\ b.type \in Types /\ user # NoUser
  BY DirectoryAssumption DEF SoundHistory, Body
<1>6. b.trail # <<>> /\ b2.trail[1] = [act |-> "CREATE", user |-> b.createdBy]
  <2>1. b.trail # <<>> /\ b.trail \in Seq(LifecycleEvent)
    BY <1>5 DEF Provenance, Body
  <2>2. 1 \in 1..Len(b.trail)
    BY <2>1
  <2> QED BY <1>3, <1>5, <2>1, <2>2 DEF Provenance
<1>7. act = "REACTIVATE" => LastEntry(b).act = "SUSPEND" /\ LastEntry(b).user # user
  <2> SUFFICES ASSUME act = "REACTIVATE"
               PROVE  LastEntry(b).act = "SUSPEND" /\ LastEntry(b).user # user
    OBVIOUS
  <2>1. p = user /\ b.status = "SUSPENDED"
    BY <1>1 DEF Principals, OpenTo
  <2>2. user # b.suspendedBy
    BY <1>1, <1>2, <2>1 DEF Allowed, AllowReactivate
  <2> QED BY <1>5, <2>1, <2>2 DEF SuspensionIsLast
<1>8. DualControl(b2)
  BY <1>1, <1>2, <1>5, <1>6, <1>7, TrailSound
<1>9. Provenance(b2) /\ SuspensionIsLast(b2)
  <2> HIDE DEF e
  <2> USE DEF Provenance, SuspensionIsLast, OpenTo, Approved, Types
  <2>1. CASE act = "UPDATE"
    <3>1. e = copy
      BY <2>1 DEF Effect, e
    <3> QED BY <1>1, <1>2, <1>3, <1>4, <1>5, <1>6, <2>1, <3>1
  <2>2. CASE act = "DELETE"
    <3>1. e = copy
      BY <2>2 DEF Effect, e
    <3> QED BY <1>1, <1>2, <1>3, <1>4, <1>5, <1>6, <2>2, <3>1
  <2>3. CASE act = "SUBMIT"
    <3>1. e = Submitted(copy)
      BY <2>3 DEF Effect, e
    <3>2. e = [copy EXCEPT !.status = "PENDING"]
      BY <3>1 DEF Submitted
    <3>3. /\ e.status = "PENDING" /\ e.type = copy.type /\ e.createdBy = copy.createdBy
          /\ e.approvedBy = copy.approvedBy /\ e.rejectedBy = copy.rejectedBy
          /\ e.suspendedBy = copy.suspendedBy
      BY <1>2, <3>2 DEF Body
    <3> QED BY <1>1, <1>2, <1>3, <1>4, <1>5, <1>6, <2>3, <3>3
  <2>4. CASE act = "APPROVE"
    <3>1. e = ApprovedBy(copy, user)
      BY <2>4 DEF Effect, e
    <3>2. /\ e.status = copy.type /\ e.type = copy.type /\ e.createdBy = copy.createdBy
          /\ e.approvedBy = user /\ e.rejectedBy = copy.rejectedBy
          /\ e.suspendedBy = copy.suspendedBy
      BY <1>2, <3>1 DEF ApprovedBy, Body
    <3> QED BY <1>1, <1>2, <1>3, <1>4, <1>5, <1>6, <2>4, <3>2
  <2>5. CASE act = "REJECT"
    <3>1. e = RejectedBy(copy, user)
      BY <2>5 DEF Effect, e
    <3>2. /\ e.status = "REJECTED" /\ e.type = copy.type /\ e.createdBy = copy.createdBy
          /\ e.approvedBy = copy.approvedBy /\ e.rejectedBy = user
          /\ e.suspendedBy = copy.suspendedBy
      BY <1>2, <3>1 DEF RejectedBy, Body
    <3> QED BY <1>1, <1>2, <1>3, <1>4, <1>5, <1>6, <2>5, <3>2
  <2>6. CASE act = "SUSPEND"
    <3>1. e = SuspendedBy(copy, user)
      BY <2>6 DEF Effect, e
    <3>2. /\ e.status = "SUSPENDED" /\ e.type = copy.type /\ e.createdBy = copy.createdBy
          /\ e.approvedBy = copy.approvedBy /\ e.rejectedBy = copy.rejectedBy
          /\ e.suspendedBy = user
      BY <1>2, <3>1 DEF SuspendedBy, Body
    <3> QED BY <1>1, <1>2, <1>3, <1>4, <1>5, <1>6, <2>6, <3>2
  <2>7. CASE act = "REACTIVATE"
    <3>1. e = Reactivated(copy)
      BY <2>7 DEF Effect, e
    <3>2. /\ e.status = copy.type /\ e.type = copy.type /\ e.createdBy = copy.createdBy
          /\ e.approvedBy = copy.approvedBy /\ e.rejectedBy = copy.rejectedBy
          /\ e.suspendedBy = NoUser
      BY <1>2, <3>1 DEF Reactivated, Body
    <3> QED BY <1>1, <1>2, <1>3, <1>4, <1>5, <1>6, <2>7, <3>2
  <2>8. CASE act = "USE"
    <3>1. e = UsedUp(copy)
      BY <2>8 DEF Effect, e
    <3>2. /\ e.type = copy.type /\ e.createdBy = copy.createdBy /\ e.usage = copy.usage
          /\ e.approvedBy = copy.approvedBy /\ e.rejectedBy = copy.rejectedBy
          /\ e.suspendedBy = copy.suspendedBy
          /\ e.status = IF copy.type = "SINGLE_USE" THEN "USED" ELSE copy.status
      BY <1>2, <3>1 DEF UsedUp, Body
    <3> QED BY <1>1, <1>2, <1>3, <1>4, <1>5, <1>6, <2>8, <3>2
  <2> QED BY <2>1, <2>2, <2>3, <2>4, <2>5, <2>6, <2>7, <2>8 DEF Actions
<1> QED BY <1>8, <1>9 DEF SoundHistory

LEMMA CommitSound ==
  ASSUME TypeInv, LineageInv, HistoriesAreSound, NEW t \in Tasks, Commit(t)
  PROVE  HistoriesAreSound'
<1> DEFINE c == call[t]
<1>1. /\ c \in Call /\ LawfulOutcome(c, docs, now)
      /\ docs' = (docs \ Closed(c))
                    \cup {[d EXCEPT !.out = TRUE] : d \in Closed(c)}
                    \cup {[id |-> c.id, ver |-> c.base + 1, out |-> FALSE, body |-> c.body]}
  BY DEF Commit, TypeInv, TypeOK, LineageInv, CallsAreLawful, LawfulAt, Uncommitted
<1>2. \A d \in docs : d \in Doc /\ d.body \in Body
  BY DEF TypeInv, TypeOK, Doc
<1>3. ASSUME NEW d \in docs'
      PROVE  d.body = c.body \/ \E o \in docs : d.body = o.body
  BY <1>1, <1>2 DEF Closed, Doc
<1>4. c.subject \in Users
  BY <1>1 DEF Call
<1> HIDE DEF c
<1>5. SoundHistory(c.body)
  <2>1. CASE c.act = "CREATE"
    <3>1. PICK req \in Requests :
                 c.body = Outcome("CREATE", NewInstruction(req, c.subject), c.subject)
      BY <1>1, <2>1 DEF LawfulOutcome
    <3> QED BY <1>4, <3>1, DraftSound
  <2>2. CASE c.act # "CREATE"
    <3>1. PICK e \in docs : LawfulBy(e.body, c.body, now)
      BY <1>1, <2>2 DEF LawfulOutcome
    <3>2. e.body \in Body /\ SoundHistory(e.body)
      BY <1>2 DEF HistoriesAreSound
    <3> QED BY <3>1, <3>2, LawfulKeepsSound
  <2> QED BY <2>1, <2>2
<1>6. \A d \in docs' : SoundHistory(d.body)
  <2>1. TAKE d \in docs'
  <2> QED BY <1>3, <1>5 DEF HistoriesAreSound
<1> QED BY <1>6 DEF HistoriesAreSound

LEMMA HistoryInvariant == Spec => []HistoriesAreSound
<1>1. Init => HistoriesAreSound
  BY DEF Init, HistoriesAreSound
<1>2. TypeInv /\ LineageInv /\ HistoriesAreSound /\ [Next]_vars => HistoriesAreSound'
  <2> SUFFICES ASSUME TypeInv, LineageInv, HistoriesAreSound, [Next]_vars
               PROVE  HistoriesAreSound'
    OBVIOUS
  <2>1. CASE UNCHANGED docs
    BY <2>1 DEF HistoriesAreSound
  <2> QED BY <2>1, OnlyCommits, CommitSound
<1>3. TypeInv /\ ChainInv /\ LineageInv => TypeInv /\ LineageInv
  OBVIOUS
<1> QED BY <1>1, <1>2, <1>3, LineageInvariant, PTL DEF Spec

\* Who created, approved, rejected or suspended a stored version agrees with its status
\* and its lifecycle_events, also when it was stored from a stale copy.
THEOREM StatusHasProvenance == Spec => []ProvenanceMatchesStatus
<1>1. HistoriesAreSound => ProvenanceMatchesStatus
  BY DEF HistoriesAreSound, SoundHistory, ProvenanceMatchesStatus
<1> QED BY <1>1, HistoryInvariant, PTL

\* No history shows a reactivation by the person who suspended the instruction, or one
\* that did not come right after a suspension.
THEOREM ReactivationNeedsTwo == Spec => []DualControlOfSuspension
<1>1. HistoriesAreSound => DualControlOfSuspension
  BY DEF HistoriesAreSound, SoundHistory, DualControl, DualControlOfSuspension
<1> QED BY <1>1, HistoryInvariant, PTL

-----------------------------------------------------------------------------
(* What the calls leave in the log and on Kafka.                           *)

\* A version with the content a committed call has stored.
StoredBy(c, d) == d.id = c.id /\ d.ver = c.base + 1 /\ d.body = c.body

\* A call c in phase p may still publish the fact of its version.
Publishes(p, c) == p = "pubfact" \/ (p = "pubevent" /\ IsMutation(c))

\* What holds of a call c in phase p, of the versions D and the events E.
LoggedAt(p, c, D, E) ==
  /\ p \in {"audit", "insert"} =>
       c.denied = TRUE \/ (c.act = "VIEW" /\ c.denied = FALSE /\ \E d \in D : IsRead(c, d))
  /\ p = "pubevent" => SecurityEvent(c) \in E
  /\ Publishes(p, c) => \E d \in D : StoredBy(c, d)

CallsAreLogged == \A t \in Tasks : LoggedAt(pc[t], call[t], docs, events)

IsPublished(c) ==
  \E k \in DOMAIN factTopic : factTopic[k].id = c.id /\ factTopic[k].ver = c.base + 1

\* No version is published by two calls, or by one after it has been published.
PublishedOnce ==
  \A t \in Tasks : Publishes(pc[t], call[t]) =>
    /\ ~IsPublished(call[t])
    /\ \A u \in Tasks \ {t} : Publishes(pc[u], call[u]) =>
         ~(call[u].id = call[t].id /\ call[u].base = call[t].base)

LogInv == CallsAreLogged /\ AuditComplete /\ PublishedOnce /\ PublishedIsCommitted

LEMMA StillLogged ==
  ASSUME NEW D, NEW D2, Extends(D2, D), NEW E, NEW E2, E \subseteq E2,
         NEW p, NEW c, LoggedAt(p, c, D, E)
  PROVE  LoggedAt(p, c, D2, E2)
BY DEF LoggedAt, Extends, IsRead, StoredBy

\* In these phases nothing has been logged yet.
LEMMA UnloggedYet ==
  ASSUME NEW p \in {"idle", "authorize", "txread", "txwrite", "txevent", "commit"},
         NEW c, NEW D, NEW E
  PROVE  LoggedAt(p, c, D, E) /\ ~Publishes(p, c)
BY DEF LoggedAt, Publishes

\* Only a commit and a single event are written.
LEMMA OnlyStores ==
  [Next]_vars => UNCHANGED storage \/ \E t \in Tasks : Commit(t) \/ InsertEvent(t)
<1>1. ASSUME NEW t \in Tasks, BeginAny(t) PROVE UNCHANGED storage
  BY <1>1 DEF BeginAny, BeginCreate, BeginUpdate, Begin, BeginOn
<1>2. ASSUME NEW t \in Tasks, Step(t) PROVE UNCHANGED storage \/ Commit(t) \/ InsertEvent(t)
  BY <1>2 DEF Step, AuthorizeMutation, AuthorizeView, Deny, TxRead, TxWrite,
              TxConflict, AllocateEvent, PublishEvent, PublishFact
<1> QED BY <1>1, <1>2 DEF Next, Interrupt, Tick, vars

\* What is true when a call commits.
LEMMA CommitFacts ==
  ASSUME TypeInv, ChainInv, LineageInv, NEW t \in Tasks, Commit(t)
  PROVE  LET c   == call[t]
             new == [id |-> c.id, ver |-> c.base + 1, out |-> FALSE, body |-> c.body]
         IN  /\ c \in Call /\ c.act # "VIEW" /\ c.denied = FALSE
             /\ LastEntry(c.body) = [act |-> c.act, user |-> c.subject]
             /\ \A d \in docs : ~(d.id = c.id /\ d.ver = c.base + 1)
             /\ new \in docs'
             /\ \A d \in docs' : \/ d = new
                               \/ \E o \in docs : /\ o.id = d.id /\ o.ver = d.ver
                                                  /\ o.body = d.body
             /\ SecurityEvent(c) = [res |-> c.id, n |-> c.evt, act |-> c.act,
                                    user |-> c.subject, outcome |-> "success",
                                    ver |-> c.base + 1]
<1> DEFINE c   == call[t]
           new == [id |-> c.id, ver |-> c.base + 1, out |-> FALSE, body |-> c.body]
<1>1. /\ pc[t] = "commit" /\ c \in Call /\ LawfulOutcome(c, docs, now)
      /\ docs' = (docs \ Closed(c)) \cup {[d EXCEPT !.out = TRUE] : d \in Closed(c)}
                    \cup {new}
  BY DEF Commit, TypeInv, TypeOK, LineageInv, CallsAreLawful, LawfulAt, Uncommitted
<1>2. /\ c.act # "VIEW" /\ c.denied = FALSE
      /\ LastEntry(c.body) = [act |-> c.act, user |-> c.subject]
  BY <1>1 DEF LawfulOutcome, Call
<1>3. \A d \in docs : ~(d.id = c.id /\ d.ver = c.base + 1)
  BY <1>1 DEF ChainInv, TransactionsExclusive, InTransaction
<1>4. \A d \in docs' : d = new \/ \E o \in docs : o.id = d.id /\ o.ver = d.ver /\ o.body = d.body
  <2>1. \A d \in docs : d \in Doc
    BY DEF TypeInv, TypeOK
  <2> HIDE DEF new, c
  <2> QED BY <1>1, <2>1 DEF Closed, Doc
<1>5. new \in docs'
  BY <1>1
<1>6. SecurityEvent(c) = [res |-> c.id, n |-> c.evt, act |-> c.act, user |-> c.subject,
                          outcome |-> "success", ver |-> c.base + 1]
  BY <1>2 DEF SecurityEvent
<1> QED BY <1>1, <1>2, <1>3, <1>4, <1>5, <1>6

\* An event tells of a version whatever its closing time.
LEMMA TellsSame ==
  ASSUME NEW d, NEW o, o.id = d.id, o.ver = d.ver, o.body = d.body, NEW e
  PROVE  Tells(e, d) <=> Tells(e, o)
BY DEF Tells, LastEntry

LEMMA CommitAudit ==
  ASSUME TypeInv, ChainInv, LineageInv, AuditComplete, NEW t \in Tasks, Commit(t)
  PROVE  AuditComplete'
<1> DEFINE c   == call[t]
           new == [id |-> c.id, ver |-> c.base + 1, out |-> FALSE, body |-> c.body]
           ev  == SecurityEvent(c)
<1>1. /\ c \in Call /\ c.act # "VIEW"
      /\ LastEntry(c.body) = [act |-> c.act, user |-> c.subject]
      /\ \A d \in docs : ~(d.id = c.id /\ d.ver = c.base + 1)
      /\ new \in docs'
      /\ \A d \in docs' : d = new \/ \E o \in docs : o.id = d.id /\ o.ver = d.ver /\ o.body = d.body
      /\ ev = [res |-> c.id, n |-> c.evt, act |-> c.act, user |-> c.subject,
               outcome |-> "success", ver |-> c.base + 1]
  BY CommitFacts
<1>2. Extends(docs', docs)
  BY ChangeOfOne DEF Grows, Next, Step
<1>3. events' = IF IsRecorded(c.subject) THEN events \cup {ev} ELSE events
  BY DEF Commit
<1>4. /\ new.id = c.id /\ new.ver = c.base + 1 /\ new.body = c.body
      /\ ev.res = c.id /\ ev.ver = c.base + 1 /\ ev.act = c.act /\ ev.user = c.subject
      /\ ev.outcome = "success"
  BY <1>1
<1>5. LastEntry(new.body) = [act |-> c.act, user |-> c.subject]
  BY <1>1, <1>4
<1> HIDE DEF c, new, ev
<1>6. Tells(ev, new)
  BY <1>1, <1>4, <1>5 DEF Tells
<1>7. \A d \in docs : ~Tells(ev, d)
  BY <1>1, <1>4 DEF Tells
<1>8. \A f \in events : ~Tells(f, new)
  <2>1. SUFFICES ASSUME NEW f \in events, Tells(f, new) PROVE FALSE
    OBVIOUS
  <2>2. f.outcome = "success" /\ f.res = c.id /\ f.ver = c.base + 1
    BY <1>4, <2>1 DEF Tells
  <2>3. PICK d \in docs : f.res = d.id /\ f.ver = d.ver
    BY <2>2 DEF AuditComplete
  <2> QED BY <1>1, <2>2, <2>3
<1>9. ASSUME NEW d \in docs', IsRecorded(LastEntry(d.body).user)
      PROVE  \E e \in events' : Tells(e, d) /\ \A f \in events' : Tells(f, d) => f = e
  <2>1. CASE d = new
    <3>1. IsRecorded(c.subject)
      BY <1>5, <1>9, <2>1
    <3> QED BY <1>3, <1>6, <1>8, <2>1, <3>1
  <2>2. CASE d # new
    <3>1. PICK o \in docs : o.id = d.id /\ o.ver = d.ver /\ o.body = d.body
      BY <1>1, <2>2
    <3>2. IsRecorded(LastEntry(o.body).user)
      BY <1>9, <3>1
    <3>3. PICK e \in events : Tells(e, o) /\ \A f \in events : Tells(f, o) => f = e
      BY <3>2 DEF AuditComplete
    <3>4. \A f : Tells(f, d) <=> Tells(f, o)
      BY <3>1, TellsSame
    <3> QED BY <1>3, <1>7, <3>3, <3>4
  <2> QED BY <2>1, <2>2
<1>10. ASSUME NEW e \in events', e.outcome = "success"
       PROVE  \E d \in docs' : e.res = d.id /\ e.ver = d.ver /\ (e.act # "VIEW" => Tells(e, d))
  <2>1. CASE e = ev
    BY <1>1, <1>4, <1>6, <2>1
  <2>2. CASE e \in events
    <3>1. PICK o \in docs : /\ e.res = o.id /\ e.ver = o.ver
                            /\ e.act # "VIEW" => Tells(e, o)
      BY <1>10, <2>2 DEF AuditComplete
    <3>2. PICK d \in docs' : d.id = o.id /\ d.ver = o.ver /\ d.body = o.body
      BY <1>2 DEF Extends
    <3>3. Tells(e, d) <=> Tells(e, o)
      BY <3>2, TellsSame
    <3> QED BY <3>1, <3>2, <3>3
  <2> QED BY <1>3, <2>1, <2>2
<1> QED BY <1>9, <1>10 DEF AuditComplete

LEMMA InsertAudit ==
  ASSUME TypeInv, CallsAreLogged, AuditComplete, NEW t \in Tasks, InsertEvent(t)
  PROVE  AuditComplete'
<1> DEFINE c  == call[t]
           ev == SecurityEvent(c)
<1>1. /\ docs' = docs /\ events' = events \cup {ev}
      /\ \/ c.denied = TRUE
         \/ c.act = "VIEW" /\ c.denied = FALSE /\ \E d \in docs : IsRead(c, d)
  BY DEF InsertEvent, CallsAreLogged, LoggedAt
<1>2. \/ ev.outcome = "failure"
      \/ /\ ev.act = "VIEW" /\ ev.res = c.id /\ ev.ver = c.seen
         /\ \E d \in docs : IsRead(c, d)
  BY <1>1 DEF SecurityEvent
<1> HIDE DEF ev, c
<1>3. \A d : ~Tells(ev, d)
  BY <1>2 DEF Tells
<1>4. ASSUME NEW d \in docs', IsRecorded(LastEntry(d.body).user)
      PROVE  \E e \in events' : Tells(e, d) /\ \A f \in events' : Tells(f, d) => f = e
  BY <1>1, <1>3, <1>4 DEF AuditComplete
<1>5. ASSUME NEW e \in events', e.outcome = "success"
      PROVE  \E d \in docs' : e.res = d.id /\ e.ver = d.ver /\ (e.act # "VIEW" => Tells(e, d))
  <2>1. CASE e = ev
    BY <1>1, <1>2, <1>5, <2>1 DEF IsRead
  <2>2. CASE e \in events
    BY <1>1, <1>5, <2>2 DEF AuditComplete
  <2> QED BY <1>1, <2>1, <2>2
<1> QED BY <1>4, <1>5 DEF AuditComplete

LEMMA StepLogged ==
  ASSUME TypeInv, ChainInv, LineageInv, LogInv, NEW t \in Tasks, Step(t),
         Extends(docs', docs), events \subseteq events'
  PROVE  LoggedAt(pc[t], call[t], docs, events)'
<1>f. /\ pc \in [Tasks -> Phases] /\ DOMAIN call = Tasks
      /\ (pc[t] # "idle" => call[t] \in Call)
      /\ LoggedAt(pc[t], call[t], docs, events)
  BY DEF TypeInv, TypeOK, LogInv, CallsAreLogged
<1> DEFINE Early == {"idle", "authorize", "txread", "txwrite", "txevent", "commit"}
<1>e. pc'[t] \in Early => LoggedAt(pc[t], call[t], docs, events)'
  BY UnloggedYet
<1>1. CASE AuthorizeMutation(t) \/ TxRead(t) \/ TxWrite(t) \/ TxConflict(t) \/ PublishFact(t)
  <2>1. pc'[t] \in Early
    BY <1>1, <1>f DEF AuthorizeMutation, TxRead, TxWrite, TxConflict, PublishFact, Goto, Finish
  <2> QED BY <2>1, <1>e
<1>2. CASE AuthorizeView(t)
  <2>1. CASE IsRecorded(call[t].subject)
    <3>1. /\ pc[t] = "authorize" /\ call[t].act = "VIEW"
          /\ pc'[t] = "audit" /\ call' = call /\ docs' = docs
      BY <1>2, <1>f, <2>1 DEF AuthorizeView, Goto, storage
    <3>2. FaithfulCopy(call[t], docs) /\ call[t] \in Call
      BY <1>f, <3>1 DEF LineageInv, CallsAreLawful, LawfulAt
    <3>3. call[t].denied = FALSE /\ \E d \in docs : IsRead(call[t], d)
      BY <3>1, <3>2 DEF FaithfulCopy, Call
    <3> QED BY <3>1, <3>3 DEF LoggedAt, Publishes
  <2>2. CASE ~IsRecorded(call[t].subject)
    BY <1>2, <1>e, <1>f, <2>2 DEF AuthorizeView, Finish
  <2> QED BY <2>1, <2>2
<1>3. CASE Deny(t)
  <2>1. CASE IsRecorded(call[t].subject)
    <3>1. /\ pc[t] = "authorize" /\ pc'[t] = "audit"
          /\ call'[t] = [call[t] EXCEPT !.denied = TRUE]
      BY <1>3, <1>f, <2>1 DEF Deny, Goto
    <3>2. call'[t].denied = TRUE
      BY <1>f, <3>1 DEF Call
    <3> QED BY <3>1, <3>2 DEF LoggedAt, Publishes
  <2>2. CASE ~IsRecorded(call[t].subject)
    BY <1>3, <1>e, <1>f, <2>2 DEF Deny, Finish
  <2> QED BY <2>1, <2>2
<1>4. CASE AllocateEvent(t)
  <2>1. CASE pc[t] = "txevent"
    BY <1>4, <1>e, <1>f, <2>1 DEF AllocateEvent, Goto
  <2>2. CASE pc[t] = "audit"
    <3> DEFINE c == call[t]
               k == NextEventNumber(c.id)
               n == [c EXCEPT !.evt = k]
    <3>1. c \in Call /\ call'[t] = n /\ pc'[t] = "insert" /\ docs' = docs
      BY <1>4, <1>f, <2>2 DEF AllocateEvent, Goto, storage
    <3>2. n.act = c.act /\ n.denied = c.denied /\ n.id = c.id /\ n.seen = c.seen
      BY <3>1 DEF Call
    <3> HIDE DEF n
    <3> QED BY <1>f, <2>2, <3>1, <3>2 DEF LoggedAt, Publishes, IsRead
  <2> QED BY <1>4, <2>1, <2>2 DEF AllocateEvent
<1>5. CASE Commit(t)
  <2>1. CASE IsRecorded(call[t].subject)
    <3> DEFINE c   == call[t]
               new == [id |-> c.id, ver |-> c.base + 1, out |-> FALSE, body |-> c.body]
    <3>1. /\ pc'[t] = "pubevent" /\ call' = call /\ events' = events \cup {SecurityEvent(c)}
          /\ new \in docs'
      BY <1>5, <1>f, <2>1 DEF Commit, Goto
    <3>2. StoredBy(c, new)
      BY DEF StoredBy
    <3> HIDE DEF new
    <3> QED BY <3>1, <3>2 DEF LoggedAt, Publishes
  <2>2. CASE ~IsRecorded(call[t].subject)
    BY <1>5, <1>e, <1>f, <2>2 DEF Commit, Finish
  <2> QED BY <2>1, <2>2
<1>6. CASE InsertEvent(t)
  <2>1. /\ pc[t] = "insert" /\ pc'[t] = "pubevent" /\ call' = call
        /\ SecurityEvent(call[t]) \in events'
    BY <1>6, <1>f DEF InsertEvent, Goto
  <2>2. ~IsMutation(call[t])
    BY <1>f, <2>1 DEF LoggedAt, IsMutation
  <2> QED BY <2>1, <2>2 DEF LoggedAt, Publishes, IsMutation
<1>7. CASE PublishEvent(t)
  <2>1. CASE IsMutation(call[t])
    BY <1>7, <1>f, <2>1 DEF PublishEvent, Goto, storage, LoggedAt, Publishes
  <2>2. CASE ~IsMutation(call[t])
    BY <1>7, <1>e, <1>f, <2>2 DEF PublishEvent, Finish
  <2> QED BY <2>1, <2>2
<1> QED BY <1>1, <1>2, <1>3, <1>4, <1>5, <1>6, <1>7 DEF Step

-----------------------------------------------------------------------------
(* No version is published twice.                                          *)

\* A step that publishes no fact, and after which no task but t may publish that did not
\* before, and t no version but its own.
LEMMA QuietPublish ==
  ASSUME PublishedOnce, NEW t \in Tasks, UNCHANGED factTopic, \A u \in Tasks \ {t} : Kept(u),
         Publishes(pc[t], call[t])' =>
           /\ Publishes(pc[t], call[t])
           /\ call'[t].id = call[t].id /\ call'[t].base = call[t].base
  PROVE  PublishedOnce'
<1>1. ASSUME NEW u \in Tasks, Publishes(pc[u], call[u])'
      PROVE  /\ Publishes(pc[u], call[u])
             /\ call'[u].id = call[u].id /\ call'[u].base = call[u].base
  BY <1>1 DEF Kept, Publishes
<1>2. ASSUME NEW u \in Tasks, Publishes(pc[u], call[u])' PROVE ~IsPublished(call[u])'
  BY <1>1, <1>2 DEF PublishedOnce, IsPublished
<1>3. ASSUME NEW u \in Tasks, Publishes(pc[u], call[u])',
             NEW v \in Tasks \ {u}, Publishes(pc[v], call[v])'
      PROVE  ~(call'[v].id = call'[u].id /\ call'[v].base = call'[u].base)
  BY <1>1, <1>3 DEF PublishedOnce
<1> QED BY <1>2, <1>3 DEF PublishedOnce

LEMMA CommitPublish ==
  ASSUME TypeInv, ChainInv, LineageInv, LogInv, NEW t \in Tasks, Commit(t),
         \A u \in Tasks \ {t} : Kept(u)
  PROVE  PublishedOnce'
<1> DEFINE c == call[t]
<1>1. /\ \A d \in docs : ~(d.id = c.id /\ d.ver = c.base + 1)
      /\ c \in Call /\ UNCHANGED factTopic
  BY CommitFacts DEF Commit, topics
<1>2. CASE ~IsRecorded(c.subject)
  <2>1. ~Publishes(pc[t], call[t])'
    BY <1>2, UnloggedYet DEF Commit, Finish, TypeInv, TypeOK
  <2> QED BY <1>1, <2>1, QuietPublish DEF LogInv
<1>3. CASE IsRecorded(c.subject)
  <2>1. call' = call
    BY <1>3 DEF Commit
  <2> HIDE DEF c
  <2>2. ~IsPublished(c)
    <3>1. SUFFICES ASSUME NEW k \in DOMAIN factTopic, factTopic[k].id = c.id,
                          factTopic[k].ver = c.base + 1
                   PROVE  FALSE
      BY DEF IsPublished
    <3>2. PICK d \in docs : d.id = factTopic[k].id /\ d.ver = factTopic[k].ver
      BY DEF LogInv, PublishedIsCommitted
    <3> QED BY <1>1, <3>1, <3>2
  <2>3. ASSUME NEW u \in Tasks \ {t}, Publishes(pc[u], call[u])
        PROVE  ~(call[u].id = c.id /\ call[u].base = c.base)
    <3>1. PICK d \in docs : d.id = call[u].id /\ d.ver = call[u].base + 1
      BY <2>3 DEF LogInv, CallsAreLogged, LoggedAt, StoredBy
    <3> QED BY <1>1, <3>1
  <2>4. ASSUME NEW u \in Tasks, Publishes(pc[u], call[u])' PROVE ~IsPublished(call[u])'
    <3>1. CASE u = t
      BY <1>1, <2>1, <2>2, <3>1 DEF IsPublished, c
    <3>2. CASE u # t
      BY <1>1, <2>1, <2>4, <3>2 DEF Kept, Publishes, IsPublished, LogInv, PublishedOnce
    <3> QED BY <3>1, <3>2
  <2>5. ASSUME NEW u \in Tasks, Publishes(pc[u], call[u])',
               NEW v \in Tasks \ {u}, Publishes(pc[v], call[v])'
        PROVE  ~(call'[v].id = call'[u].id /\ call'[v].base = call'[u].base)
    <3>1. u # t => Publishes(pc[u], call[u])
      BY <2>1, <2>5 DEF Kept, Publishes
    <3>2. v # t => Publishes(pc[v], call[v])
      BY <2>1, <2>5 DEF Kept, Publishes
    <3>3. CASE u = t
      BY <2>1, <2>3, <2>5, <3>2, <3>3 DEF c
    <3>4. CASE v = t
      BY <2>1, <2>3, <2>5, <3>1, <3>4 DEF c
    <3>5. CASE u # t /\ v # t
      BY <2>1, <2>5, <3>1, <3>2, <3>5 DEF LogInv, PublishedOnce
    <3> QED BY <3>3, <3>4, <3>5
  <2> QED BY <2>4, <2>5 DEF PublishedOnce
<1> QED BY <1>2, <1>3

\* Publishing a fact: what the topic holds afterwards, and that its task is done.
LEMMA FactPublished ==
  ASSUME TypeInv, NEW t \in Tasks, PublishFact(t)
  PROVE  /\ Publishes(pc[t], call[t]) /\ call[t] \in Call /\ ~Publishes(pc[t], call[t])'
         /\ factTopic \in Seq(Fact)
         /\ \/ factTopic' = factTopic
            \/ /\ DOMAIN factTopic' = 1..(Len(factTopic) + 1)
               /\ \A k \in 1..Len(factTopic) : factTopic'[k] = factTopic[k]
               /\ factTopic'[Len(factTopic) + 1] = InstructionFact(call[t])
<1>1. /\ pc[t] = "pubfact" /\ call[t] \in Call /\ pc'[t] = "idle"
      /\ factTopic \in Seq(Fact)
  BY DEF PublishFact, Finish, TypeInv, TypeOK
<1>2. InstructionFact(call[t]) \in Fact
  BY <1>1, InstructionFactType
<1>3. factTopic' = factTopic \/ factTopic' = Append(factTopic, InstructionFact(call[t]))
  BY DEF PublishFact
<1> QED BY <1>1, <1>2, <1>3 DEF Publishes

LEMMA PublishOnce ==
  ASSUME TypeInv, PublishedOnce, NEW t \in Tasks, PublishFact(t),
         \A u \in Tasks \ {t} : Kept(u)
  PROVE  PublishedOnce'
<1> DEFINE m == Len(factTopic)
<1>1. /\ Publishes(pc[t], call[t]) /\ ~Publishes(pc[t], call[t])'
      /\ factTopic \in Seq(Fact) /\ DOMAIN factTopic = 1..m /\ m \in Nat
      /\ \/ factTopic' = factTopic
         \/ /\ DOMAIN factTopic' = 1..(m + 1)
            /\ \A k \in 1..m : factTopic'[k] = factTopic[k]
            /\ factTopic'[m + 1] = InstructionFact(call[t])
  BY FactPublished
<1>2. CASE factTopic' = factTopic
  BY <1>1, <1>2, QuietPublish
<1>3. CASE /\ DOMAIN factTopic' = 1..(m + 1)
           /\ \A k \in 1..m : factTopic'[k] = factTopic[k]
           /\ factTopic'[m + 1] = InstructionFact(call[t])
  <2> HIDE DEF m
  <2>1. ASSUME NEW u \in Tasks, Publishes(pc[u], call[u])'
        PROVE  u # t /\ Publishes(pc[u], call[u]) /\ call'[u] = call[u]
    BY <1>1, <2>1 DEF Kept, Publishes
  <2>2. ASSUME NEW u \in Tasks, Publishes(pc[u], call[u])' PROVE ~IsPublished(call[u])'
    <3>1. /\ u # t /\ Publishes(pc[u], call[u]) /\ call'[u] = call[u]
          /\ call[u] \in Call /\ call[t] \in Call
      BY <2>1, <2>2, FactPublished DEF TypeInv, TypeOK, Publishes
    <3>2. ~(call[u].id = call[t].id /\ call[u].base = call[t].base)
      BY <1>1, <3>1 DEF PublishedOnce
    <3>3. ASSUME NEW k \in DOMAIN factTopic'
          PROVE  ~(factTopic'[k].id = call[u].id /\ factTopic'[k].ver = call[u].base + 1)
      <4>1. CASE k = m + 1
        BY <1>3, <3>1, <3>2, <4>1 DEF InstructionFact, Call
      <4>2. CASE k # m + 1
        <5>1. k \in DOMAIN factTopic /\ factTopic'[k] = factTopic[k]
          BY <1>1, <1>3, <3>3, <4>2
        <5> QED BY <3>1, <5>1 DEF PublishedOnce, IsPublished
      <4> QED BY <4>1, <4>2
    <3> QED BY <3>1, <3>3 DEF IsPublished
  <2>3. ASSUME NEW u \in Tasks, Publishes(pc[u], call[u])',
               NEW v \in Tasks \ {u}, Publishes(pc[v], call[v])'
        PROVE  ~(call'[v].id = call'[u].id /\ call'[v].base = call'[u].base)
    BY <2>1, <2>3 DEF PublishedOnce
  <2> QED BY <2>2, <2>3 DEF PublishedOnce
<1> QED BY <1>1, <1>2, <1>3

\* Only these two steps publish anything.
LEMMA OnlyPublishes ==
  [Next]_vars => UNCHANGED topics \/ \E t \in Tasks : PublishEvent(t) \/ PublishFact(t)
<1>1. ASSUME NEW t \in Tasks, BeginAny(t) PROVE UNCHANGED topics
  BY <1>1 DEF BeginAny, BeginCreate, BeginUpdate, Begin, BeginOn
<1>2. ASSUME NEW t \in Tasks, Step(t)
      PROVE  UNCHANGED topics \/ PublishEvent(t) \/ PublishFact(t)
  BY <1>2 DEF Step, AuthorizeMutation, AuthorizeView, Deny, TxRead, TxWrite,
              TxConflict, AllocateEvent, Commit, InsertEvent
<1> QED BY <1>1, <1>2 DEF Next, Interrupt, Tick, vars

LEMMA NextPublishedOnce ==
  ASSUME TypeInv, ChainInv, LineageInv, LogInv, [Next]_vars
  PROVE  PublishedOnce'
<1>1. PublishedOnce
  BY DEF LogInv
<1>2. CASE UNCHANGED <<pc, call, topics>>
  BY <1>1, <1>2 DEF PublishedOnce, IsPublished, Publishes, topics
<1>3. ASSUME NEW t \in Tasks, BeginAny(t) \/ Step(t) \/ Interrupt(t),
             \A u \in Tasks \ {t} : Kept(u)
      PROVE  PublishedOnce'
  <2>f. /\ pc \in [Tasks -> Phases] /\ DOMAIN call = Tasks
        /\ (pc[t] # "idle" => call[t] \in Call)
    BY DEF TypeInv, TypeOK
  <2> DEFINE Early == {"idle", "authorize", "txread", "txwrite", "txevent", "commit"}
  <2>1. ASSUME UNCHANGED factTopic, pc'[t] \in Early PROVE PublishedOnce'
    <3>1. ~Publishes(pc[t], call[t])'
      BY <2>1, UnloggedYet
    <3> QED BY <1>1, <1>3, <2>1, <3>1, QuietPublish
  <2>2. ASSUME UNCHANGED factTopic, pc'[t] \in {"audit", "insert"} PROVE PublishedOnce'
    <3>1. ~Publishes(pc[t], call[t])'
      BY <2>2 DEF Publishes
    <3> QED BY <1>1, <1>3, <2>2, <3>1, QuietPublish
  <2>3. CASE BeginAny(t)
    BY <2>1, <2>3, <2>f DEF BeginAny, BeginCreate, BeginUpdate, Begin, BeginOn, Accept, Goto,
                            topics
  <2>4. CASE Interrupt(t)
    BY <2>1, <2>4, <2>f DEF Interrupt, Finish, topics
  <2>5. CASE AuthorizeMutation(t) \/ TxRead(t) \/ TxWrite(t) \/ TxConflict(t)
    BY <2>1, <2>5, <2>f DEF AuthorizeMutation, TxRead, TxWrite, TxConflict, Goto, Finish, topics
  <2>6. CASE AuthorizeView(t) \/ Deny(t) \/ AllocateEvent(t)
    BY <2>1, <2>2, <2>6, <2>f DEF AuthorizeView, Deny, AllocateEvent, Goto, Finish, topics
  <2>7. CASE Commit(t)
    BY <1>3, <2>7, CommitPublish
  <2>8. CASE InsertEvent(t)
    <3>1. pc[t] = "insert" /\ pc'[t] = "pubevent" /\ call' = call /\ UNCHANGED factTopic
      BY <2>8, <2>f DEF InsertEvent, Goto, topics
    <3>2. ~IsMutation(call[t])
      BY <3>1 DEF LogInv, CallsAreLogged, LoggedAt, IsMutation
    <3>3. ~Publishes(pc[t], call[t])'
      BY <3>1, <3>2 DEF Publishes, IsMutation
    <3> QED BY <1>1, <1>3, <3>1, <3>3, QuietPublish
  <2>9. CASE PublishEvent(t)
    <3>1. CASE IsMutation(call[t])
      <4>1. pc[t] = "pubevent" /\ call' = call /\ UNCHANGED factTopic
        BY <2>9, <3>1 DEF PublishEvent
      <4> QED BY <1>1, <1>3, <3>1, <4>1, QuietPublish DEF Publishes
    <3>2. CASE ~IsMutation(call[t])
      BY <2>1, <2>9, <2>f, <3>2 DEF PublishEvent, Finish
    <3> QED BY <3>1, <3>2
  <2>10. CASE PublishFact(t)
    BY <1>1, <1>3, <2>10, PublishOnce
  <2> QED BY <1>3, <2>3, <2>4, <2>5, <2>6, <2>7, <2>8, <2>9, <2>10 DEF Step
<1>4. \/ UNCHANGED <<docs, events, pc, call, topics>>
      \/ \E t \in Tasks : /\ BeginAny(t) \/ Step(t) \/ Interrupt(t)
                         /\ \A u \in Tasks \ {t} : Kept(u)
  BY ChangeOfOne
<1> QED BY <1>2, <1>3, <1>4

LEMMA NextPublished ==
  ASSUME TypeInv, LogInv, [Next]_vars, Extends(docs', docs), events \subseteq events'
  PROVE  PublishedIsCommitted'
<1>1. /\ eventTopic \subseteq events
      /\ \A k \in DOMAIN factTopic :
           /\ \E d \in docs : /\ d.id = factTopic[k].id /\ d.ver = factTopic[k].ver
                              /\ d.body = factTopic[k].body
           /\ \A j \in DOMAIN factTopic :
                factTopic[j].id = factTopic[k].id /\ factTopic[j].ver = factTopic[k].ver => j = k
  BY DEF LogInv, PublishedIsCommitted
<1>2. CASE UNCHANGED factTopic /\ eventTopic' \subseteq events'
  BY <1>1, <1>2 DEF PublishedIsCommitted, Extends
<1>3. CASE UNCHANGED topics
  BY <1>1, <1>2, <1>3 DEF topics
<1>4. ASSUME NEW t \in Tasks, PublishEvent(t) PROVE PublishedIsCommitted'
  <2>1. SecurityEvent(call[t]) \in events
    BY <1>4 DEF PublishEvent, LogInv, CallsAreLogged, LoggedAt
  <2> QED BY <1>1, <1>2, <1>4, <2>1 DEF PublishEvent
<1>5. ASSUME NEW t \in Tasks, PublishFact(t) PROVE PublishedIsCommitted'
  <2> DEFINE m == Len(factTopic)
             c == call[t]
             new == InstructionFact(c)
  <2>1. /\ Publishes(pc[t], c) /\ c \in Call
        /\ DOMAIN factTopic = 1..m /\ m \in Nat
        /\ \/ factTopic' = factTopic
           \/ /\ DOMAIN factTopic' = 1..(m + 1)
              /\ \A k \in 1..m : factTopic'[k] = factTopic[k]
              /\ factTopic'[m + 1] = new
    BY <1>5, FactPublished
  <2>2. CASE factTopic' = factTopic
    BY <1>1, <1>2, <1>5, <2>2 DEF PublishFact
  <2>3. CASE /\ DOMAIN factTopic' = 1..(m + 1)
             /\ \A k \in 1..m : factTopic'[k] = factTopic[k]
             /\ factTopic'[m + 1] = new
    <3>1. new.id = c.id /\ new.ver = c.base + 1 /\ new.body = c.body
      BY DEF InstructionFact
    <3> HIDE DEF m, new, c
    <3>2. \E d \in docs : d.id = new.id /\ d.ver = new.ver /\ d.body = new.body
      BY <2>1, <3>1 DEF LogInv, CallsAreLogged, LoggedAt, StoredBy, c
    <3>3. \A k \in 1..m : ~(factTopic[k].id = new.id /\ factTopic[k].ver = new.ver)
      BY <2>1, <3>1 DEF LogInv, PublishedOnce, IsPublished, c
    <3>4. ASSUME NEW k \in DOMAIN factTopic'
          PROVE  \E d \in docs' : /\ d.id = factTopic'[k].id /\ d.ver = factTopic'[k].ver
                                  /\ d.body = factTopic'[k].body
      <4>1. \E d \in docs : /\ d.id = factTopic'[k].id /\ d.ver = factTopic'[k].ver
                            /\ d.body = factTopic'[k].body
        <5>1. CASE k = m + 1
          BY <2>3, <3>2, <5>1
        <5>2. CASE k # m + 1
          <6>1. k \in 1..m
            BY <2>1, <2>3, <3>4, <5>2
          <6> QED BY <1>1, <2>1, <2>3, <6>1
        <5> QED BY <5>1, <5>2
      <4> QED BY <4>1 DEF Extends
    <3>5. ASSUME NEW k \in DOMAIN factTopic', NEW j \in DOMAIN factTopic',
                 factTopic'[j].id = factTopic'[k].id, factTopic'[j].ver = factTopic'[k].ver
          PROVE  j = k
      <4>1. CASE k = m + 1 /\ j # m + 1
        <5>1. j \in 1..m
          BY <2>1, <2>3, <4>1
        <5> QED BY <2>3, <3>3, <3>5, <4>1, <5>1
      <4>2. CASE k # m + 1 /\ j = m + 1
        <5>1. k \in 1..m
          BY <2>1, <2>3, <4>2
        <5> QED BY <2>3, <3>3, <3>5, <4>2, <5>1
      <4>3. CASE k # m + 1 /\ j # m + 1
        <5>1. k \in 1..m /\ j \in 1..m
          BY <2>1, <2>3, <4>3
        <5> QED BY <1>1, <2>1, <2>3, <3>5, <5>1
      <4> QED BY <4>1, <4>2, <4>3
    <3>6. eventTopic' \subseteq events'
      BY <1>1, <1>5 DEF PublishFact
    <3> QED BY <3>4, <3>5, <3>6 DEF PublishedIsCommitted
  <2> QED BY <2>1, <2>2, <2>3
<1> QED BY <1>3, <1>4, <1>5, OnlyPublishes

LEMMA NextLog ==
  TypeInv /\ ChainInv /\ LineageInv /\ LogInv /\ [Next]_vars => LogInv'
<1> SUFFICES ASSUME TypeInv, ChainInv, LineageInv, LogInv, [Next]_vars PROVE LogInv'
  OBVIOUS
<1>1. Extends(docs', docs)
  BY ChangeOfOne DEF Grows
<1>2. events \subseteq events'
  BY OnlyStores DEF storage, Commit, InsertEvent
<1>3. AuditComplete'
  <2>1. CASE UNCHANGED storage
    BY <2>1 DEF storage, LogInv, AuditComplete
  <2> QED BY <2>1, OnlyStores, CommitAudit, InsertAudit DEF LogInv
<1>4. CallsAreLogged'
  <2>1. ASSUME NEW u \in Tasks, Kept(u) PROVE LoggedAt(pc[u], call[u], docs, events)'
    BY <1>1, <1>2, <2>1, StillLogged DEF LogInv, CallsAreLogged, Kept
  <2>2. ASSUME NEW t \in Tasks, BeginAny(t) \/ Step(t) \/ Interrupt(t)
        PROVE  LoggedAt(pc[t], call[t], docs, events)'
    <3> DEFINE Early == {"idle", "authorize", "txread", "txwrite", "txevent", "commit"}
    <3>e. pc'[t] \in Early => LoggedAt(pc[t], call[t], docs, events)'
      BY UnloggedYet
    <3>1. CASE BeginAny(t)
      BY <3>1, <3>e DEF BeginAny, BeginCreate, BeginUpdate, Begin, BeginOn, Accept, Goto,
                        TypeInv, TypeOK
    <3>2. CASE Interrupt(t)
      BY <3>2, <3>e DEF Interrupt, Finish, TypeInv, TypeOK
    <3>3. CASE Step(t)
      BY <1>1, <1>2, <3>3, StepLogged
    <3> QED BY <2>2, <3>1, <3>2, <3>3
  <2>3. CASE UNCHANGED <<docs, events, pc, call, topics>>
    BY <2>1, <2>3 DEF Kept, CallsAreLogged
  <2>4. ASSUME NEW t \in Tasks, BeginAny(t) \/ Step(t) \/ Interrupt(t),
               \A u \in Tasks \ {t} : Kept(u)
        PROVE  CallsAreLogged'
    BY <2>1, <2>2, <2>4 DEF CallsAreLogged
  <2> QED BY <2>3, <2>4, ChangeOfOne
<1>5. PublishedOnce'
  BY NextPublishedOnce
<1>6. PublishedIsCommitted'
  BY <1>1, <1>2, NextPublished
<1> QED BY <1>3, <1>4, <1>5, <1>6 DEF LogInv

LEMMA LogInvariant == Spec => []LogInv
<1>1. Init => LogInv
  <2>1. Init => CallsAreLogged /\ PublishedOnce
    BY DEF Init, CallsAreLogged, LoggedAt, PublishedOnce, Publishes
  <2>2. Init => AuditComplete /\ PublishedIsCommitted
    BY DEF Init, AuditComplete, PublishedIsCommitted
  <2> QED BY <2>1, <2>2 DEF LogInv
<1> QED BY <1>1, NextLog, LineageInvariant, PTL DEF Spec

\* The security-event log and the versions agree: every version of a recorded user has
\* exactly one event, and a success event names a version that is stored, whatever
\* transactions abort between the number they take and their commit.
THEOREM LogIsComplete == Spec => []AuditComplete
<1>1. LogInv => AuditComplete
  BY DEF LogInv
<1> QED BY <1>1, LogInvariant, PTL

\* Kafka never tells of what is not stored, and never tells of a version twice.
THEOREM NothingUncommittedIsPublished == Spec => []PublishedIsCommitted
<1>1. LogInv => PublishedIsCommitted
  BY DEF LogInv
<1> QED BY <1>1, LogInvariant, PTL

=============================================================================
