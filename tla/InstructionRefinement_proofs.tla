---------------------- MODULE InstructionRefinement_proofs ----------------------
(***************************************************************************)
(* InstructionService implements InstructionLedger: every step of the      *)
(* service is a step of the ledger or leaves it as it was.                 *)
(*                                                                         *)
(* What the ledger numbers by counting, the service numbers by reading:    *)
(* the inductive invariant says that the open version of an instruction    *)
(* bears the number of its versions, and that the event numbers given stay *)
(* within the requests accepted, those still to take a number included.    *)
(***************************************************************************)
EXTENDS InstructionHistory_proofs, InstructionRefinement, FiniteSetTheorems

-----------------------------------------------------------------------------
(* The steps of a call and the transitions of the life cycle.              *)

LEMMA LawfulTransition ==
  ASSUME NEW b \in Body, NEW b2, NEW n, SoundHistory(b), LawfulBy(b, b2, n)
  PROVE  <<b.status, LastEntry(b2).act, b2.status>> \in Ledger!LifeCycle
<1>a. PICK act \in Actions \ {"CREATE", "VIEW"}, user \in Users :
        /\ b.status \in OpenTo(act)
        /\ \E copy \in Copies(act, b) : b2 = Outcome(act, copy, user)
  BY DEF LawfulBy
<1>b. PICK copy \in Copies(act, b) : b2 = Outcome(act, copy, user)
  BY <1>a
<1>1. act \in Actions /\ b.status \in OpenTo(act)
  BY <1>a
<1>2. /\ copy \in Body
      /\ act # "UPDATE" => copy.type = b.type
      /\ copy.status = IF act = "DELETE" THEN "DELETED" ELSE b.status
  BY <1>1, CopyFields
<1>3. LastEntry(b2).act = act
  <2>1. act \in Actions /\ copy \in Body /\ b2 = Outcome(act, copy, user)
    BY <1>1, <1>2, <1>b
  <2>2. LastEntry(b2) = [act |-> act, user |-> user]
    BY ONLY <2>1, OutcomeTrail, user \in Users
  <2> QED BY <2>2
<1>4. b2.status = Effect(act, copy, user).status
  BY <1>1, <1>2, <1>b, OutcomeFields
<1>5. /\ b.type \in Types /\ copy.type \in Types
      /\ b.status \in Approved => b.status = b.type
  BY <1>2 DEF SoundHistory, Provenance, Body
<1>6. SUFFICES <<b.status, act, b2.status>> \in Ledger!LifeCycle
  BY <1>3
<1> USE DEF Ledger!LifeCycle, Ledger!Active, OpenTo
<1>7. CASE act \in {"UPDATE", "DELETE"}
  BY <1>1, <1>2, <1>4, <1>7 DEF Effect
<1>8. CASE act = "SUBMIT"
  BY <1>1, <1>2, <1>4, <1>8 DEF Effect, Submitted, Body
<1>9. CASE act = "APPROVE"
  BY <1>1, <1>2, <1>4, <1>5, <1>9 DEF Effect, ApprovedBy, Body, Types
<1>10. CASE act = "REJECT"
  BY <1>1, <1>2, <1>4, <1>10 DEF Effect, RejectedBy, Body
<1>11. CASE act = "SUSPEND"
  BY <1>1, <1>2, <1>4, <1>11 DEF Effect, SuspendedBy, Body, Approved
<1>12. CASE act = "REACTIVATE"
  BY <1>1, <1>2, <1>4, <1>5, <1>12 DEF Effect, Reactivated, Body, Types
<1>13. CASE act = "USE"
  <2>1. /\ b.status \in {"STANDING", "SINGLE_USE"} /\ b.status = b.type
        /\ copy.status = b.status /\ copy.type = b.type
    BY <1>1, <1>2, <1>5, <1>13 DEF Approved
  <2>2. b2.status = IF copy.type = "SINGLE_USE" THEN "USED" ELSE copy.status
    BY <1>2, <1>4, <1>13 DEF Effect, UsedUp, Body
  <2> QED BY <1>13, <2>1, <2>2
<1> QED BY <1>1, <1>7, <1>8, <1>9, <1>10, <1>11, <1>12, <1>13 DEF Actions

-----------------------------------------------------------------------------
(* The versions of an instruction, counted.                                *)

VersionOf(d) == [id |-> d.id, ver |-> d.ver, status |-> d.body.status,
                 act |-> LastEntry(d.body).act, user |-> LastEntry(d.body).user]

\* The ledger's versions of instruction i when D is stored.
VersionsOf(i, D) == {VersionOf(d) : d \in {e \in D : e.id = i}}

\* The open version of an instruction bears the number of its versions.
CountedIn(D) ==
  \A i \in Ids :
    /\ IsFiniteSet(VersionsOf(i, D))
    /\ \A d \in D : d.id = i /\ ~d.out => Cardinality(VersionsOf(i, D)) = d.ver

LEMMA OfIs == \A i : Ledger!Of(i) = VersionsOf(i, docs)
BY DEF Ledger!Of, Versions, VersionsOf, VersionOf

\* The ledger counts with the same operator, under the name of its instance.
LEMMA SameCount == \A S : Ledger!Cardinality(S) = Cardinality(S)
BY Zenon DEF Ledger!Cardinality, Cardinality, Ledger!IsFiniteSet, IsFiniteSet

\* A commit adds one version, of its own instruction, whose number is the next one.
LEMMA CommitVersions ==
  ASSUME TypeInv, ChainInv, LineageInv, CountedIn(docs), NEW t \in Tasks, Commit(t)
  PROVE  LET c == call[t]
             v == [id |-> c.id, ver |-> c.base + 1, status |-> c.body.status,
                   act |-> c.act, user |-> c.subject]
         IN  /\ v \notin Versions /\ Versions' = Versions \cup {v}
             /\ VersionsOf(c.id, docs') = VersionsOf(c.id, docs) \cup {v}
             /\ \A i : i # c.id => VersionsOf(i, docs') = VersionsOf(i, docs)
             /\ Cardinality(VersionsOf(c.id, docs)) = c.base
             /\ c.base = 0 => \A d \in docs : d.id # c.id
             /\ c.id \in Ids /\ c.base \in Nat
<1> DEFINE c   == call[t]
           new == [id |-> c.id, ver |-> c.base + 1, out |-> FALSE, body |-> c.body]
           v   == [id |-> c.id, ver |-> c.base + 1, status |-> c.body.status,
                   act |-> c.act, user |-> c.subject]
<1>1. /\ c \in Call
      /\ LastEntry(c.body) = [act |-> c.act, user |-> c.subject]
      /\ \A d \in docs : ~(d.id = c.id /\ d.ver = c.base + 1)
      /\ new \in docs'
      /\ \A d \in docs' : d = new \/ \E o \in docs : o.id = d.id /\ o.ver = d.ver /\ o.body = d.body
  BY CommitFacts
<1>2. Extends(docs', docs)
  BY ChangeOfOne DEF Grows, Next, Step
<1>3. /\ pc[t] = "commit"
      /\ c.base > 0 => \E d \in docs : d.id = c.id /\ d.ver = c.base /\ ~d.out
  BY DEF Commit, ChainInv, TransactionsExclusive, InTransaction, IsOpen
<1>4. /\ new.id = c.id /\ new.ver = c.base + 1 /\ new.body = c.body
      /\ v.id = c.id /\ v.ver = c.base + 1
  OBVIOUS
<1>5. VersionOf(new) = v
  BY <1>1, <1>4 DEF VersionOf
<1>6. \A d, o : o.id = d.id /\ o.ver = d.ver /\ o.body = d.body => VersionOf(d) = VersionOf(o)
  BY DEF VersionOf
<1>7. \A d : VersionOf(d).id = d.id /\ VersionOf(d).ver = d.ver
  BY DEF VersionOf
<1>8. Versions = {VersionOf(d) : d \in docs} /\ Versions' = {VersionOf(d) : d \in docs'}
  BY DEF Versions, VersionOf
<1>9. c.id \in Ids /\ c.base \in Nat
  BY <1>1 DEF Call
<1>10. c.base = 0 => \A d \in docs : d.id # c.id
  BY <1>1 DEF LineageInv, OpenIsLast
<1> HIDE DEF c, new, v
<1>11. v \notin Versions
  BY <1>1, <1>4, <1>7, <1>8
<1>12. Versions' = Versions \cup {v}
  <2>1. ASSUME NEW w \in Versions' PROVE w \in Versions \cup {v}
    BY <1>1, <1>5, <1>6, <1>8, <2>1
  <2>2. ASSUME NEW w \in Versions \cup {v} PROVE w \in Versions'
    BY <1>1, <1>2, <1>5, <1>6, <1>8, <2>2 DEF Extends
  <2> QED BY <2>1, <2>2
<1>13. \A i : VersionsOf(i, docs) = {w \in Versions : w.id = i}
  BY <1>7, <1>8 DEF VersionsOf
<1>14. \A i : VersionsOf(i, docs') = {w \in Versions' : w.id = i}
  BY <1>7, <1>8 DEF VersionsOf
<1>15. VersionsOf(c.id, docs') = VersionsOf(c.id, docs) \cup {v}
  BY <1>4, <1>12, <1>13, <1>14
<1>16. \A i : i # c.id => VersionsOf(i, docs') = VersionsOf(i, docs)
  <2>1. SUFFICES ASSUME NEW i, i # c.id PROVE VersionsOf(i, docs') = VersionsOf(i, docs)
    OBVIOUS
  <2>2. VersionsOf(i, docs') = {w \in Versions' : w.id = i}
    BY <1>14
  <2>3. VersionsOf(i, docs) = {w \in Versions : w.id = i}
    BY <1>13
  <2> QED BY <1>4, <1>12, <2>1, <2>2, <2>3
<1>17. Cardinality(VersionsOf(c.id, docs)) = c.base
  <2>1. CASE c.base > 0
    BY <1>3, <1>9, <2>1 DEF CountedIn
  <2>2. CASE c.base = 0
    <3>1. VersionsOf(c.id, docs) = {}
      BY <1>10, <2>2 DEF VersionsOf
    <3> QED BY <2>2, <3>1, FS_EmptySet
  <2> QED BY <1>9, <2>1, <2>2
<1> USE DEF c, v
<1> QED BY <1>9, <1>10, <1>11, <1>12, <1>15, <1>16, <1>17

LEMMA CommitCounted ==
  ASSUME TypeInv, ChainInv, LineageInv, CountedIn(docs), NEW t \in Tasks, Commit(t)
  PROVE  CountedIn(docs')
<1> DEFINE c == call[t]
           v == [id |-> c.id, ver |-> c.base + 1, status |-> c.body.status,
                 act |-> c.act, user |-> c.subject]
<1>1. /\ v \notin Versions
      /\ VersionsOf(c.id, docs') = VersionsOf(c.id, docs) \cup {v}
      /\ \A i : i # c.id => VersionsOf(i, docs') = VersionsOf(i, docs)
      /\ Cardinality(VersionsOf(c.id, docs)) = c.base
      /\ c.id \in Ids /\ c.base \in Nat
  BY CommitVersions
<1>n. v \notin VersionsOf(c.id, docs)
  BY <1>1 DEF VersionsOf, Versions, VersionOf
<1>2. OpenIsLast'
  BY CommitOpen DEF LineageInv
<1>3. PICK new \in docs' :
        /\ new.id = c.id /\ new.ver = c.base + 1 /\ new.out = FALSE
        /\ \A d \in docs' : d = new \/ \E o \in docs :
             /\ o.id = d.id /\ o.ver = d.ver /\ o.body = d.body
             /\ IF o.id = c.id /\ o.ver = c.base
                  THEN d = Shut(o) /\ d.out = TRUE ELSE d = o
  BY CommitDocs
<1>4. \A d \in docs' : d.ver \in Nat
  BY <1>1, <1>3 DEF TypeInv, TypeOK, Doc
<1> HIDE DEF v, c
<1>5. ASSUME NEW i \in Ids
      PROVE  /\ IsFiniteSet(VersionsOf(i, docs'))
             /\ \A d \in docs' : d.id = i /\ ~d.out => Cardinality(VersionsOf(i, docs')) = d.ver
  <2>1. IsFiniteSet(VersionsOf(i, docs))
    BY DEF CountedIn
  <2>2. CASE i # c.id
    BY <1>1, <1>3, <2>1, <2>2 DEF CountedIn
  <2>3. CASE i = c.id
    <3>1. /\ IsFiniteSet(VersionsOf(i, docs'))
          /\ Cardinality(VersionsOf(i, docs')) = c.base + 1
      BY <1>1, <1>n, <2>1, <2>3, FS_AddElement
    <3>2. ASSUME NEW d \in docs', d.id = i, ~d.out PROVE d.ver = c.base + 1
      <4>1. new.ver <= d.ver /\ d.ver <= new.ver
        BY <1>2, <1>3, <2>3, <3>2 DEF OpenIsLast
      <4> QED BY <1>1, <1>3, <1>4, <4>1
    <3> QED BY <3>1, <3>2
  <2> QED BY <2>2, <2>3
<1> QED BY <1>5 DEF CountedIn

-----------------------------------------------------------------------------
(* The numbers of events, within the requests accepted.                    *)

\* The phases from which a call may still take the number of an event.
Unnumbered == {"authorize", "txread", "txwrite", "txevent", "audit"}

\* The tasks that may, when p is where each of them is.
Waiting(p) == {t \in Tasks : p[t] \in Unnumbered}

WithinBudget ==
  /\ IsFiniteSet(Waiting(pc))
  /\ \A i \in Ids : nextEvent[i] + Cardinality(Waiting(pc)) <= calls

\* Only the calls of recorded users are stored as events of their own.
OnlyRecorded ==
  \A t \in Tasks : pc[t] \in {"audit", "insert"} => IsRecorded(call[t].subject)

\* A step that takes no number and after which t may take one only if it might before.
LEMMA QuietBudget ==
  ASSUME WithinBudget, TypeInv, NEW t \in Tasks, UNCHANGED <<nextEvent, calls>>,
         \A u \in Tasks \ {t} : pc'[u] = pc[u],
         pc'[t] \in Unnumbered => pc[t] \in Unnumbered
  PROVE  WithinBudget'
<1>1. Waiting(pc') = Waiting(pc) \/ Waiting(pc') = Waiting(pc) \ {t}
  <2>1. CASE pc'[t] \in Unnumbered
    BY <2>1 DEF Waiting
  <2>2. CASE pc'[t] \notin Unnumbered
    BY <2>2 DEF Waiting
  <2> QED BY <2>1, <2>2
<1>2. IsFiniteSet(Waiting(pc')) /\ Cardinality(Waiting(pc')) <= Cardinality(Waiting(pc))
      /\ Cardinality(Waiting(pc)) \in Nat /\ Cardinality(Waiting(pc')) \in Nat
  <2>1. IsFiniteSet(Waiting(pc)) /\ Cardinality(Waiting(pc)) \in Nat
    BY FS_CardinalityType DEF WithinBudget
  <2>2. CASE Waiting(pc') = Waiting(pc)
    BY <2>1, <2>2
  <2>3. CASE Waiting(pc') = Waiting(pc) \ {t}
    <3>1. /\ IsFiniteSet(Waiting(pc) \ {t})
          /\ Cardinality(Waiting(pc) \ {t}) = IF t \in Waiting(pc)
                                              THEN Cardinality(Waiting(pc)) - 1
                                              ELSE Cardinality(Waiting(pc))
      BY <2>1, FS_RemoveElement
    <3>2. Cardinality(Waiting(pc) \ {t}) \in Nat
      BY <3>1, FS_CardinalityType
    <3> QED BY <2>1, <2>3, <3>1, <3>2
  <2> QED BY <1>1, <2>2, <2>3
<1>3. \A i \in Ids : nextEvent[i] \in Nat /\ calls \in Nat
  BY ServiceAssumption DEF TypeInv, TypeOK
<1> QED BY <1>2, <1>3 DEF WithinBudget

LEMMA BeginBudget ==
  ASSUME WithinBudget, TypeInv, NEW t \in Tasks, BeginAny(t)
  PROVE  WithinBudget'
<1>1. /\ pc' = [pc EXCEPT ![t] = "authorize"] /\ calls' = calls + 1 /\ UNCHANGED nextEvent
      /\ pc \in [Tasks -> Phases]
  BY DEF BeginAny, BeginCreate, BeginUpdate, Begin, BeginOn, Accept, Goto, counters,
         TypeInv, TypeOK
<1>2. Waiting(pc') = Waiting(pc) \cup {t}
  BY <1>1 DEF Waiting, Unnumbered
<1>3. IsFiniteSet(Waiting(pc')) /\ Cardinality(Waiting(pc')) <= Cardinality(Waiting(pc)) + 1
      /\ Cardinality(Waiting(pc)) \in Nat /\ Cardinality(Waiting(pc')) \in Nat
  BY <1>2, FS_AddElement, FS_CardinalityType DEF WithinBudget
<1>4. calls \in Nat /\ \A i \in Ids : nextEvent[i] \in Nat
  BY ServiceAssumption DEF TypeInv, TypeOK
<1>5. \A i \in Ids : nextEvent[i] + Cardinality(Waiting(pc)) <= calls
  BY DEF WithinBudget
<1>6. \A i \in Ids : nextEvent'[i] + Cardinality(Waiting(pc')) <= calls'
  BY <1>1, <1>3, <1>4, <1>5
<1> QED BY <1>3, <1>6 DEF WithinBudget

LEMMA AllocateBudget ==
  ASSUME WithinBudget, TypeInv, NEW t \in Tasks, AllocateEvent(t)
  PROVE  WithinBudget'
<1>1. /\ pc[t] \in Unnumbered /\ pc'[t] \notin Unnumbered
      /\ \A u \in Tasks \ {t} : pc'[u] = pc[u]
      /\ calls' = calls /\ nextEvent' = [nextEvent EXCEPT ![call[t].id] = @ + 1]
  BY DEF AllocateEvent, Incremented, Goto, Unnumbered, TypeInv, TypeOK
<1>2. Waiting(pc') = Waiting(pc) \ {t} /\ t \in Waiting(pc)
  BY <1>1 DEF Waiting
<1>3. IsFiniteSet(Waiting(pc')) /\ Cardinality(Waiting(pc')) = Cardinality(Waiting(pc)) - 1
      /\ Cardinality(Waiting(pc)) \in Nat
  BY <1>2, FS_RemoveElement, FS_CardinalityType DEF WithinBudget
<1>4. calls \in Nat /\ nextEvent \in [Ids -> Nat]
  BY ServiceAssumption DEF TypeInv, TypeOK
<1>5. \A i \in Ids : nextEvent'[i] <= nextEvent[i] + 1 /\ nextEvent'[i] \in Nat
  BY <1>1, <1>4
<1> QED BY <1>1, <1>3, <1>4, <1>5 DEF WithinBudget

LEMMA NextBudget == TypeInv /\ WithinBudget /\ [Next]_vars => WithinBudget'
<1> SUFFICES ASSUME TypeInv, WithinBudget, [Next]_vars PROVE WithinBudget'
  OBVIOUS
<1>f. pc \in [Tasks -> Phases]
  BY DEF TypeInv, TypeOK
<1>1. ASSUME NEW t \in Tasks, NEW phase, UNCHANGED <<nextEvent, calls>>,
             pc' = [pc EXCEPT ![t] = phase], phase \in Unnumbered => pc[t] \in Unnumbered
      PROVE  WithinBudget'
  BY <1>1, <1>f, QuietBudget
<1> USE DEF Unnumbered, counters, Goto, Finish
<1>2. ASSUME NEW t \in Tasks, Step(t) PROVE WithinBudget'
  <2>1. CASE AuthorizeMutation(t) \/ AuthorizeView(t) \/ Deny(t)
    BY <1>1, <2>1 DEF AuthorizeMutation, AuthorizeView, Deny
  <2>2. CASE TxRead(t) \/ TxWrite(t) \/ TxConflict(t)
    BY <1>1, <2>2 DEF TxRead, TxWrite, TxConflict
  <2>3. CASE AllocateEvent(t)
    BY <2>3, AllocateBudget
  <2>4. CASE Commit(t) \/ InsertEvent(t)
    BY <1>1, <2>4 DEF Commit, InsertEvent
  <2>5. CASE PublishEvent(t) \/ PublishFact(t)
    BY <1>1, <2>5 DEF PublishEvent, PublishFact
  <2> QED BY <1>2, <2>1, <2>2, <2>3, <2>4, <2>5 DEF Step
<1>3. ASSUME NEW t \in Tasks, Interrupt(t) PROVE WithinBudget'
  BY <1>1, <1>3 DEF Interrupt
<1>4. CASE UNCHANGED <<pc, nextEvent, calls>>
  <2>1. Waiting(pc') = Waiting(pc)
    BY <1>4
  <2> QED BY <1>4, <2>1 DEF WithinBudget
<1> QED BY <1>2, <1>3, <1>4, BeginBudget DEF Next, Tick, vars

LEMMA NextRecorded == TypeInv /\ OnlyRecorded /\ [Next]_vars => OnlyRecorded'
<1> SUFFICES ASSUME TypeInv, OnlyRecorded, [Next]_vars PROVE OnlyRecorded'
  OBVIOUS
<1>1. CASE UNCHANGED <<pc, call>>
  BY <1>1 DEF OnlyRecorded
<1>2. ASSUME NEW t \in Tasks, BeginAny(t) \/ Step(t) \/ Interrupt(t),
             \A u \in Tasks \ {t} : Kept(u)
      PROVE  OnlyRecorded'
  <2>f. /\ pc \in [Tasks -> Phases] /\ DOMAIN call = Tasks
        /\ (pc[t] # "idle" => call[t] \in Call)
    BY DEF TypeInv, TypeOK
  <2>1. pc'[t] \in {"audit", "insert"} => IsRecorded(call'[t].subject)
    <3> USE <2>f DEF Goto, Finish
    <3>1. CASE BeginAny(t) \/ Interrupt(t)
      BY <3>1 DEF BeginAny, BeginCreate, BeginUpdate, Begin, BeginOn, Accept, Interrupt
    <3>2. CASE AuthorizeMutation(t) \/ TxRead(t) \/ TxWrite(t) \/ TxConflict(t)
      BY <3>2 DEF AuthorizeMutation, TxRead, TxWrite, TxConflict
    <3>3. CASE AuthorizeView(t)
      BY <3>3 DEF AuthorizeView
    <3>4. CASE Deny(t)
      <4>1. pc[t] = "authorize" /\ call[t] \in Call
        BY <3>4 DEF Deny
      <4>2. [call[t] EXCEPT !.denied = TRUE].subject = call[t].subject
        BY <4>1 DEF Call
      <4> QED BY <3>4, <4>2 DEF Deny
    <3>5. CASE AllocateEvent(t)
      <4> DEFINE k == NextEventNumber(call[t].id)
                 n == [call[t] EXCEPT !.evt = k]
      <4>1. /\ pc[t] \in {"txevent", "audit"} /\ call[t] \in Call /\ call'[t] = n
            /\ pc'[t] = IF pc[t] = "txevent" THEN "commit" ELSE "insert"
        BY <3>5 DEF AllocateEvent
      <4>2. n.subject = call[t].subject
        BY <4>1 DEF Call
      <4> HIDE DEF n
      <4> QED BY <4>1, <4>2 DEF OnlyRecorded
    <3>6. CASE Commit(t) \/ InsertEvent(t) \/ PublishEvent(t) \/ PublishFact(t)
      BY <3>6 DEF Commit, InsertEvent, PublishEvent, PublishFact
    <3> QED BY <1>2, <3>1, <3>2, <3>3, <3>4, <3>5, <3>6 DEF Step
  <2> QED BY <1>2, <2>1 DEF OnlyRecorded, Kept
<1> QED BY <1>1, <1>2, ChangeOfOne

-----------------------------------------------------------------------------
(* Every step of the service is one of the ledger's, or none.              *)

RefinementInv ==
  /\ TypeInv /\ ChainInv /\ LineageInv /\ HistoriesAreSound /\ LogInv /\ NumberInv
  /\ CountedIn(docs) /\ WithinBudget /\ OnlyRecorded

\* The number a call holds is one the ledger may give.
LEMMA NumberUnused ==
  ASSUME RefinementInv, NEW t \in Tasks, Pending(t)
  PROVE  call[t].evt \in Ledger!Unused(call[t].id)
<1> DEFINE c == call[t]
<1>1. c \in Call /\ c.id \in Ids /\ c.evt \in Nat /\ c.evt > 0
  BY DEF RefinementInv, TypeInv, TypeOK, Numbered, Pending, Call
<1>2. /\ c.evt <= nextEvent[c.id]
      /\ \A e \in events : ~(e.res = c.id /\ e.n = c.evt)
  BY DEF RefinementInv, NumberInv, NumbersTaken
<1>3. /\ calls \in Nat /\ calls <= MaxCalls /\ MaxCalls \in Nat
      /\ nextEvent[c.id] \in Nat /\ nextEvent[c.id] + Cardinality(Waiting(pc)) <= calls
      /\ Cardinality(Waiting(pc)) \in Nat
  BY <1>1, ServiceAssumption, FS_CardinalityType DEF RefinementInv, TypeInv, TypeOK, WithinBudget
<1> HIDE DEF c
<1>4. c.evt \in 1..MaxCalls
  BY <1>1, <1>2, <1>3
<1> USE DEF c
<1> QED BY <1>2, <1>4 DEF Ledger!Unused

LEMMA CommitStores ==
  ASSUME RefinementInv, NEW t \in Tasks, Commit(t)
  PROVE  Ledger!LedgerNext
<1> DEFINE c  == call[t]
           id == c.id
           v  == [id |-> id, ver |-> c.base + 1, status |-> c.body.status,
                  act |-> c.act, user |-> c.subject]
           ev == [res |-> id, n |-> c.evt, act |-> c.act, user |-> c.subject,
                  outcome |-> "success", ver |-> c.base + 1]
<1> USE DEF RefinementInv
<1>1. /\ v \notin Versions /\ Versions' = Versions \cup {v}
      /\ Cardinality(VersionsOf(id, docs)) = c.base
      /\ c.base = 0 => \A d \in docs : d.id # id
      /\ id \in Ids /\ c.base \in Nat
  BY CommitVersions
<1>2. /\ pc[t] = "commit" /\ c \in Call /\ c.subject \in Users /\ LawfulOutcome(c, docs, now)
      /\ LastEntry(c.body) = [act |-> c.act, user |-> c.subject]
      /\ SecurityEvent(c) = ev
      /\ events' = IF IsRecorded(c.subject) THEN events \cup {SecurityEvent(c)} ELSE events
  BY CommitFacts DEF Commit, LineageInv, CallsAreLawful, LawfulAt, Uncommitted, Call
<1>3. Ledger!Of(id) = VersionsOf(id, docs)
  BY OfIs
<1>4. c.base \in Nat /\ Cardinality(Ledger!Of(id)) = c.base
  BY <1>1, <1>3
<1>5. PICK s \in Ledger!Sources(id) : <<s, c.act, c.body.status>> \in Ledger!LifeCycle
  <2>1. CASE c.act = "CREATE"
    <3>1. PICK req \in Requests :
                 c.body = Outcome("CREATE", NewInstruction(req, c.subject), c.subject)
      BY <1>2, <2>1 DEF LawfulOutcome
    <3>2. /\ NewInstruction(req, c.subject) \in Body /\ "CREATE" \in Actions
          /\ NewInstruction(req, c.subject).status = "DRAFT"
      BY <1>2, NewInstructionType DEF Actions, NewInstruction
    <3>3. c.body.status = Effect("CREATE", NewInstruction(req, c.subject), c.subject).status
      BY <1>2, <3>1, <3>2, OutcomeFields
    <3>4. c.body.status = "DRAFT"
      BY <3>2, <3>3 DEF Effect
    <3>5. Ledger!Of(id) = {}
      BY <1>1, <1>2, <1>3, <2>1 DEF LawfulOutcome, VersionsOf
    <3>6. "none" \in Ledger!Sources(id)
      BY <3>5 DEF Ledger!Sources
    <3>7. <<"none", c.act, c.body.status>> \in Ledger!LifeCycle
      BY <2>1, <3>4 DEF Ledger!LifeCycle
    <3> QED BY <3>6, <3>7
  <2>2. CASE c.act # "CREATE"
    <3>1. PICK e \in docs : IsRead(c, e) /\ LawfulBy(e.body, c.body, now)
      BY <1>2, <2>2 DEF LawfulOutcome
    <3>2. e.body \in Body /\ SoundHistory(e.body)
      BY DEF HistoriesAreSound, TypeInv, TypeOK, Doc
    <3>3. <<e.body.status, LastEntry(c.body).act, c.body.status>> \in Ledger!LifeCycle
      BY <3>1, <3>2, LawfulTransition
    <3>4. LastEntry(c.body).act = c.act
      BY <1>2
    <3>5. VersionOf(e) \in Ledger!Of(id) /\ VersionOf(e).status = e.body.status
      BY <1>3, <3>1 DEF VersionsOf, VersionOf, IsRead
    <3>6. e.body.status \in Ledger!Sources(id)
      BY <3>5 DEF Ledger!Sources
    <3> QED BY <3>3, <3>4, <3>6
  <2> QED BY <2>1, <2>2
<1> DEFINE tr == <<s, c.act, c.body.status>>
<1>6. Ledger!Extend(id, c.subject, tr)
  <2>1. Ledger!Cardinality(Ledger!Of(id)) + 1 = c.base + 1
    BY <1>4, SameCount
  <2>2. tr[1] = s /\ tr[2] = c.act /\ tr[3] = c.body.status
    OBVIOUS
  <2> QED BY <1>1, <1>5, <2>1, <2>2 DEF Ledger!Extend
<1>7. Ledger!Store(id, c.subject, tr)
  <2>1. CASE IsRecorded(c.subject)
    <3>1. c.evt \in Ledger!Unused(id)
      BY <1>2, <2>1, NumberUnused DEF Pending
    <3>2. events' = events \cup {[res |-> id, n |-> c.evt, act |-> tr[2], user |-> c.subject,
                                  outcome |-> "success",
                                  ver |-> Ledger!Cardinality(Ledger!Of(id)) + 1]}
      <4>1. Ledger!Cardinality(Ledger!Of(id)) + 1 = c.base + 1
        BY <1>4, SameCount
      <4> QED BY <1>2, <2>1, <4>1
    <3> QED BY <1>6, <2>1, <3>1, <3>2 DEF Ledger!Store, IsRecorded
  <2>2. CASE ~IsRecorded(c.subject)
    BY <1>2, <1>6, <2>2 DEF Ledger!Store, IsRecorded
  <2> QED BY <2>1, <2>2
<1>8. tr \in Ledger!LifeCycle /\ c.subject \in Users /\ id \in Ids
  BY <1>1, <1>2, <1>5
<1>9. <<Versions, events>>' # <<Versions, events>>
  BY <1>1
<1> HIDE DEF tr, id, c
<1> QED BY <1>7, <1>8, <1>9 DEF Ledger!LedgerNext

\* An event that is stored alone is a view of a stored version or a refusal.
LEMMA InsertStores ==
  ASSUME RefinementInv, NEW t \in Tasks, InsertEvent(t)
  PROVE  Ledger!LedgerNext
<1> DEFINE c  == call[t]
           ev == SecurityEvent(c)
<1> USE DEF RefinementInv
<1>1. /\ pc[t] = "insert" /\ c \in Call /\ docs' = docs /\ events' = events \cup {ev}
      /\ c.id \in Ids /\ c.subject \in Users /\ c.act \in Actions
  BY DEF InsertEvent, TypeInv, TypeOK, Call
<1>2. c.subject \notin Unrecorded
  BY <1>1 DEF OnlyRecorded, IsRecorded
<1>3. c.evt \in Ledger!Unused(c.id)
  BY <1>1, NumberUnused DEF Pending
<1>4. \/ c.denied = TRUE
      \/ c.act = "VIEW" /\ c.denied = FALSE /\ \E d \in docs : IsRead(c, d)
  BY <1>1 DEF LogInv, CallsAreLogged, LoggedAt
<1>5. Versions' = Versions
  BY <1>1 DEF Versions, LastEntry
<1>6. ev \notin events
  BY <1>3 DEF Ledger!Unused, SecurityEvent
<1>7. CASE c.denied = TRUE
  <2>1. ev = [res |-> c.id, n |-> c.evt, act |-> c.act, user |-> c.subject,
              outcome |-> "failure", ver |-> 0]
    BY <1>7 DEF SecurityEvent
  <2>2. c.act \in {x[2] : x \in Ledger!LifeCycle} \cup {"VIEW"}
    <3> DEFINE S == Ledger!LifeCycle
    <3>1. /\ <<"none", "CREATE", "DRAFT">> \in S /\ <<"DRAFT", "UPDATE", "DRAFT">> \in S
          /\ <<"DRAFT", "SUBMIT", "PENDING">> \in S /\ <<"PENDING", "REJECT", "REJECTED">> \in S
          /\ <<"DRAFT", "DELETE", "DELETED">> \in S /\ <<"STANDING", "USE", "STANDING">> \in S
          /\ <<"PENDING", "APPROVE", "STANDING">> \in S
          /\ <<"STANDING", "SUSPEND", "SUSPENDED">> \in S
          /\ <<"SUSPENDED", "REACTIVATE", "STANDING">> \in S
      BY DEF Ledger!LifeCycle, Ledger!Active
    <3> HIDE DEF S, c
    <3>2. ASSUME NEW a, NEW b, NEW e, <<a, b, e>> \in S PROVE b \in {x[2] : x \in S}
      <4>1. <<a, b, e>>[2] = b
        OBVIOUS
      <4>2. \E x \in S : x[2] = b
        BY <3>2, <4>1, Zenon
      <4> QED BY <4>2, Zenon
    <3> DEFINE R == {x[2] : x \in S}
    <3>3. /\ "CREATE" \in R /\ "UPDATE" \in R /\ "SUBMIT" \in R
          /\ "REJECT" \in R /\ "DELETE" \in R /\ "USE" \in R
          /\ "APPROVE" \in R /\ "SUSPEND" \in R /\ "REACTIVATE" \in R
      BY ONLY <3>1, <3>2, Zenon
    <3>4. c.act \in R \cup {"VIEW"}
      <4> HIDE DEF R
      <4> QED BY <1>1, <3>3 DEF Actions
    <3> QED BY <3>4 DEF S
  <2>3. Ledger!Refuse(c.id, c.subject, c.act)
    BY <1>1, <1>3, <1>5, <2>1 DEF Ledger!Refuse
  <2> HIDE DEF c, ev
  <2> QED BY <1>1, <1>2, <1>6, <2>2, <2>3 DEF Ledger!LedgerNext
<1>8. CASE c.denied = FALSE
  <2>1. PICK d \in docs : IsRead(c, d)
    BY <1>4, <1>8
  <2>2. ev = [res |-> c.id, n |-> c.evt, act |-> "VIEW", user |-> c.subject,
              outcome |-> "success", ver |-> c.seen]
    BY <1>4, <1>8 DEF SecurityEvent
  <2>3. VersionOf(d) \in Ledger!Of(c.id) /\ VersionOf(d).ver = c.seen
    BY <2>1, OfIs DEF VersionsOf, VersionOf, IsRead
  <2>4. Ledger!View(c.id, c.subject)
    BY <1>1, <1>3, <1>5, <2>2, <2>3 DEF Ledger!View
  <2> HIDE DEF c, ev
  <2> QED BY <1>1, <1>2, <1>6, <2>4 DEF Ledger!LedgerNext
<1> QED BY <1>4, <1>7, <1>8

LEMMA NextRefines ==
  RefinementInv /\ [Next]_vars => [Ledger!LedgerNext]_<<Versions, events>>
<1> SUFFICES ASSUME RefinementInv, [Next]_vars
             PROVE  Ledger!LedgerNext \/ UNCHANGED <<Versions, events>>
  OBVIOUS
<1>1. CASE UNCHANGED storage
  BY <1>1 DEF storage, Versions, LastEntry
<1>2. ASSUME NEW t \in Tasks, Commit(t) PROVE Ledger!LedgerNext
  BY <1>2, CommitStores
<1>3. ASSUME NEW t \in Tasks, InsertEvent(t) PROVE Ledger!LedgerNext
  BY <1>3, InsertStores
<1> QED BY <1>1, <1>2, <1>3, OnlyStores

LEMMA RefinementInvariant == Spec => []RefinementInv
<1>1. Init => CountedIn(docs) /\ WithinBudget /\ OnlyRecorded
  <2> SUFFICES ASSUME Init PROVE CountedIn(docs) /\ WithinBudget /\ OnlyRecorded
    OBVIOUS
  <2>1. CountedIn(docs)
    <3>1. \A i \in Ids : VersionsOf(i, docs) = {}
      BY DEF Init, VersionsOf
    <3> QED BY <3>1, FS_EmptySet DEF CountedIn, Init
  <2>2. WithinBudget
    <3>1. Waiting(pc) = {}
      BY DEF Init, Waiting, Unnumbered
    <3>2. IsFiniteSet(Waiting(pc)) /\ Cardinality(Waiting(pc)) = 0
      BY <3>1, FS_EmptySet
    <3>3. calls = 0 /\ \A i \in Ids : nextEvent[i] = 0
      BY DEF Init
    <3>4. \A i \in Ids : nextEvent[i] + Cardinality(Waiting(pc)) <= calls
      BY <3>2, <3>3
    <3> QED BY <3>2, <3>4 DEF WithinBudget
  <2>3. OnlyRecorded
    BY DEF Init, OnlyRecorded
  <2> QED BY <2>1, <2>2, <2>3
<1>2. /\ TypeInv /\ ChainInv /\ LineageInv
      /\ CountedIn(docs) /\ WithinBudget /\ OnlyRecorded /\ [Next]_vars
      => (CountedIn(docs) /\ WithinBudget /\ OnlyRecorded)'
  <2> SUFFICES ASSUME TypeInv, ChainInv, LineageInv, CountedIn(docs), WithinBudget,
                      OnlyRecorded, [Next]_vars
               PROVE  CountedIn(docs') /\ WithinBudget' /\ OnlyRecorded'
    OBVIOUS
  <2>1. CountedIn(docs')
    BY OnlyCommits, CommitCounted
  <2> QED BY <2>1, NextBudget, NextRecorded
<1>3. Init => TypeInv /\ NumberInv
  BY InitTypeInv, InitNumber
<1>4. TypeInv /\ NumberInv /\ [Next]_vars => (TypeInv /\ NumberInv)'
  BY NextTypeInv, NextNumber
<1>5. Spec => [](CountedIn(docs) /\ WithinBudget /\ OnlyRecorded)
  BY <1>1, <1>2, LineageInvariant, PTL DEF Spec
<1>6. Spec => [](TypeInv /\ NumberInv)
  BY <1>3, <1>4, PTL DEF Spec
<1>7. /\ TypeInv /\ ChainInv /\ LineageInv /\ HistoriesAreSound /\ LogInv /\ NumberInv
      /\ CountedIn(docs) /\ WithinBudget /\ OnlyRecorded
      => RefinementInv
  BY DEF RefinementInv
<1> QED BY <1>5, <1>6, <1>7, LineageInvariant, HistoryInvariant, LogInvariant, PTL

\* Whatever the interleaving of handlers, transactions and failures, a reader of the two
\* collections sees the ledger: one numbered version and its event at a time, reached by a
\* transition of the life cycle, and nothing else.
THEOREM ServiceImplementsLedger == Spec => ImplementsLedger
<1>1. Init => Ledger!LedgerInit
  BY DEF Init, Ledger!LedgerInit, Versions
<1> QED BY <1>1, NextRefines, RefinementInvariant, PTL
        DEF Spec, ImplementsLedger, Ledger!LedgerSpec

=============================================================================
