----------------------------- MODULE Chat_proofs -----------------------------
(***************************************************************************)
(* What ssi-chat says of approvals, for any histories, questions and       *)
(* limits, however the searches and the indexing interleave.               *)
(*                                                                         *)
(* That nothing matching is in the graph: what was indexed when the        *)
(* question came is still there when the graph is searched (QuestionInv),  *)
(* so a planned query for it cannot come back empty.                       *)
(*                                                                         *)
(* Who approved: what is indexed names nobody who has not approved         *)
(* (IndexInv), so neither do the hits of a payment's searches, and the     *)
(* lookup of an approver that is known finds one (AnswerInv).  The answer  *)
(* is a fold over the hits, in the order they were merged in, and folding  *)
(* does not leave what the hits name.                                      *)
(***************************************************************************)
EXTENDS Chat, FiniteSetTheorems, WellFoundedInduction, TLAPS

-----------------------------------------------------------------------------
(* Absence.                                                                *)

\* What is in the graph, and what was sure of it when the question came.
QuestionInv ==
  /\ recorded \in [Resources -> SUBSET Nat]
  /\ question.about \in Resources
  /\ question = NoQuestion => pending = {} /\ graph = NoResult
  /\ sure.event => \E n \in recorded[question.about] : Approves(question.about, n)

\* A query for the approval of a payment that is recorded finds a row.
LEMMA RecordedApprovalIsFound ==
  ASSUME NEW p, NEW n, n \in recorded[p], Approves(p, n)
  PROVE  ApprovalRow(p) # NoRow
BY DEF ApprovalRow, NoRow

LEMMA InitQuestion == Init => QuestionInv /\ AbsenceIsObserved
BY DEF Init, QuestionInv, AbsenceIsObserved, NoQuestion, NoResult, Resources

\* Indexing adds to the graph and leaves the question alone.
LEMMA IndexQuestion ==
  ASSUME QuestionInv, AbsenceIsObserved, IndexStep \/ \E r \in Resources : Happen(r)
  PROVE  QuestionInv' /\ AbsenceIsObserved'
<1>1. UNCHANGED <<history, question, pending, graph, sure>>
  BY DEF IndexStep, Happen, RecordEvent, StoreEvent, RecordFact, StoreFact, asked
<1>2. /\ recorded' \in [Resources -> SUBSET Nat]
      /\ \A r \in Resources : recorded[r] \subseteq recorded'[r]
  <2>1. CASE UNCHANGED recorded
    BY <2>1 DEF QuestionInv
  <2>2. ASSUME NEW r \in Resources, NEW n \in Nat, RecordEvent(r, n)
        PROVE  /\ recorded' \in [Resources -> SUBSET Nat]
               /\ \A x \in Resources : recorded[x] \subseteq recorded'[x]
    BY <2>2 DEF RecordEvent, QuestionInv
  <2>3. \A r \in Resources : 1..happened[r] \subseteq Nat
    OBVIOUS
  <2> QED BY <2>1, <2>2, <2>3 DEF IndexStep, Happen, StoreEvent, RecordFact, StoreFact, index
<1>3. \A r \in Resources : \A n \in recorded[r] : Approves(r, n)' <=> Approves(r, n)
  BY <1>1 DEF Approves
<1>4. sure.event => \E n \in recorded'[question.about] : (Approves(question.about, n))'
  BY <1>1, <1>2, <1>3 DEF QuestionInv
<1> QED BY <1>1, <1>2, <1>4 DEF QuestionInv, AbsenceIsObserved, ForPayment

\* The question comes before anything has been searched.
LEMMA AskQuestion ==
  ASSUME QuestionInv, NEW q \in Questions[history], history \in Histories, Ask(q)
  PROVE  QuestionInv' /\ AbsenceIsObserved'
<1>1. /\ graph = NoResult /\ question' = q
      /\ q.about \in Resources /\ q # NoQuestion
  BY ChatAssumption DEF Ask, QuestionInv, Question, NoQuestion
<1>2. UNCHANGED <<history, recorded, graph>>
  BY DEF Ask, index
<1>3. sure'.event <=> \E n \in recorded[q.about] : Approves(q.about, n)
  BY DEF Ask
<1> QED BY <1>1, <1>2, <1>3 DEF QuestionInv, AbsenceIsObserved, NoResult, Approves

LEMMA SearchGraphQuestion ==
  ASSUME QuestionInv, AbsenceIsObserved, SearchGraph
  PROVE  AbsenceIsObserved'
<1>1. question' = question /\ sure' = sure
  BY DEF SearchGraph
<1>2. CASE Planned(question) /\ graph' = [row |-> PlannedRow(question),
             note |-> IF PlannedRow(question) = NoRow THEN "none" ELSE "rows",
             read |-> "planned"]
  <2>1. SUFFICES ASSUME PlannedRow(question) = NoRow, ForPayment, sure.event
                 PROVE  FALSE
    BY <1>1, <1>2 DEF AbsenceIsObserved, ForPayment
  <2>2. PlannedRow(question) = ApprovalRow(question.about)
    BY <2>1, ChatAssumption DEF PlannedRow, ForPayment
  <2> QED BY <2>1, <2>2, RecordedApprovalIsFound DEF QuestionInv
<1>3. CASE \E note \in {"rows", "none"} :
             graph' = [row |-> NoRow, note |-> note, read |-> "model"]
  BY <1>3 DEF AbsenceIsObserved
<1>4. CASE graph' = Unavailable
  BY <1>4 DEF AbsenceIsObserved, Unavailable
<1> QED BY <1>2, <1>3, <1>4 DEF SearchGraph

LEMMA NextQuestion ==
  ASSUME QuestionInv, AbsenceIsObserved, history \in Histories, [Next]_vars
  PROVE  QuestionInv' /\ AbsenceIsObserved'
<1>1. CASE IndexStep \/ \E r \in Resources : Happen(r)
  BY <1>1, IndexQuestion
<1>2. CASE \E q \in Questions[history] : Ask(q)
  BY <1>2, AskQuestion
<1>3. CASE Search \/ Answer \/ AnswerLive
  <2>1. question # NoQuestion
    BY <1>3 DEF Search, SearchVector, SearchBm25, SearchGraph, LookUpFact, LookUpApprovals, Answer,
       AnswerLive, QuestionInv
  <2>2. UNCHANGED <<history, recorded, question, sure>>
    BY <1>3 DEF Search, SearchVector, SearchBm25, SearchGraph, LookUpFact, LookUpApprovals, Answer,
       AnswerLive, index
  <2>3. QuestionInv'
    BY <2>1, <2>2 DEF QuestionInv, Approves
  <2>4. CASE SearchGraph
    BY <2>3, <2>4, SearchGraphQuestion
  <2>5. CASE UNCHANGED graph
    BY <2>2, <2>3, <2>5 DEF AbsenceIsObserved, ForPayment
  <2> QED BY <1>3, <2>4, <2>5 DEF Search, SearchVector, SearchBm25, LookUpFact, LookUpApprovals,
             Answer, AnswerLive
<1>4. CASE UNCHANGED vars
  BY <1>4 DEF vars, index, asked, QuestionInv, AbsenceIsObserved, ForPayment, Approves
<1> QED BY <1>1, <1>2, <1>3, <1>4 DEF Next

\* AbsenceIsObserved: the prompt says that there is no matching record only when a query has
\* been run, and a planned query for a payment's approval only when the approval was not in
\* the graph as the question came.
THEOREM AbsenceIsNotAssumed == Spec => []AbsenceIsObserved
<1> DEFINE Inv == QuestionInv /\ AbsenceIsObserved /\ history \in Histories
<1>1. Init => Inv
  BY InitQuestion DEF Init
<1>2. ASSUME Inv, [Next]_vars PROVE Inv'
  <2>1. history' = history
    BY <1>2 DEF Next, IndexStep, Happen, RecordEvent, StoreEvent, RecordFact, StoreFact, Ask,
       Search, SearchVector, SearchBm25, SearchGraph, LookUpFact, LookUpApprovals, Answer,
       AnswerLive, vars
  <2> QED BY <1>2, <2>1, NextQuestion
<1> QED BY <1>1, <1>2, PTL DEF Spec

-----------------------------------------------------------------------------
(* Folds.  FoldLeft folds the positions of a sequence by their greatest    *)
(* one: a function on the sets of positions that calls itself on the set   *)
(* without it.                                                             *)

\* Induction with the set of the numbers that are good.
LEMMA UpFrom ==
  ASSUME NEW P, 0 \in P, \A k \in Nat : k \in P => k + 1 \in P
  PROVE  Nat \subseteq P
<1>1. SUFFICES ASSUME Nat \ P # {} PROVE FALSE
  OBVIOUS
<1>2. PICK x \in Nat \ P : \A y \in Nat \ P : ~(y < x)
  <2>1. Nat \ P \subseteq Nat
    OBVIOUS
  <2>2. PICK x \in Nat \ P : \A y \in Nat \ P : <<y, x>> \notin OpToRel(<, Nat)
    BY <1>1, <2>1, NatLessThanWellFounded, WFMin
  <2>3. \A y \in Nat \ P : ~(y < x)
    BY <2>2 DEF OpToRel
  <2> QED BY <2>3
<1>3. x - 1 \in Nat /\ x - 1 < x /\ x = (x - 1) + 1
  BY <1>2
<1>4. x - 1 \in P
  BY <1>2, <1>3
<1> QED BY <1>2, <1>3, <1>4

\* The greatest of some numbers up to n.
LEMMA MaxIn ==
  ASSUME NEW n \in Nat, NEW S \in SUBSET (1..n), S # {}
  PROVE  Max(S) \in S /\ \A y \in S : y <= Max(S)
<1> DEFINE P == {k \in Nat : \A T \in SUBSET (1..k) : T # {} => \E x \in T : \A y \in T : x >= y}
<1>1. 0 \in P
  <2>1. 1..0 = {}
    OBVIOUS
  <2> QED BY <2>1
<1>2. ASSUME NEW k \in Nat, k \in P PROVE k + 1 \in P
  <2> SUFFICES ASSUME NEW T \in SUBSET (1..(k + 1)), T # {}
               PROVE  \E x \in T : \A y \in T : x >= y
    OBVIOUS
  <2>1. CASE k + 1 \in T
    BY <2>1
  <2>2. CASE k + 1 \notin T
    <3>1. T \in SUBSET (1..k)
      BY <2>2
    <3> QED BY <1>2, <3>1
  <2> QED BY <2>1, <2>2
<1>3. n \in P
  <2> HIDE DEF P
  <2> QED BY <1>1, <1>2, UpFrom
<1>4. \E x \in S : \A y \in S : x >= y
  BY <1>3
<1>5. \A x \in S : x \in Int
  OBVIOUS
<1> QED BY <1>4, <1>5 DEF Max

\* Induction over the sets of positions, with the set of those that are good.
LEMMA WithoutGreatest ==
  ASSUME NEW n \in Nat, NEW P, {} \in P,
         \A s \in SUBSET (1..n) : s # {} /\ s \ {Max(s)} \in P => s \in P
  PROVE  SUBSET (1..n) \subseteq P
<1> DEFINE Q == {k \in Nat : \A s \in SUBSET (1..n) : s \subseteq 1..k => s \in P}
<1>1. 0 \in Q
  <2>1. \A s \in SUBSET (1..n) : s \subseteq 1..0 => s = {}
    OBVIOUS
  <2>2. \A s \in SUBSET (1..n) : s \subseteq 1..0 => s \in P
    BY <2>1
  <2> QED BY <2>2
<1>2. ASSUME NEW k \in Nat, k \in Q PROVE k + 1 \in Q
  <2> SUFFICES ASSUME NEW s \in SUBSET (1..n), s \subseteq 1..(k + 1) PROVE s \in P
    OBVIOUS
  <2>1. CASE s = {}
    BY <2>1
  <2>2. CASE s # {}
    <3>1. Max(s) \in s /\ \A y \in s : y <= Max(s)
      BY <2>2, MaxIn
    <3>2. s \ {Max(s)} \in SUBSET (1..n) /\ s \ {Max(s)} \subseteq 1..k
      <4> DEFINE m == Max(s)
      <4>1. m \in 1..(k + 1)
        BY <3>1
      <4> HIDE DEF m
      <4>2. ASSUME NEW y \in s, y # m PROVE y \in 1..k
        <5>1. y \in 1..(k + 1) /\ y <= m
          BY <3>1 DEF m
        <5> QED BY <4>1, <4>2, <5>1
      <4>3. s \ {m} \in SUBSET (1..n) /\ s \ {m} \subseteq 1..k
        BY <4>2
      <4> QED BY <4>3 DEF m
    <3> QED BY <1>2, <2>2, <3>2
  <2> QED BY <2>1, <2>2
<1>3. n \in Q
  <2> HIDE DEF Q
  <2> QED BY <1>1, <1>2, UpFrom
<1> QED BY <1>3

\* A function that folds the elements of H with F.
Folds(g, n, base, F, H) ==
  g = [s \in SUBSET (1..n) |->
         IF s = {} THEN base ELSE F[<<g[s \ {Max(s)}], H[Max(s)]>>]]

LEMMA FoldExists ==
  ASSUME NEW n \in Nat, NEW base, NEW F, NEW H
  PROVE  \E g : Folds(g, n, base, F, H)
<1> DEFINE P == {k \in Nat : \E g : Folds(g, k, base, F, H)}
<1>1. 0 \in P
  <2> DEFINE g == [s \in SUBSET (1..0) |-> base]
  <2>1. \A s \in SUBSET (1..0) : s = {}
    OBVIOUS
  <2>2. Folds(g, 0, base, F, H)
    BY <2>1 DEF Folds
  <2> QED BY <2>2
<1>2. ASSUME NEW k \in Nat, k \in P PROVE k + 1 \in P
  <2>1. PICK g : Folds(g, k, base, F, H)
    BY <1>2
  <2> DEFINE h == [s \in SUBSET (1..(k + 1)) |->
                     IF k + 1 \in s THEN F[<<g[s \ {k + 1}], H[k + 1]>>] ELSE g[s]]
  <2>2. ASSUME NEW s \in SUBSET (1..(k + 1))
        PROVE  h[s] = IF s = {} THEN base ELSE F[<<h[s \ {Max(s)}], H[Max(s)]>>]
    <3>1. CASE s = {}
      BY <2>1, <3>1 DEF Folds
    <3>2. CASE k + 1 \in s
      <4>1. Max(s) = k + 1
        <5> DEFINE m == Max(s)
        <5>1. k + 1 \in Nat /\ s # {}
          BY <3>2
        <5>2. m \in s /\ \A y \in s : y <= m
          BY <5>1, MaxIn
        <5> HIDE DEF m
        <5>3. m \in 1..(k + 1) /\ k + 1 <= m
          BY <3>2, <5>2
        <5>4. m = k + 1
          BY <5>3
        <5> QED BY <5>4 DEF m
      <4>2. s \ {k + 1} \in SUBSET (1..(k + 1)) /\ k + 1 \notin s \ {k + 1}
        OBVIOUS
      <4>3. h[s \ {k + 1}] = g[s \ {k + 1}]
        BY <4>2
      <4> QED BY <3>2, <4>1, <4>3
    <3>3. CASE s # {} /\ k + 1 \notin s
      <4>1. s \in SUBSET (1..k)
        BY <3>3
      <4>2. Max(s) \in s
        BY <3>3, <4>1, MaxIn
      <4>3. s \ {Max(s)} \in SUBSET (1..(k + 1)) /\ k + 1 \notin s \ {Max(s)}
        BY <3>3
      <4>4. h[s \ {Max(s)}] = g[s \ {Max(s)}]
        BY <4>3
      <4>5. g[s] = F[<<g[s \ {Max(s)}], H[Max(s)]>>]
        BY <2>1, <3>3, <4>1 DEF Folds
      <4> QED BY <3>3, <4>4, <4>5
    <3> QED BY <3>1, <3>2, <3>3
  <2>3. Folds(h, k + 1, base, F, H)
    <3>1. h = [s \in SUBSET (1..(k + 1)) |-> h[s]]
      OBVIOUS
    <3> HIDE DEF h
    <3> QED BY <2>2, <3>1 DEF Folds
  <2> QED BY <2>3
<1>3. n \in P
  <2> HIDE DEF P
  <2> QED BY <1>1, <1>2, UpFrom
<1> QED BY <1>3

LEMMA FoldType ==
  ASSUME NEW A, NEW B, NEW n \in Nat, NEW H \in [1..n -> B], NEW base \in A,
         NEW F \in [A \X B -> A], NEW g, Folds(g, n, base, F, H)
  PROVE  g \in [SUBSET (1..n) -> A]
<1> DEFINE P == {s \in SUBSET (1..n) : g[s] \in A}
<1>1. {} \in P
  BY DEF Folds
<1>2. ASSUME NEW s \in SUBSET (1..n), s # {}, s \ {Max(s)} \in P
      PROVE  s \in P
  <2>1. Max(s) \in 1..n
    BY <1>2, MaxIn
  <2>2. <<g[s \ {Max(s)}], H[Max(s)]>> \in A \X B
    BY <1>2, <2>1
  <2> QED BY <1>2, <2>2 DEF Folds
<1>3. SUBSET (1..n) \subseteq P
  <2> HIDE DEF P
  <2> QED BY <1>1, <1>2, WithoutGreatest
<1>4. g = [s \in SUBSET (1..n) |-> g[s]]
  BY DEF Folds
<1> QED BY <1>3, <1>4

\* What the hits say of a payment is taken one after the other.
PaymentTaken(base, hits) == FoldLeft(TakeForPayment, base, hits)

PaymentFolding(A, B, n, H, base) ==
  /\ n \in Nat /\ H \in [1..n -> B] /\ base \in A
  /\ \A a \in A, h \in B : TakeForPayment(a, h) \in A

PaymentFolded(A, n, H, base) ==
  \E g \in [SUBSET (1..n) -> A] :
    /\ g[{}] = base
    /\ \A s \in SUBSET (1..n) : s # {} => g[s] = TakeForPayment(g[s \ {Max(s)}], H[Max(s)])
    /\ PaymentTaken(base, H) = g[1..n]

LEMMA PaymentFold ==
  ASSUME NEW A, NEW B, NEW n, NEW H, NEW base, PaymentFolding(A, B, n, H, base)
  PROVE  PaymentFolded(A, n, H, base)
<1>a. /\ n \in Nat /\ H \in [1..n -> B] /\ base \in A
      /\ \A a \in A, h \in B : TakeForPayment(a, h) \in A
  BY DEF PaymentFolding
<1> DEFINE F == [p \in A \X B |-> TakeForPayment(p[1], p[2])]
<1>1. F \in [A \X B -> A] /\ \A a \in A, h \in B : F[<<a, h>>] = TakeForPayment(a, h)
  BY <1>a
<1> HIDE DEF F
<1>2. PICK f : Folds(f, n, base, F, H)
  BY <1>a, FoldExists
<1>3. f \in [SUBSET (1..n) -> A]
  BY <1>a, <1>1, <1>2, FoldType
<1>4. f = [s \in SUBSET DOMAIN H |->
             IF s = {} THEN base ELSE TakeForPayment(f[s \ {Max(s)}], H[Max(s)])]
  <2>1. ASSUME NEW s \in SUBSET (1..n), s # {}
        PROVE  F[<<f[s \ {Max(s)}], H[Max(s)]>>] = TakeForPayment(f[s \ {Max(s)}], H[Max(s)])
    <3>1. Max(s) \in 1..n
      BY <1>a, <2>1, MaxIn
    <3>2. f[s \ {Max(s)}] \in A /\ H[Max(s)] \in B
      BY <1>a, <1>3, <3>1
    <3> QED BY <1>1, <3>2
  <2>2. DOMAIN H = 1..n
    BY <1>a
  <2> QED BY <1>2, <2>1, <2>2 DEF Folds
<1> DEFINE g == CHOOSE g : g = [s \in SUBSET DOMAIN H |->
                  IF s = {} THEN base ELSE TakeForPayment(g[s \ {Max(s)}], H[Max(s)])]
<1>5. PaymentTaken(base, H) = g[DOMAIN H]
  BY DEF PaymentTaken, FoldLeft, MapThenFoldSet
<1>6. g = [s \in SUBSET DOMAIN H |->
             IF s = {} THEN base ELSE TakeForPayment(g[s \ {Max(s)}], H[Max(s)])]
  BY <1>4
<1> HIDE DEF g
<1> DEFINE P == {s \in SUBSET (1..n) : g[s] \in A}
<1>7. DOMAIN H = 1..n
  BY <1>a
<1>8. {} \in P /\ g[{}] = base
  BY <1>a, <1>6, <1>7
<1>9. ASSUME NEW s \in SUBSET (1..n), s # {}
      PROVE  g[s] = TakeForPayment(g[s \ {Max(s)}], H[Max(s)])
  BY <1>6, <1>7, <1>9
<1>10. ASSUME NEW s \in SUBSET (1..n), s # {}, s \ {Max(s)} \in P
       PROVE  s \in P
  <2>1. Max(s) \in 1..n
    BY <1>a, <1>10, MaxIn
  <2> QED BY <1>a, <1>9, <1>10, <2>1
<1>11. SUBSET (1..n) \subseteq P
  <2> HIDE DEF P
  <2> QED BY <1>a, <1>8, <1>10, WithoutGreatest
<1>12. g \in [SUBSET (1..n) -> A]
  BY <1>6, <1>7, <1>11
<1> QED BY <1>5, <1>7, <1>8, <1>9, <1>12 DEF PaymentFolded

\* ... and what they say of an instruction.
InstructionTaken(base, hits) == FoldLeft(TakeForInstruction, base, hits)

InstructionFolding(A, B, n, H, base) ==
  /\ n \in Nat /\ H \in [1..n -> B] /\ base \in A
  /\ \A a \in A, h \in B : TakeForInstruction(a, h) \in A

InstructionFolded(A, n, H, base) ==
  \E g \in [SUBSET (1..n) -> A] :
    /\ g[{}] = base
    /\ \A s \in SUBSET (1..n) : s # {} => g[s] = TakeForInstruction(g[s \ {Max(s)}], H[Max(s)])
    /\ InstructionTaken(base, H) = g[1..n]

LEMMA InstructionFold ==
  ASSUME NEW A, NEW B, NEW n, NEW H, NEW base, InstructionFolding(A, B, n, H, base)
  PROVE  InstructionFolded(A, n, H, base)
<1>a. /\ n \in Nat /\ H \in [1..n -> B] /\ base \in A
      /\ \A a \in A, h \in B : TakeForInstruction(a, h) \in A
  BY DEF InstructionFolding
<1> DEFINE F == [p \in A \X B |-> TakeForInstruction(p[1], p[2])]
<1>1. F \in [A \X B -> A] /\ \A a \in A, h \in B : F[<<a, h>>] = TakeForInstruction(a, h)
  BY <1>a
<1> HIDE DEF F
<1>2. PICK f : Folds(f, n, base, F, H)
  BY <1>a, FoldExists
<1>3. f \in [SUBSET (1..n) -> A]
  BY <1>a, <1>1, <1>2, FoldType
<1>4. f = [s \in SUBSET DOMAIN H |->
             IF s = {} THEN base ELSE TakeForInstruction(f[s \ {Max(s)}], H[Max(s)])]
  <2>1. ASSUME NEW s \in SUBSET (1..n), s # {}
        PROVE  F[<<f[s \ {Max(s)}], H[Max(s)]>>] = TakeForInstruction(f[s \ {Max(s)}], H[Max(s)])
    <3>1. Max(s) \in 1..n
      BY <1>a, <2>1, MaxIn
    <3>2. f[s \ {Max(s)}] \in A /\ H[Max(s)] \in B
      BY <1>a, <1>3, <3>1
    <3> QED BY <1>1, <3>2
  <2>2. DOMAIN H = 1..n
    BY <1>a
  <2> QED BY <1>2, <2>1, <2>2 DEF Folds
<1> DEFINE g == CHOOSE g : g = [s \in SUBSET DOMAIN H |->
                  IF s = {} THEN base ELSE TakeForInstruction(g[s \ {Max(s)}], H[Max(s)])]
<1>5. InstructionTaken(base, H) = g[DOMAIN H]
  BY DEF InstructionTaken, FoldLeft, MapThenFoldSet
<1>6. g = [s \in SUBSET DOMAIN H |->
             IF s = {} THEN base ELSE TakeForInstruction(g[s \ {Max(s)}], H[Max(s)])]
  BY <1>4
<1> HIDE DEF g
<1> DEFINE P == {s \in SUBSET (1..n) : g[s] \in A}
<1>7. DOMAIN H = 1..n
  BY <1>a
<1>8. {} \in P /\ g[{}] = base
  BY <1>a, <1>6, <1>7
<1>9. ASSUME NEW s \in SUBSET (1..n), s # {}
      PROVE  g[s] = TakeForInstruction(g[s \ {Max(s)}], H[Max(s)])
  BY <1>6, <1>7, <1>9
<1>10. ASSUME NEW s \in SUBSET (1..n), s # {}, s \ {Max(s)} \in P
       PROVE  s \in P
  <2>1. Max(s) \in 1..n
    BY <1>a, <1>10, MaxIn
  <2> QED BY <1>a, <1>9, <1>10, <2>1
<1>11. SUBSET (1..n) \subseteq P
  <2> HIDE DEF P
  <2> QED BY <1>a, <1>8, <1>10, WithoutGreatest
<1>12. g \in [SUBSET (1..n) -> A]
  BY <1>6, <1>7, <1>11
<1> QED BY <1>5, <1>7, <1>8, <1>9, <1>12 DEF InstructionFolded

-----------------------------------------------------------------------------
(* The answer, from the hits it is taken from.                             *)

Row(V) == [approver : V, summary : BOOLEAN, basis : BOOLEAN]

Taken(V) == [approver : V, summary : BOOLEAN, basis : BOOLEAN, done : BOOLEAN]

\* A hit about the payment names one of V.
NamesOne(V, p, h) == h.of = p => IF h.event THEN h.actor \in V ELSE h.approver \in V

LEMMA StartTaken ==
  ASSUME NEW V, graph.row \in Row(V)
  PROVE  Start \in Taken(V) /\ Start.approver = graph.row.approver /\ Start.done = FALSE
BY DEF Start, Row, Taken

\* Whom a payment's answer names is one the hits name, or the graph.
LEMMA PaymentNamed ==
  ASSUME NEW V, Nobody \in V, NEW B, NEW n \in Nat, NEW hits \in [1..n -> B], ForPayment,
         graph.row \in Row(V), \A h \in B : NamesOne(V, question.about, h)
  PROVE  Named(hits) \in V
<1> DEFINE A == Taken(V)
<1>1. ASSUME NEW a \in A, NEW h \in B PROVE TakeForPayment(a, h) \in A
  <2>1. CASE a.done \/ h.of # question.about
    BY <2>1 DEF TakeForPayment
  <2>2. CASE ~a.done /\ h.of = question.about
    <3> DEFINE who     == IF h.event THEN Or(h.actor, a.approver) ELSE Or(a.approver, h.approver)
               summary == a.summary \/ (h.event /\ h.summary)
               basis   == a.basis \/ (h.event /\ h.basis)
               done    == who # Nobody /\ summary /\ basis
    <3>1. who \in V
      BY <2>2 DEF NamesOne, Or, Taken
    <3>2. summary \in BOOLEAN /\ basis \in BOOLEAN /\ done \in BOOLEAN
      OBVIOUS
    <3>3. TakeForPayment(a, h) = [approver |-> who, summary |-> summary, basis |-> basis,
                                  done |-> done]
      BY <2>2 DEF TakeForPayment
    <3> HIDE DEF who, summary, basis, done
    <3> QED BY <3>1, <3>2, <3>3 DEF Taken
  <2> QED BY <2>1, <2>2
<1>2. Start \in A
  BY StartTaken
<1>3. PaymentTaken(Start, hits) \in A
  <2> HIDE DEF A
  <2>1. PICK g \in [SUBSET (1..n) -> A] : PaymentTaken(Start, hits) = g[1..n]
    <3>1. PaymentFolding(A, B, n, hits, Start)
      BY <1>1, <1>2 DEF PaymentFolding
    <3>2. PaymentFolded(A, n, hits, Start)
      BY <3>1, PaymentFold
    <3> QED BY <3>2 DEF PaymentFolded
  <2> QED BY <2>1
<1>4. LET acc == PaymentTaken(Start, hits) IN
      Named(hits) = IF acc.summary \/ acc.basis THEN acc.approver ELSE Nobody
  BY DEF Named, PaymentTaken
<1> QED BY <1>3, <1>4 DEF Taken

\* Whom an instruction's answer names is one of G when the first hit has one and the graph
\* names nobody else: later hits do not replace it.
LEMMA InstructionNamed ==
  ASSUME NEW G, Nobody \notin G, NEW B, NEW n \in Nat \ {0}, NEW hits \in [1..n -> B],
         ~ForPayment, question.asks # "through",
         graph.row \in Row(G \cup {Nobody}), hits[1].approver \in G
  PROVE  Named(hits) \in G \cup {Nobody}
<1> DEFINE V == G \cup {Nobody} \cup {h.approver : h \in B} \cup {h.actor : h \in B}
           A == Taken(V)
<1>1. ASSUME NEW a \in A, NEW h \in B
      PROVE  /\ TakeForInstruction(a, h) \in A
             /\ a.approver \in G => TakeForInstruction(a, h).approver \in G
             /\ a.approver \in G \cup {Nobody} /\ ~a.done /\ h.approver \in G
                  => TakeForInstruction(a, h).approver \in G
  <2>1. CASE a.done
    BY <2>1 DEF TakeForInstruction
  <2>2. CASE ~a.done
    <3> DEFINE who == Or(a.approver, Or(h.approver, h.actor))
               summary == a.summary \/ h.summary
    <3>1. who \in V
      BY DEF Or, Taken
    <3>2. a.approver \in G => who \in G
      BY DEF Or
    <3>3. a.approver \in G \cup {Nobody} /\ h.approver \in G => who \in G
      BY DEF Or
    <3>4. TakeForInstruction(a, h) =
            [a EXCEPT !.approver = who, !.summary = summary, !.done = summary]
      BY <2>2 DEF TakeForInstruction
    <3>5. summary \in BOOLEAN
      OBVIOUS
    <3> HIDE DEF who, summary, V
    <3> QED BY <3>1, <3>2, <3>3, <3>4, <3>5 DEF Taken
  <2> QED BY <2>1, <2>2
<1>2. Start \in A /\ Start.approver \in G \cup {Nobody} /\ Start.done = FALSE
  <2>1. graph.row \in Row(V) /\ graph.row.approver \in G \cup {Nobody}
    BY DEF Row
  <2> QED BY <2>1, StartTaken
<1> HIDE DEF A, V
<1>3. PICK g \in [SUBSET (1..n) -> A] :
        /\ g[{}] = Start
        /\ \A s \in SUBSET (1..n) :
             s # {} => g[s] = TakeForInstruction(g[s \ {Max(s)}], hits[Max(s)])
        /\ InstructionTaken(Start, hits) = g[1..n]
  <2>1. InstructionFolding(A, B, n, hits, Start)
    BY <1>1, <1>2 DEF InstructionFolding
  <2>2. InstructionFolded(A, n, hits, Start)
    BY <2>1, InstructionFold
  <2> QED BY <2>2 DEF InstructionFolded
<1> DEFINE P == {s \in SUBSET (1..n) : 1 \in s => g[s].approver \in G}
<1>4. {} \in P
  OBVIOUS
<1>5. ASSUME NEW s \in SUBSET (1..n), s # {}, s \ {Max(s)} \in P
      PROVE  s \in P
  <2>1. SUFFICES ASSUME 1 \in s PROVE g[s].approver \in G
    OBVIOUS
  <2>2. Max(s) \in s /\ \A y \in s : y <= Max(s)
    BY <1>5, MaxIn
  <2>3. g[s] = TakeForInstruction(g[s \ {Max(s)}], hits[Max(s)]) /\ g[s \ {Max(s)}] \in A
        /\ hits[Max(s)] \in B
    BY <1>3, <1>5, <2>2
  <2>4. CASE Max(s) = 1
    <3>1. s \ {Max(s)} = {}
      BY <2>2, <2>4
    <3> QED BY <1>1, <1>2, <1>3, <2>3, <2>4, <3>1
  <2>5. CASE Max(s) # 1
    <3>1. g[s \ {Max(s)}].approver \in G
      BY <1>5, <2>1, <2>5
    <3> QED BY <1>1, <2>3, <3>1
  <2> QED BY <2>4, <2>5
<1>6. SUBSET (1..n) \subseteq P
  <2> HIDE DEF P
  <2> QED BY <1>4, <1>5, WithoutGreatest
<1>7. g[1..n].approver \in G
  BY <1>6
<1>8. LET acc == InstructionTaken(Start, hits) IN
      Named(hits) = IF acc.summary THEN acc.approver ELSE Nobody
  BY DEF Named, InstructionTaken
<1> QED BY <1>3, <1>7, <1>8

-----------------------------------------------------------------------------
(* What is indexed is behind what has happened, and names nobody who has   *)
(* not approved.                                                           *)

Who == STRING \cup {Nobody}

Hit == [key : Resources \X Nat, of : Resources, event : BOOLEAN, approver : Who, actor : Who,
        summary : BOOLEAN, basis : BOOLEAN]

IndexInv ==
  /\ history \in Histories
  /\ happened \in [Resources -> Nat]
  /\ recorded \in [Resources -> SUBSET Nat] /\ points \in [Resources -> SUBSET Nat]
  /\ facts \in [Resources -> SUBSET Nat]
  /\ payload \in [Resources -> [fact : Nat, approver : Who]]
  /\ \A r \in Resources :
       /\ happened[r] <= Len(history[r])
       /\ recorded[r] \subseteq 1..happened[r] /\ points[r] \subseteq 1..happened[r]
       /\ facts[r] \subseteq 1..happened[r] /\ \A n \in facts[r] : history[r][n].ok
       /\ payload[r].fact \in facts[r] \cup {0}
       /\ payload[r].approver \in Approvers(r) \cup {Nobody}
       /\ payload[r].fact = 0 => payload[r].approver = Nobody

\* The values of a function on a finite set.
LEMMA FiniteImage ==
  ASSUME NEW S, IsFiniteSet(S), NEW f
  PROVE  IsFiniteSet({f[x] : x \in S})
<1> DEFINE T == {f[x] : x \in S}
           g == [x \in S |-> f[x]]
<1>1. g \in Surjection(S, T)
  BY DEF Surjection
<1> QED BY <1>1, FS_Surjection

LEMMA HappenedStep ==
  ASSUME IndexInv, NEW r \in Resources, NEW n \in 1..happened[r]
  PROVE  history[r][n] \in Step
<1>1. history[r] \in Seq(Step)
  BY ChatAssumption DEF IndexInv
<1>2. n \in 1..Len(history[r])
  BY <1>1 DEF IndexInv
<1> QED BY <1>1, <1>2

LEMMA ApproversAreUsers ==
  ASSUME IndexInv, NEW r \in Resources
  PROVE  Approvers(r) \subseteq STRING \ {Nobody}
BY HappenedStep DEF Approvers, Step

\* approved_by of a snapshot is somebody who has approved, and is there after an approval.
LEMMA ApprovedByApprover ==
  ASSUME IndexInv, NEW r \in Resources, NEW n \in 1..happened[r]
  PROVE  /\ ApprovedBy(r, n) \in Approvers(r) \cup {Nobody}
         /\ Approves(r, n) => ApprovedBy(r, n) \in Approvers(r)
<1> DEFINE ms == {m \in 1..n : Approves(r, m)}
<1>1. CASE ms = {}
  <2>1. ~Approves(r, n)
    BY <1>1
  <2> QED BY <1>1, <2>1 DEF ApprovedBy
<1>2. CASE ms # {}
  <2>1. Max(ms) \in ms
    <3>1. n \in Nat /\ ms \in SUBSET (1..n)
      BY DEF IndexInv
    <3> HIDE DEF ms
    <3> QED BY <1>2, <3>1, MaxIn
  <2>2. Max(ms) \in 1..happened[r] /\ Approves(r, Max(ms))
    BY <2>1 DEF IndexInv
  <2>3. history[r][Max(ms)].user \in Approvers(r)
    BY <2>2 DEF Approvers
  <2>4. ApprovedBy(r, n) = history[r][Max(ms)].user
    BY <1>2 DEF ApprovedBy
  <2> QED BY <2>3, <2>4
<1> QED BY <1>1, <1>2

LEMMA EventHitType ==
  ASSUME IndexInv, NEW r \in Resources, NEW n \in 1..happened[r]
  PROVE  /\ EventHit(r, n) \in Hit /\ EventHit(r, n).of = r /\ EventHit(r, n).event = TRUE
         /\ EventHit(r, n).actor = history[r][n].user
<1>1. history[r][n] \in Step /\ n \in Nat
  BY HappenedStep DEF IndexInv
<1>2. ApprovedBy(r, n) \in Who /\ Nobody \in Who
  BY ApprovedByApprover, ApproversAreUsers DEF Who
<1> DEFINE approver == IF r = Instruction THEN ApprovedBy(r, n) ELSE Nobody
<1>3. approver \in Who
  BY <1>2
<1>4. EventHit(r, n) =
        [key |-> <<r, n>>, of |-> r, event |-> TRUE, actor |-> history[r][n].user,
         summary |-> TRUE, approver |-> approver, basis |-> history[r][n].ok]
  BY DEF EventHit
<1> HIDE DEF approver
<1> QED BY <1>1, <1>3, <1>4 DEF Hit, Step, Who

LEMMA FactHitType ==
  ASSUME IndexInv, NEW r \in Stored
  PROVE  /\ FactHit(r) \in Hit /\ FactHit(r).of = r /\ FactHit(r).event = FALSE
         /\ FactHit(r).approver = payload[r].approver
<1>1. r \in Resources /\ payload[r].fact \in 1..happened[r] /\ payload[r].approver \in Who
  BY DEF Stored, IndexInv
<1>2. history[r][payload[r].fact] \in Step
  BY <1>1, HappenedStep
<1> DEFINE actor == IF r = Instruction THEN history[r][payload[r].fact].user ELSE Nobody
<1>3. actor \in Who
  BY <1>2 DEF Step, Who
<1>4. FactHit(r) =
        [key |-> <<Instruction, 0>>, of |-> r, event |-> FALSE, approver |-> payload[r].approver,
         actor |-> actor, summary |-> r = Instruction, basis |-> r = Instruction]
  BY DEF FactHit
<1>5. (r = Instruction) \in BOOLEAN /\ Instruction \in Resources
  BY DEF Resources
<1> HIDE DEF actor
<1> QED BY <1>1, <1>3, <1>4, <1>5 DEF Hit

\* What a search may find: in Payments mode only facts of payments, with an approver if any.
LEMMA SearchedType ==
  ASSUME IndexInv, NEW mode \in Modes
  PROVE  /\ Searched(mode) \subseteq Hit /\ IsFiniteSet(Searched(mode))
         /\ mode = "payments" => \A h \in Searched(mode) : \A p \in Resources :
              NamesOne(Approvers(p) \cup {Nobody}, p, h)
<1>1. EventHits \subseteq Hit
  <2>1. ASSUME NEW r \in Resources, NEW rn \in {r} \X points[r]
        PROVE  EventHit(rn[1], rn[2]) \in Hit
    <3>1. rn[1] = r /\ rn[2] \in 1..happened[r]
      BY DEF IndexInv
    <3> QED BY <3>1, EventHitType
  <2> QED BY <2>1 DEF EventHits
<1>2. {FactHit(r) : r \in Stored} \subseteq Hit
  BY FactHitType
<1>3. IsFiniteSet(Resources)
  BY ChatAssumption, FS_Singleton, FS_Union DEF Resources
<1>4. IsFiniteSet(EventHits)
  <2>1. ASSUME NEW r \in Resources PROVE IsFiniteSet({r} \X points[r])
    <3>1. IsFiniteSet(1..happened[r])
      BY FS_Interval DEF IndexInv
    <3>2. IsFiniteSet(points[r]) /\ IsFiniteSet({r})
      BY <3>1, FS_Subset, FS_Singleton DEF IndexInv
    <3> QED BY <3>2, FS_Product
  <2> DEFINE All == {{r} \X points[r] : r \in Resources}
  <2>2. IsFiniteSet(All)
    <3> DEFINE f == [r \in Resources |-> {r} \X points[r]]
    <3>1. All = {f[r] : r \in Resources}
      OBVIOUS
    <3> HIDE DEF f, All
    <3> QED BY <1>3, <3>1, FiniteImage
  <2>3. \A S \in All : IsFiniteSet(S)
    BY <2>1
  <2> HIDE DEF All
  <2>4. IsFiniteSet(UNION All)
    BY <2>2, <2>3, FS_UNION
  <2> DEFINE f == [rn \in UNION All |-> EventHit(rn[1], rn[2])]
  <2>5. EventHits = {EventHit(rn[1], rn[2]) : rn \in UNION All}
    BY DEF EventHits, All
  <2>6. EventHits = {f[rn] : rn \in UNION All}
    BY <2>5
  <2> HIDE DEF f
  <2> QED BY <2>4, <2>6, FiniteImage
<1>5. \A S \in SUBSET Stored : IsFiniteSet({FactHit(r) : r \in S})
  <2> SUFFICES ASSUME NEW S \in SUBSET Stored PROVE IsFiniteSet({FactHit(r) : r \in S})
    OBVIOUS
  <2>1. IsFiniteSet(S)
    BY <1>3, FS_Subset DEF Stored
  <2> DEFINE f == [r \in S |-> FactHit(r)]
  <2>2. {FactHit(r) : r \in S} = {f[r] : r \in S}
    OBVIOUS
  <2> HIDE DEF f
  <2> QED BY <2>1, <2>2, FiniteImage
<1>6. Searched(mode) \subseteq Hit
  BY <1>1, <1>2 DEF Searched, Modes
<1>7. IsFiniteSet(Searched(mode))
  <2>1. CASE mode = "events"
    BY <1>4, <2>1 DEF Searched
  <2>2. CASE mode = "instructions"
    <3>1. Stored \cap {Instruction} \in SUBSET Stored
      OBVIOUS
    <3> QED BY <1>5, <2>2, <3>1 DEF Searched
  <2>3. CASE mode = "payments"
    <3>1. Stored \cap Payments \in SUBSET Stored
      OBVIOUS
    <3> QED BY <1>5, <2>3, <3>1 DEF Searched
  <2>4. CASE mode = "all"
    <3>1. IsFiniteSet({FactHit(r) : r \in Stored})
      BY <1>5
    <3> QED BY <1>4, <2>4, <3>1, FS_Union DEF Searched
  <2> QED BY <2>1, <2>2, <2>3, <2>4 DEF Modes
<1>8. ASSUME mode = "payments", NEW h \in Searched(mode), NEW p \in Resources
      PROVE  NamesOne(Approvers(p) \cup {Nobody}, p, h)
  <2>1. PICK r \in Stored : h = FactHit(r)
    BY <1>8 DEF Searched
  <2>2. h.of = r /\ h.event = FALSE /\ h.approver = payload[r].approver
    BY <2>1, FactHitType
  <2> QED BY <2>2 DEF NamesOne, IndexInv
<1> QED BY <1>6, <1>7, <1>8

LEMMA InitIndex == Init => IndexInv
<1> SUFFICES ASSUME Init PROVE IndexInv
  OBVIOUS
<1>1. \A r \in Resources : history[r] \in Seq(Step) /\ Len(history[r]) \in Nat
  BY ChatAssumption DEF Init
<1>2. payload \in [Resources -> [fact : Nat, approver : Who]]
  BY DEF Init, Who
<1> QED BY <1>1, <1>2 DEF Init, IndexInv

LEMMA ApproversGrow ==
  ASSUME IndexInv, history' = history, NEW r \in Resources,
         happened'[r] \in Nat, happened'[r] >= happened[r]
  PROVE  /\ Approvers(r) \subseteq Approvers(r)'
         /\ 1..happened[r] \subseteq 1..happened'[r]
<1>1. 1..happened[r] \subseteq 1..happened'[r]
  BY DEF IndexInv
<1> QED BY <1>1 DEF Approvers, Approves

\* The approver an instruction's point is left with, by a fact of any version.
LEMMA KeptApprover ==
  ASSUME IndexInv, NEW r \in Resources, NEW n \in facts[r]
  PROVE  /\ Kept(r, n) \in Approvers(r) \cup {Nobody}
         /\ r = Instruction /\ payload[r].approver \in Approvers(r) => Kept(r, n) \in Approvers(r)
<1>1. n \in 1..happened[r] /\ history[r][n].ok
  BY DEF IndexInv
<1>2. /\ ApprovedBy(r, n) \in Approvers(r) \cup {Nobody}
      /\ history[r][n].act = "APPROVE" => ApprovedBy(r, n) \in Approvers(r)
  BY <1>1, ApprovedByApprover DEF Approves
<1>3. payload[r].approver \in Approvers(r) \cup {Nobody}
  BY DEF IndexInv
<1> QED BY <1>2, <1>3 DEF Kept

\* What is known of the instruction's approver, when it is known.
Known == payload[Instruction].approver \in Approvers(Instruction)

LEMMA HappenIndex ==
  ASSUME IndexInv, NEW r \in Resources, Happen(r)
  PROVE  IndexInv' /\ \A x \in Resources : happened'[x] >= happened[x]
<1>1. /\ happened' = [happened EXCEPT ![r] = @ + 1] /\ happened[r] < Len(history[r])
      /\ UNCHANGED <<history, recorded, points, facts, payload>>
  BY DEF Happen, index
<1>2. \A x \in Resources : Len(history[x]) \in Nat
  BY ChatAssumption DEF IndexInv
<1>3. /\ happened' \in [Resources -> Nat]
      /\ \A x \in Resources : happened'[x] >= happened[x] /\ happened'[x] <= Len(history[x])
  BY <1>1, <1>2 DEF IndexInv
<1>4. ASSUME NEW x \in Resources
      PROVE  Approvers(x) \subseteq Approvers(x)' /\ 1..happened[x] \subseteq 1..happened'[x]
  BY <1>1, <1>3, ApproversGrow
<1>5. ASSUME NEW x \in Resources
      PROVE  /\ recorded'[x] \subseteq 1..happened'[x] /\ points'[x] \subseteq 1..happened'[x]
             /\ facts'[x] \subseteq 1..happened'[x] /\ \A n \in facts'[x] : history'[x][n].ok
             /\ payload'[x].fact \in facts'[x] \cup {0}
             /\ payload'[x].approver \in Approvers(x)' \cup {Nobody}
             /\ payload'[x].fact = 0 => payload'[x].approver = Nobody
  BY <1>1, <1>4 DEF IndexInv
<1> QED BY <1>1, <1>3, <1>5 DEF IndexInv

LEMMA StepIndex ==
  ASSUME IndexInv, IndexStep
  PROVE  IndexInv' /\ happened' = happened /\ (Known => Known')
<1>1. PICK r \in Resources : \E n \in 1..happened[r] :
        RecordEvent(r, n) \/ StoreEvent(r, n) \/ RecordFact(r, n) \/ StoreFact(r, n)
  BY DEF IndexStep
<1>2. PICK n \in 1..happened[r] :
        RecordEvent(r, n) \/ StoreEvent(r, n) \/ RecordFact(r, n) \/ StoreFact(r, n)
  BY <1>1
<1>3. history' = history /\ happened' = happened
  BY <1>2 DEF RecordEvent, StoreEvent, RecordFact, StoreFact
<1>4. \A x \in Resources : Approvers(x)' = Approvers(x)
  BY <1>3 DEF Approvers, Approves
<1>5. n \in Nat
  BY DEF IndexInv
<1>6. CASE UNCHANGED payload
  <2>1. /\ recorded' \in [Resources -> SUBSET Nat] /\ points' \in [Resources -> SUBSET Nat]
        /\ facts' \in [Resources -> SUBSET Nat]
        /\ \A x \in Resources :
             /\ recorded'[x] \subseteq 1..happened[x] /\ points'[x] \subseteq 1..happened[x]
             /\ facts'[x] \subseteq 1..happened[x] /\ \A m \in facts'[x] : history[x][m].ok
             /\ facts[x] \subseteq facts'[x]
    <3>1. CASE RecordEvent(r, n)
      BY <1>5, <3>1 DEF RecordEvent, IndexInv
    <3>2. CASE StoreEvent(r, n)
      BY <1>5, <3>2 DEF StoreEvent, IndexInv
    <3>3. CASE RecordFact(r, n)
      BY <1>5, <3>3 DEF RecordFact, IndexInv
    <3>4. CASE StoreFact(r, n)
      BY <3>4 DEF StoreFact, IndexInv
    <3> QED BY <1>2, <3>1, <3>2, <3>3, <3>4
  <2> QED BY <1>3, <1>4, <1>6, <2>1 DEF IndexInv, Known, Resources
<1>7. CASE StoreFact(r, n)
  <2>1. /\ payload' = [payload EXCEPT ![r] = [fact |-> n, approver |-> Kept(r, n)]]
        /\ n \in facts[r] /\ UNCHANGED <<recorded, points, facts>>
    BY <1>7 DEF StoreFact
  <2>2. /\ Kept(r, n) \in Approvers(r) \cup {Nobody}
        /\ r = Instruction /\ payload[r].approver \in Approvers(r) => Kept(r, n) \in Approvers(r)
    BY <2>1, KeptApprover
  <2>3. Kept(r, n) \in Who
    BY <2>2, ApproversAreUsers DEF Who
  <2>4. [fact |-> n, approver |-> Kept(r, n)] \in [fact : Nat, approver : Who]
    BY <1>5, <2>3
  <2> DEFINE kept == Kept(r, n)
  <2> HIDE DEF kept
  <2>5. payload' \in [Resources -> [fact : Nat, approver : Who]]
    BY <2>1, <2>4 DEF IndexInv
  <2>6. \A x \in Resources :
          /\ payload'[x].fact \in facts[x] \cup {0}
          /\ payload'[x].approver \in Approvers(x) \cup {Nobody}
          /\ payload'[x].fact = 0 => payload'[x].approver = Nobody
    <3> SUFFICES ASSUME NEW x \in Resources
                 PROVE  /\ payload'[x].fact \in facts[x] \cup {0}
                        /\ payload'[x].approver \in Approvers(x) \cup {Nobody}
                        /\ payload'[x].fact = 0 => payload'[x].approver = Nobody
      OBVIOUS
    <3>1. CASE x = r
      <4>1. payload'[x].fact = n /\ payload'[x].approver = Kept(r, n)
        BY <2>1, <3>1 DEF IndexInv
      <4> QED BY <2>1, <2>2, <3>1, <4>1
    <3>2. CASE x # r
      BY <2>1, <3>2 DEF IndexInv
    <3> QED BY <3>1, <3>2
  <2>7. Known => Known'
    <3>1. CASE r = Instruction
      <4>1. payload'[Instruction].approver = Kept(r, n)
        BY <2>1, <3>1 DEF IndexInv
      <4> QED BY <1>4, <2>2, <3>1, <4>1 DEF Known
    <3>2. CASE r # Instruction
      BY <1>4, <2>1, <3>2 DEF Known, IndexInv, Resources
    <3> QED BY <3>1, <3>2
  <2> QED BY <1>3, <1>4, <2>1, <2>5, <2>6, <2>7 DEF IndexInv
<1>8. UNCHANGED payload \/ StoreFact(r, n)
  BY <1>2 DEF RecordEvent, StoreEvent, RecordFact
<1> QED BY <1>3, <1>6, <1>7, <1>8

\* The index keeps up its promises, and what is known and who has approved stay.
LEMMA NextIndex ==
  ASSUME IndexInv, [Next]_vars
  PROVE  /\ IndexInv' /\ history' = history
         /\ \A r \in Resources : Approvers(r) \subseteq Approvers(r)'
         /\ Known => Known'
<1>1. CASE IndexStep
  <2>1. history' = history
    BY <1>1 DEF IndexStep, RecordEvent, StoreEvent, RecordFact, StoreFact
  <2> QED BY <1>1, <2>1, StepIndex DEF Approvers, Approves
<1>2. CASE \E r \in Resources : Happen(r)
  <2>1. history' = history /\ payload' = payload
    BY <1>2 DEF Happen, index
  <2>2. IndexInv' /\ \A x \in Resources : happened'[x] >= happened[x]
    BY <1>2, HappenIndex
  <2>3. \A r \in Resources : happened'[r] \in Nat
    BY <2>2 DEF IndexInv
  <2>4. ASSUME NEW r \in Resources PROVE Approvers(r) \subseteq Approvers(r)'
    BY <2>1, <2>2, <2>3, ApproversGrow
  <2> QED BY <2>1, <2>2, <2>4 DEF Known, Resources
<1>3. CASE UNCHANGED <<history, happened, recorded, points, facts, payload>>
  BY <1>3 DEF IndexInv, Known, Approvers, Approves
<1>4. IndexStep \/ (\E r \in Resources : Happen(r))
        \/ UNCHANGED <<history, happened, recorded, points, facts, payload>>
  BY DEF Next, Ask, Search, SearchVector, SearchBm25, SearchGraph, LookUpFact, LookUpApprovals,
     Answer, AnswerLive, vars, index
<1> QED BY <1>1, <1>2, <1>3, <1>4

-----------------------------------------------------------------------------
(* What the searches of a question have brought.                           *)

\* Of a payment, in its mode, every hit names an approver of it or nobody; so does the row
\* the graph gives for any resource.  V are the approvers of what q is about.
Truthful(q, V, vec, words, ids, row) ==
  /\ q.mode = "payments" => \A h \in vec \cup words : NamesOne(V \cup {Nobody}, q.about, h)
  /\ q.about \in Payments /\ q.asks = "approver" =>
       \A i \in 1..Len(ids) : NamesOne(V \cup {Nobody}, q.about, ids[i])
  /\ q.asks = "approver" => row \in Row(V \cup {Nobody})

\* The question KnownApproverIsNamed is about.
AsksKnown(q, s) ==
  q.asks = "approver" /\ q.about = Instruction /\ q.mode = "instructions" /\ s.state

\* The lookup of its fact is still to come, has failed, or has found the approver, V being
\* those of the instruction.
LooksUp(V, arms, ids) ==
  \/ "fact" \in arms \/ "raise" \in arms
  \/ ids # <<>> /\ ids[1].approver \in V

AnswerInv ==
  /\ question \in Question \cup {NoQuestion}
  /\ vector \subseteq Hit /\ IsFiniteSet(vector) /\ bm25 \subseteq Hit /\ IsFiniteSet(bm25)
  /\ exact \in Seq(Hit)
  /\ question = NoQuestion =>
       /\ pending = {} /\ vector = {} /\ bm25 = {} /\ exact = <<>>
       /\ graph = NoResult /\ answer = NoAnswer
  /\ Truthful(question, Approvers(question.about), vector, bm25, exact, graph.row)
  /\ AsksKnown(question, sure) =>
       Known /\ LooksUp(Approvers(Instruction), pending, exact)

LEMMA QuestionType ==
  ASSUME AnswerInv
  PROVE  question.about \in Resources /\ question.mode \in Modes
BY DEF AnswerInv, Question, NoQuestion, Resources, Modes

LEMMA TruthGrows ==
  ASSUME NEW q, NEW V, NEW W, V \subseteq W, NEW vec, NEW words, NEW ids, NEW row,
         Truthful(q, V, vec, words, ids, row)
  PROVE  Truthful(q, W, vec, words, ids, row)
BY DEF Truthful, NamesOne, Row

LEMMA LookUpGrows ==
  ASSUME NEW V, NEW W, V \subseteq W, NEW arms, NEW ids, LooksUp(V, arms, ids)
  PROVE  LooksUp(W, arms, ids)
BY DEF LooksUp

LEMMA InitAnswer == Init => AnswerInv
<1> SUFFICES ASSUME Init PROVE AnswerInv
  OBVIOUS
<1>1. question = NoQuestion /\ NoQuestion.asks = "nothing" /\ NoQuestion.mode = "all"
  BY DEF Init, NoQuestion
<1>2. Truthful(question, Approvers(question.about), vector, bm25, exact, graph.row)
  BY <1>1 DEF Truthful
<1>3. ~AsksKnown(question, sure)
  BY <1>1 DEF AsksKnown
<1>4. IsFiniteSet({}) /\ <<>> \in Seq(Hit)
  BY FS_EmptySet
<1> QED BY <1>1, <1>2, <1>3, <1>4 DEF Init, AnswerInv

\* The index moves on, the question stays.
LEMMA StayAnswer ==
  ASSUME IndexInv, AnswerInv, [Next]_vars,
         UNCHANGED <<question, vector, bm25, exact, graph, sure>>,
         question = NoQuestion => pending' = pending /\ answer' = answer,
         pending' \cap {"fact", "raise"} = pending \cap {"fact", "raise"}
  PROVE  AnswerInv'
<1>1. /\ \A r \in Resources : Approvers(r) \subseteq Approvers(r)'
      /\ Known => Known'
  BY NextIndex
<1>2. PICK p \in Resources : p = question.about
  BY QuestionType
<1>3. Approvers(question.about) = Approvers(p) /\ Approvers(question.about)' = Approvers(p)'
  BY <1>2
<1>4. Truthful(question, Approvers(p), vector, bm25, exact, graph.row)
  BY <1>3 DEF AnswerInv
<1>5. /\ Approvers(p) \subseteq Approvers(p)'
      /\ Approvers(Instruction) \subseteq Approvers(Instruction)'
  BY <1>1 DEF Resources
<1>6. Truthful(question, Approvers(p)', vector, bm25, exact, graph.row)
  BY <1>4, <1>5, TruthGrows
<1>7. AsksKnown(question, sure) => Known' /\ LooksUp(Approvers(Instruction)', pending, exact)
  BY <1>1, <1>5, LookUpGrows DEF AnswerInv
<1>8. LooksUp(Approvers(Instruction)', pending, exact)
        => LooksUp(Approvers(Instruction)', pending', exact)
  BY DEF LooksUp
<1> QED BY <1>3, <1>6, <1>7, <1>8 DEF AnswerInv

LEMMA AskAnswer ==
  ASSUME IndexInv, AnswerInv, NEW q \in Questions[history], Ask(q)
  PROVE  AnswerInv'
<1>1. /\ question = NoQuestion /\ question' = q /\ q \in Question
      /\ pending' = IF q.asks = "live" THEN {"live"} ELSE
                      {"vector", "bm25", "graph"} \cup (IF HasExact(q) THEN {"fact"} ELSE {})
      /\ sure'.state = (payload[q.about].approver # Nobody)
      /\ UNCHANGED <<history, happened, payload, vector, bm25, exact, graph, answer>>
  BY ChatAssumption DEF Ask, index, IndexInv
<1>2. vector = {} /\ bm25 = {} /\ exact = <<>> /\ graph.row = NoRow
  BY <1>1 DEF AnswerInv, NoResult
<1>3. NoRow \in Row(Approvers(q.about)' \cup {Nobody})
  BY DEF NoRow, Row
<1>4. Truthful(q, Approvers(q.about)', {}, {}, <<>>, NoRow)
  BY <1>3 DEF Truthful
<1>5. q # NoQuestion
  BY <1>1 DEF Question, NoQuestion
<1>6. ASSUME AsksKnown(q, sure') PROVE Known' /\ "fact" \in pending'
  <2>1. payload[Instruction].approver \in Approvers(Instruction)
    BY <1>1, <1>6 DEF AsksKnown, IndexInv, Resources
  <2>2. "fact" \in pending'
    BY <1>1, <1>6 DEF AsksKnown, HasExact
  <2> QED BY <1>1, <2>1, <2>2 DEF Known, Approvers, Approves
<1>7. Approvers(question.about)' = Approvers(q.about)'
  BY <1>1
<1>8. IsFiniteSet({}) /\ <<>> \in Seq(Hit)
  BY FS_EmptySet
<1> QED BY <1>1, <1>2, <1>4, <1>5, <1>6, <1>7, <1>8 DEF AnswerInv, LooksUp

\* What a search by vector or by words may have found.
LEMMA FoundType ==
  ASSUME IndexInv, AnswerInv, NEW hs \in Found(question.mode) \cup {{}}
  PROVE  /\ hs \subseteq Hit /\ IsFiniteSet(hs)
         /\ question.mode = "payments" =>
              \A h \in hs : NamesOne(Approvers(question.about) \cup {Nobody}, question.about, h)
<1>1. hs \subseteq Searched(question.mode)
  BY DEF Found
<1> QED BY <1>1, QuestionType, SearchedType, FS_Subset

LEMMA SearchAnswer ==
  ASSUME IndexInv, AnswerInv, SearchVector \/ SearchBm25
  PROVE  AnswerInv'
<1>1. /\ UNCHANGED <<history, happened, payload, question, exact, graph, answer, sure>>
      /\ vector' \in Found(question.mode) \cup {{}} \/ vector' = vector
      /\ bm25' \in Found(question.mode) \cup {{}} \/ bm25' = bm25
      /\ pending' \cap {"fact", "raise"} = pending \cap {"fact", "raise"}
      /\ pending # {}
  BY DEF SearchVector, SearchBm25, Done, index
<1>2. question # NoQuestion
  BY <1>1 DEF AnswerInv
<1>3. /\ vector' \subseteq Hit /\ IsFiniteSet(vector')
      /\ question.mode = "payments" =>
           \A h \in vector' : NamesOne(Approvers(question.about) \cup {Nobody}, question.about, h)
  BY <1>1, FoundType DEF AnswerInv, Truthful
<1>4. /\ bm25' \subseteq Hit /\ IsFiniteSet(bm25')
      /\ question.mode = "payments" =>
           \A h \in bm25' : NamesOne(Approvers(question.about) \cup {Nobody}, question.about, h)
  BY <1>1, FoundType DEF AnswerInv, Truthful
<1>5. Truthful(question, Approvers(question.about), vector', bm25', exact, graph.row)
  BY <1>3, <1>4 DEF AnswerInv, Truthful
<1>6. /\ Approvers(question.about)' = Approvers(question.about)
      /\ Approvers(Instruction)' = Approvers(Instruction) /\ Known' = Known
  BY <1>1 DEF Approvers, Approves, Known
<1>7. LooksUp(Approvers(Instruction), pending, exact)
        => LooksUp(Approvers(Instruction), pending', exact)
  BY <1>1 DEF LooksUp
<1> QED BY <1>1, <1>2, <1>3, <1>4, <1>5, <1>6, <1>7 DEF AnswerInv

\* Hits that are put in some order.
LEMMA SequenceType ==
  ASSUME NEW S, IsFiniteSet(S), NEW s \in SetToSeqs(S)
  PROVE  s \in Seq(S) /\ Len(s) \in Nat /\ \A i \in 1..Len(s) : s[i] \in S
<1>1. Cardinality(S) \in Nat
  BY FS_CardinalityType
<1>2. s \in [1..Cardinality(S) -> S]
  BY DEF SetToSeqs
<1>3. s \in Seq(S)
  BY <1>1, <1>2
<1> QED BY <1>3

\* Hits one after the other.
LEMMA Appended ==
  ASSUME NEW B, NEW s \in Seq(B), NEW t \in Seq(B)
  PROVE  /\ s \o t \in Seq(B) /\ Len(s \o t) \in Nat
         /\ s \o t \in [1..Len(s \o t) -> B]
         /\ \A i \in 1..Len(s \o t) :
              \/ i \in 1..Len(s) /\ (s \o t)[i] = s[i]
              \/ i - Len(s) \in 1..Len(t) /\ (s \o t)[i] = t[i - Len(s)]
         /\ s # <<>> => Len(s \o t) # 0 /\ (s \o t)[1] = s[1]
<1>1. s \o t \in Seq(B) /\ Len(s \o t) = Len(s) + Len(t) /\ Len(s) \in Nat /\ Len(t) \in Nat
  OBVIOUS
<1>2. \A i \in 1..(Len(s) + Len(t)) :
        (s \o t)[i] = IF i <= Len(s) THEN s[i] ELSE t[i - Len(s)]
  OBVIOUS
<1>3. s # <<>> => Len(s) # 0
  OBVIOUS
<1>4. \A u \in Seq(B) : u \in [1..Len(u) -> B]
  OBVIOUS
<1>5. s \o t \in [1..Len(s \o t) -> B]
  BY <1>1, <1>4
<1> QED BY <1>1, <1>2, <1>3, <1>5

\* The row of a query names somebody who has approved.
LEMMA PlannedRowType ==
  ASSUME IndexInv, NEW q \in Question, q.asks = "approver"
  PROVE  PlannedRow(q) \in Row(Approvers(q.about) \cup {Nobody})
<1>1. NoRow \in Row(Approvers(q.about) \cup {Nobody})
  BY DEF NoRow, Row
<1>2. CASE q.about = Instruction
  <2> DEFINE seen == recorded[Instruction] \cup facts[Instruction]
             oks == {n \in 1..Max(seen) : history[Instruction][n].ok}
             summary == oks \cap facts[Instruction] # {} /\ Max(oks) \in facts[Instruction]
  <2>1. CASE seen = {}
    BY <1>1, <1>2, <2>1 DEF PlannedRow, VersionRow
  <2>2. CASE seen # {}
    <3>1. Instruction \in Resources /\ happened[Instruction] \in Nat
          /\ seen \in SUBSET (1..happened[Instruction])
      BY DEF IndexInv, Resources
    <3>2. Max(seen) \in 1..happened[Instruction]
      <4> HIDE DEF seen
      <4> QED BY <2>2, <3>1, MaxIn
    <3>3. ApprovedBy(Instruction, Max(seen)) \in Approvers(Instruction) \cup {Nobody}
      BY <3>1, <3>2, ApprovedByApprover
    <3>4. PlannedRow(q) = [approver |-> ApprovedBy(Instruction, Max(seen)), basis |-> TRUE,
                           summary |-> summary]
      BY <1>2, <2>2 DEF PlannedRow, VersionRow
    <3>5. summary \in BOOLEAN
      OBVIOUS
    <3> HIDE DEF summary, oks, seen
    <3> QED BY <1>2, <3>3, <3>4, <3>5 DEF Row
  <2> QED BY <2>1, <2>2
<1>3. CASE q.about # Instruction
  <2> DEFINE ns == {n \in recorded[q.about] : Approves(q.about, n)}
  <2>1. q.about \in Resources /\ PlannedRow(q) = ApprovalRow(q.about)
    BY <1>3 DEF PlannedRow, Question
  <2>2. CASE ns = {}
    BY <1>1, <2>1, <2>2 DEF ApprovalRow
  <2>3. CASE ns # {}
    <3>1. happened[q.about] \in Nat /\ ns \in SUBSET (1..happened[q.about])
      BY <2>1 DEF IndexInv
    <3>2. Max(ns) \in ns
      <4> HIDE DEF ns
      <4> QED BY <2>3, <3>1, MaxIn
    <3>3. history[q.about][Max(ns)].user \in Approvers(q.about)
      <4>1. Max(ns) \in 1..happened[q.about] /\ Approves(q.about, Max(ns))
        BY <3>1, <3>2
      <4> QED BY <4>1 DEF Approvers
    <3>4. PlannedRow(q) = [approver |-> history[q.about][Max(ns)].user, summary |-> TRUE,
                           basis |-> TRUE]
      BY <2>1, <2>3 DEF ApprovalRow
    <3> HIDE DEF ns
    <3> QED BY <3>3, <3>4 DEF Row
  <2> QED BY <2>2, <2>3
<1> QED BY <1>2, <1>3

\* A step that takes the question further, in a graph and a log that stay.
SameIndex == UNCHANGED <<history, happened, payload, question, vector, bm25, sure>>

LEMMA SameApprovers ==
  ASSUME AnswerInv, SameIndex
  PROVE  /\ Approvers(question.about)' = Approvers(question.about)
         /\ Approvers(Instruction)' = Approvers(Instruction) /\ Known' = Known
BY DEF SameIndex, Approvers, Approves, Known

LEMMA SearchGraphAnswer ==
  ASSUME IndexInv, AnswerInv, SearchGraph
  PROVE  AnswerInv'
<1>1. /\ SameIndex /\ exact' = exact /\ answer' = answer
      /\ pending' = pending \ {"graph"} /\ "graph" \in pending
  BY DEF SearchGraph, Done, SameIndex, index
<1>2. question # NoQuestion /\ question \in Question
  BY <1>1 DEF AnswerInv
<1>3. question.asks = "approver" => graph'.row \in Row(Approvers(question.about) \cup {Nobody})
  <2>1. NoRow \in Row(Approvers(question.about) \cup {Nobody})
    BY DEF NoRow, Row
  <2>2. graph'.row = NoRow \/ graph'.row = PlannedRow(question)
    BY DEF SearchGraph, Unavailable
  <2> QED BY <1>2, <2>1, <2>2, PlannedRowType
<1>4. Truthful(question, Approvers(question.about), vector, bm25, exact, graph'.row)
  BY <1>3 DEF AnswerInv, Truthful
<1>5. LooksUp(Approvers(Instruction), pending, exact)
        => LooksUp(Approvers(Instruction), pending', exact)
  BY <1>1 DEF LooksUp
<1> QED BY <1>1, <1>2, <1>4, <1>5, SameApprovers DEF AnswerInv, SameIndex

LEMMA LookUpFactAnswer ==
  ASSUME IndexInv, AnswerInv, LookUpFact
  PROVE  AnswerInv'
<1>1. /\ SameIndex /\ graph' = graph /\ answer' = answer /\ "fact" \in pending
      /\ \/ "raise" \in pending' /\ exact' = exact
         \/ exact' = IF question.about \in Stored THEN <<FactHit(question.about)>> ELSE <<>>
  BY DEF LookUpFact, Failed, SameIndex, index
<1>2. question # NoQuestion
  BY <1>1 DEF AnswerInv
<1> DEFINE V == Approvers(question.about) \cup {Nobody}
<1>3. /\ exact' \in Seq(Hit)
      /\ question.about \in Payments /\ question.asks = "approver" =>
           \A i \in 1..Len(exact') : NamesOne(V, question.about, exact'[i])
  <2>1. CASE exact' = exact
    BY <2>1 DEF AnswerInv, Truthful
  <2>2. CASE exact' = <<>>
    BY <2>2
  <2>3. CASE question.about \in Stored /\ exact' = <<FactHit(question.about)>>
    <3>1. /\ FactHit(question.about) \in Hit /\ FactHit(question.about).event = FALSE
          /\ FactHit(question.about).approver = payload[question.about].approver
      BY <2>3, FactHitType
    <3>2. payload[question.about].approver \in V
      BY QuestionType DEF IndexInv
    <3>3. NamesOne(V, question.about, FactHit(question.about))
      BY <3>1, <3>2 DEF NamesOne
    <3>4. exact' \in Seq(Hit) /\ Len(exact') = 1 /\ exact'[1] = FactHit(question.about)
      BY <2>3, <3>1
    <3>5. \A i \in 1..Len(exact') : i = 1
      BY <3>4
    <3> QED BY <3>3, <3>4, <3>5
  <2> QED BY <1>1, <2>1, <2>2, <2>3
<1>4. Truthful(question, Approvers(question.about), vector, bm25, exact', graph.row)
  BY <1>3 DEF AnswerInv, Truthful
<1>5. ASSUME AsksKnown(question, sure) PROVE LooksUp(Approvers(Instruction), pending', exact')
  <2>1. CASE "raise" \in pending'
    BY <2>1 DEF LooksUp
  <2>2. CASE exact' = IF question.about \in Stored THEN <<FactHit(question.about)>> ELSE <<>>
    <3>1. question.about = Instruction /\ Known
      BY <1>5 DEF AnswerInv, AsksKnown
    <3>2. payload[Instruction].approver # Nobody
      BY <3>1, ApproversAreUsers DEF Known, Resources
    <3>3. Instruction \in Stored
      BY <3>2 DEF Stored, IndexInv, Resources
    <3>4. exact' = <<FactHit(Instruction)>>
      BY <2>2, <3>1, <3>3
    <3>5. FactHit(Instruction).approver \in Approvers(Instruction)
      BY <3>1, <3>3, FactHitType DEF Known
    <3>6. exact' # <<>> /\ exact'[1] = FactHit(Instruction)
      BY <3>4
    <3> QED BY <3>5, <3>6 DEF LooksUp
  <2> QED BY <1>1, <2>1, <2>2
<1> HIDE DEF V
<1> QED BY <1>1, <1>2, <1>3, <1>4, <1>5, SameApprovers DEF AnswerInv, SameIndex

\* The events a lookup of approvals finds: of a payment, those who have approved it.
LEMMA ApprovalsType ==
  ASSUME IndexInv, NEW q \in Question, NEW hs \in Approvals(q)
  PROVE  /\ hs \subseteq Hit /\ IsFiniteSet(hs)
         /\ q.about \in Payments /\ q.asks = "approver" =>
              \A h \in hs : NamesOne(Approvers(q.about) \cup {Nobody}, q.about, h)
<1>1. ASSUME NEW r \in Resources, NEW ns \in SUBSET points[r]
      PROVE  LET found == {EventHit(r, n) : n \in ns} IN
             /\ found \subseteq Hit /\ IsFiniteSet(found)
             /\ \A n \in ns : n \in 1..happened[r]
  <2>1. \A n \in ns : n \in 1..happened[r]
    BY DEF IndexInv
  <2>2. {EventHit(r, n) : n \in ns} \subseteq Hit
    BY <2>1, EventHitType
  <2>3. IsFiniteSet(ns)
    <3>1. IsFiniteSet(1..happened[r]) /\ ns \subseteq 1..happened[r]
      BY <2>1, FS_Interval DEF IndexInv
    <3> QED BY <3>1, FS_Subset
  <2> DEFINE f == [n \in ns |-> EventHit(r, n)]
  <2>4. {EventHit(r, n) : n \in ns} = {f[n] : n \in ns}
    OBVIOUS
  <2> HIDE DEF f
  <2> QED BY <2>1, <2>2, <2>3, <2>4, FiniteImage
<1>2. CASE q.about \in Payments /\ q.asks # "through"
  <2>1. q.about \in Resources
    BY DEF Question
  <2>2. PICK ns \in SUBSET points[q.about] :
          hs = {EventHit(q.about, n) : n \in PaymentApprovals(q.about, ns)}
    BY <1>2 DEF Approvals, Scrolled
  <2>3. PaymentApprovals(q.about, ns) \in SUBSET points[q.about]
    BY DEF PaymentApprovals
  <2>4. /\ hs \subseteq Hit /\ IsFiniteSet(hs)
        /\ \A n \in PaymentApprovals(q.about, ns) : n \in 1..happened[q.about]
    BY <1>1, <2>1, <2>2, <2>3
  <2>5. ASSUME NEW h \in hs PROVE NamesOne(Approvers(q.about) \cup {Nobody}, q.about, h)
    <3>1. PICK n \in PaymentApprovals(q.about, ns) : h = EventHit(q.about, n)
      BY <2>2
    <3>2. h.event = TRUE /\ h.actor = history[q.about][n].user
      BY <2>1, <2>4, <3>1, EventHitType
    <3>3. Approves(q.about, n)
      BY DEF PaymentApprovals
    <3>4. h.actor \in Approvers(q.about)
      BY <2>4, <3>2, <3>3 DEF Approvers
    <3> QED BY <3>2, <3>4 DEF NamesOne
  <2> QED BY <2>4, <2>5
<1>3. CASE hs = {}
  BY <1>3, FS_EmptySet
<1>4. CASE ~(q.about \in Payments /\ q.asks # "through") /\ hs # {}
  <2>1. Instruction \in Resources
    BY DEF Resources
  <2>2. PICK ns \in SUBSET points[Instruction] :
          hs = {EventHit(Instruction, n) : n \in InstructionApprovals(ns)}
    BY <1>4 DEF Approvals, Scrolled
  <2>3. InstructionApprovals(ns) \in SUBSET points[Instruction]
    BY DEF InstructionApprovals
  <2>4. hs \subseteq Hit /\ IsFiniteSet(hs)
    BY <1>1, <2>1, <2>2, <2>3
  <2>5. ~(q.about \in Payments /\ q.asks = "approver")
    BY <1>4
  <2> QED BY <2>4, <2>5
<1> QED BY <1>2, <1>3, <1>4

LEMMA LookUpApprovalsAnswer ==
  ASSUME IndexInv, AnswerInv, LookUpApprovals
  PROVE  AnswerInv'
<1>1. /\ SameIndex /\ graph' = graph /\ answer' = answer /\ "approvals" \in pending
      /\ \/ "raise" \in pending' /\ exact' = exact
         \/ /\ pending' = pending \ {"approvals"}
            /\ \E hs \in Approvals(question) : \E s \in SetToSeqs(hs) : exact' = exact \o s
  BY DEF LookUpApprovals, Done, Failed, SameIndex, index
<1>2. question # NoQuestion /\ question \in Question /\ exact \in Seq(Hit)
  BY <1>1 DEF AnswerInv
<1> DEFINE V == Approvers(question.about) \cup {Nobody}
           About == question.about \in Payments /\ question.asks = "approver"
           Good(ids) == \A i \in 1..Len(ids) : NamesOne(V, question.about, ids[i])
<1>3. About => Good(exact)
  BY DEF AnswerInv, Truthful
<1>4. CASE "raise" \in pending' /\ exact' = exact
  <2>1. LooksUp(Approvers(Instruction), pending', exact')
    BY <1>4 DEF LooksUp
  <2> QED BY <1>1, <1>2, <1>4, <2>1, SameApprovers DEF AnswerInv, SameIndex
<1>5. ASSUME NEW hs \in Approvals(question), NEW s \in SetToSeqs(hs), exact' = exact \o s,
             pending' = pending \ {"approvals"}
      PROVE  AnswerInv'
  <2>1. /\ hs \subseteq Hit /\ IsFiniteSet(hs)
        /\ About => \A h \in hs : NamesOne(V, question.about, h)
    BY <1>2, ApprovalsType
  <2>2. s \in Seq(hs) /\ Len(s) \in Nat /\ \A i \in 1..Len(s) : s[i] \in hs
    BY <2>1, SequenceType
  <2>3. s \in Seq(Hit)
    BY <2>1, <2>2
  <2>4. About => Good(s)
    BY <2>1, <2>2
  <2> HIDE DEF V
  <2>5. /\ exact' \in Seq(Hit) /\ Len(exact') \in Nat
        /\ \A i \in 1..Len(exact') :
             \/ i \in 1..Len(exact) /\ exact'[i] = exact[i]
             \/ i - Len(exact) \in 1..Len(s) /\ exact'[i] = s[i - Len(exact)]
        /\ exact # <<>> => Len(exact') # 0 /\ exact'[1] = exact[1]
    BY <1>2, <1>5, <2>3, Appended
  <2>6. ASSUME About PROVE Good(exact')
    <3> SUFFICES ASSUME NEW i \in 1..Len(exact') PROVE NamesOne(V, question.about, exact'[i])
      OBVIOUS
    <3>1. CASE i \in 1..Len(exact) /\ exact'[i] = exact[i]
      BY <1>3, <2>6, <3>1
    <3>2. CASE i - Len(exact) \in 1..Len(s) /\ exact'[i] = s[i - Len(exact)]
      BY <2>4, <2>6, <3>2
    <3> QED BY <2>5, <3>1, <3>2
  <2>7. Truthful(question, Approvers(question.about), vector, bm25, exact', graph.row)
    BY <2>6 DEF AnswerInv, Truthful, V
  <2>8. exact # <<>> => exact' # <<>> /\ exact'[1] = exact[1]
    BY <2>5
  <2>9. LooksUp(Approvers(Instruction), pending, exact)
          => LooksUp(Approvers(Instruction), pending', exact')
    BY <1>5, <2>8 DEF LooksUp
  <2> QED BY <1>1, <1>2, <2>5, <2>7, <2>9, SameApprovers DEF AnswerInv, SameIndex
<1> QED BY <1>1, <1>4, <1>5

LEMMA NextAnswer ==
  ASSUME IndexInv, AnswerInv, [Next]_vars
  PROVE  AnswerInv'
<1>1. CASE IndexStep \/ \E r \in Resources : Happen(r)
  <2>1. UNCHANGED asked
    BY <1>1 DEF IndexStep, Happen, RecordEvent, StoreEvent, RecordFact, StoreFact
  <2> QED BY <2>1, StayAnswer DEF asked
<1>2. CASE \E q \in Questions[history] : Ask(q)
  BY <1>2, AskAnswer
<1>3. CASE SearchVector \/ SearchBm25
  BY <1>3, SearchAnswer
<1>4. CASE SearchGraph
  BY <1>4, SearchGraphAnswer
<1>5. CASE LookUpFact
  BY <1>5, LookUpFactAnswer
<1>6. CASE LookUpApprovals
  BY <1>6, LookUpApprovalsAnswer
<1>7. CASE Answer \/ AnswerLive
  <2>1. /\ UNCHANGED <<question, vector, bm25, exact, graph, sure>>
        /\ pending' \cap {"fact", "raise"} = pending \cap {"fact", "raise"}
        /\ question # NoQuestion
    BY <1>7 DEF Answer, AnswerLive, Done, AnswerInv
  <2> QED BY <2>1, StayAnswer
<1>8. CASE UNCHANGED vars
  BY <1>8, StayAnswer DEF vars, asked
<1> QED BY <1>1, <1>2, <1>3, <1>4, <1>5, <1>6, <1>7, <1>8 DEF Next, Search

-----------------------------------------------------------------------------
(* Whom the answer names.                                                  *)

\* What is left of the hits of the two searches, in some order, after the exact ones.
LEMMA HitsType ==
  ASSUME AnswerInv, NEW rest \in SetToSeqs(Remainder)
  PROVE  LET hits == exact \o rest IN
         /\ Len(hits) \in Nat /\ hits \in [1..Len(hits) -> Hit]
         /\ \A i \in 1..Len(hits) :
              hits[i] \in vector \cup bm25 \/ \E j \in 1..Len(exact) : hits[i] = exact[j]
         /\ exact # <<>> => Len(hits) # 0 /\ hits[1] = exact[1]
<1>1. Remainder \subseteq vector \cup bm25
  BY DEF Remainder
<1>2. Remainder \subseteq Hit /\ IsFiniteSet(Remainder)
  BY <1>1, FS_Union, FS_Subset DEF AnswerInv
<1>3. rest \in Seq(Remainder) /\ Len(rest) \in Nat /\ \A i \in 1..Len(rest) : rest[i] \in Remainder
  BY <1>2, SequenceType
<1>4. rest \in Seq(Hit)
  BY <1>2, <1>3
<1> DEFINE hits == exact \o rest
<1>5. /\ Len(hits) \in Nat /\ hits \in [1..Len(hits) -> Hit]
      /\ \A i \in 1..Len(hits) :
           \/ i \in 1..Len(exact) /\ hits[i] = exact[i]
           \/ i - Len(exact) \in 1..Len(rest) /\ hits[i] = rest[i - Len(exact)]
      /\ exact # <<>> => Len(hits) # 0 /\ hits[1] = exact[1]
  BY <1>4, Appended DEF AnswerInv
<1> HIDE DEF hits
<1>6. \A i \in 1..Len(hits) :
        hits[i] \in vector \cup bm25 \/ \E j \in 1..Len(exact) : hits[i] = exact[j]
  BY <1>1, <1>3, <1>5
<1> QED BY <1>5, <1>6 DEF hits

LEMMA NamedForPayment ==
  ASSUME AnswerInv, NEW rest \in SetToSeqs(Remainder), ForPayment, question.mode = "payments"
  PROVE  Named(exact \o rest) \in Approvers(question.about) \cup {Nobody}
<1> DEFINE V == Approvers(question.about) \cup {Nobody}
           B == {h \in Hit : NamesOne(V, question.about, h)}
           hits == exact \o rest
<1>1. /\ Len(hits) \in Nat /\ hits \in [1..Len(hits) -> Hit]
      /\ \A i \in 1..Len(hits) :
           hits[i] \in vector \cup bm25 \/ \E j \in 1..Len(exact) : hits[i] = exact[j]
  BY HitsType
<1>2. /\ \A h \in vector \cup bm25 : NamesOne(V, question.about, h)
      /\ \A j \in 1..Len(exact) : NamesOne(V, question.about, exact[j])
      /\ graph.row \in Row(V)
  BY DEF AnswerInv, Truthful, ForPayment
<1> HIDE DEF V, hits
<1>3. hits \in [1..Len(hits) -> B]
  BY <1>1, <1>2
<1>4. Nobody \in V
  BY DEF V
<1>5. \A h \in B : NamesOne(V, question.about, h)
  OBVIOUS
<1> HIDE DEF B
<1>6. Named(hits) \in V
  BY <1>1, <1>2, <1>3, <1>4, <1>5, PaymentNamed
<1> QED BY <1>6 DEF V, hits

LEMMA NamedWhenKnown ==
  ASSUME IndexInv, AnswerInv, NEW rest \in SetToSeqs(Remainder), AsksKnown(question, sure),
         "fact" \notin pending, "raise" \notin pending
  PROVE  Named(exact \o rest) \in Approvers(Instruction) \cup {Nobody}
<1> DEFINE G == Approvers(Instruction)
           hits == exact \o rest
<1>1. /\ question.about = Instruction /\ question.asks = "approver"
      /\ exact # <<>> /\ exact[1].approver \in G
  BY DEF AnswerInv, AsksKnown, LooksUp
<1>2. Len(hits) \in Nat \ {0} /\ hits \in [1..Len(hits) -> Hit] /\ hits[1] = exact[1]
  BY <1>1, HitsType
<1>3. Nobody \notin G
  BY ApproversAreUsers DEF Resources
<1>4. graph.row \in Row(G \cup {Nobody})
  BY <1>1 DEF AnswerInv, Truthful
<1>5. ~ForPayment /\ question.asks # "through"
  BY <1>1, ChatAssumption DEF ForPayment
<1> HIDE DEF G, hits
<1>6. Named(hits) \in G \cup {Nobody}
  BY <1>1, <1>2, <1>3, <1>4, <1>5, InstructionNamed
<1> QED BY <1>6 DEF G, hits

\* Both promises, about an answer that has been given.
NamesApprovers == PaymentApproverIsActual /\ KnownApproverIsNamed

LEMMA AnswerNames ==
  ASSUME IndexInv, AnswerInv, Answer
  PROVE  NamesApprovers'
<1>1. /\ pending \cap (Searching \cup {"live"}) = {}
      /\ UNCHANGED <<history, happened, question, sure>>
      /\ answer'.how = "named" =>
           /\ "raise" \notin pending
           /\ \E rest \in SetToSeqs(Remainder) :
                answer'.who = Named(exact \o rest) /\ answer'.who # Nobody
  BY DEF Answer
<1>2. /\ Approvers(question.about)' = Approvers(question.about)
      /\ Approvers(Instruction)' = Approvers(Instruction)
      /\ ForPayment' = ForPayment
  BY <1>1 DEF Approvers, Approves, ForPayment
<1>3. "fact" \notin pending
  BY <1>1 DEF Searching
<1>4. ASSUME answer'.how = "named", ForPayment, question.mode = "payments"
      PROVE  answer'.who \in Approvers(question.about)
  BY <1>1, <1>4, NamedForPayment
<1>5. ASSUME answer'.how = "named", AsksKnown(question, sure)
      PROVE  answer'.who \in Approvers(Instruction)
  BY <1>1, <1>3, <1>5, NamedWhenKnown
<1> QED BY <1>1, <1>2, <1>4, <1>5
        DEF NamesApprovers, PaymentApproverIsActual, KnownApproverIsNamed, AsksKnown

LEMMA NextNames ==
  ASSUME IndexInv, AnswerInv, NamesApprovers, [Next]_vars
  PROVE  NamesApprovers'
<1>1. CASE Answer
  BY <1>1, AnswerNames
<1>2. CASE answer'.how # "named"
  BY <1>2 DEF NamesApprovers, PaymentApproverIsActual, KnownApproverIsNamed
<1>3. CASE UNCHANGED <<question, answer, sure>>
  <2>1. \A r \in Resources : Approvers(r) \subseteq Approvers(r)'
    BY NextIndex
  <2>2. PICK p \in Resources : p = question.about
    BY QuestionType
  <2>3. Approvers(question.about) = Approvers(p) /\ Approvers(question.about)' = Approvers(p)'
    BY <1>3, <2>2
  <2>4. /\ Approvers(p) \subseteq Approvers(p)'
        /\ Approvers(Instruction) \subseteq Approvers(Instruction)'
    BY <2>1 DEF Resources
  <2>5. ForPayment' = ForPayment
    BY <1>3 DEF ForPayment
  <2> QED BY <1>3, <2>3, <2>4, <2>5
          DEF NamesApprovers, PaymentApproverIsActual, KnownApproverIsNamed
<1>4. Answer \/ answer'.how # "named" \/ UNCHANGED <<question, answer, sure>>
  <2>1. ASSUME NEW q, Ask(q) PROVE answer'.how # "named"
    BY <2>1 DEF Ask, AnswerInv, NoAnswer
  <2>2. AnswerLive => answer'.how # "named"
    BY DEF AnswerLive
  <2> QED BY <2>1, <2>2 DEF Next, IndexStep, Happen, RecordEvent, StoreEvent, RecordFact,
             StoreFact, Search, SearchVector, SearchBm25, SearchGraph, LookUpFact,
             LookUpApprovals, vars, asked
<1> QED BY <1>1, <1>2, <1>3, <1>4

LEMMA NamesAlways == Spec => [](IndexInv /\ AnswerInv /\ NamesApprovers)
<1> DEFINE Inv == IndexInv /\ AnswerInv /\ NamesApprovers
<1>1. Init => Inv
  <2>1. Init => NamesApprovers
    BY DEF Init, NoAnswer, NamesApprovers, PaymentApproverIsActual, KnownApproverIsNamed
  <2> QED BY <2>1, InitIndex, InitAnswer
<1>2. ASSUME Inv, [Next]_vars PROVE Inv'
  BY <1>2, NextIndex, NextAnswer, NextNames
<1> HIDE DEF Inv
<1>3. Spec => []Inv
  BY <1>1, <1>2, PTL DEF Spec
<1> QED BY <1>3 DEF Inv

\* PaymentApproverIsActual: whom a question in Payments mode is told approved the payment has
\* approved it.  Every hit about the payment that may come up names an approver or nobody:
\* its facts, its row in the graph, and of its events only the approvals that succeeded.
THEOREM NamedHasApproved == Spec => []PaymentApproverIsActual
BY NamesAlways, PTL DEF NamesApprovers

\* KnownApproverIsNamed: what the instruction's point showed when the question came is read
\* first, and the hits that come after it do not replace it.
THEOREM KnownIsNamed == Spec => []KnownApproverIsNamed
BY NamesAlways, PTL DEF NamesApprovers

=============================================================================
