-------------------- MODULE AuthorizationService_proofs --------------------
(***************************************************************************)
(* What authorization-service answers, for every directory, question and   *)
(* interleaving of its queries with OPA's clock, restarts of OPA and runs  *)
(* of the seed.                                                            *)
(***************************************************************************)
EXTENDS AuthorizationService, FiniteSetTheorems, WellFoundedInduction, TLAPS

-----------------------------------------------------------------------------
(* The invariant of an evaluation.                                         *)

\* What the whole policy says to a refusal, and to a permission, of a subject at a time.
Refusal(q, s, t) ==
  IF q.package = "instruction"
    THEN IP!Violations(q.act, s, Delegated(q), q.about, t)
    ELSE PP!Violations(q.act, s, q.about, q.about.status, q.about.end, t)

Ground(q, s, t) ==
  IF q.package = "instruction"
    THEN IP!AllowBasis(q.act, s, Delegated(q), q.about, t)
    ELSE PP!AllowBasis(q.act, s, q.about, q.about.status, q.about.end, t)

\* The refusals for which the policies have a name.
Named(q) == \/ q.package = "instruction"
            \/ q.act = "APPROVE" /\ PP!FundingApprover(q.subject)

Full(files, package) == {file \in Files : file[1] = package} \subseteq files

InTodo(todo, u) == \E i \in 1..Len(todo) : todo[i] = u

\* A decision about one subject: what the queries so far have found still holds, at OPA's
\* time t, when the policy has not changed.
DecisionOK(k, t) ==
  /\ k.eligible = {}
  /\ k.allowed => Permits(k.q, k.q.subject, k.asked)
  /\ k.step = "basis" => k.allowed
  /\ k.step \in {"allow", "violations", "alert"} => ~k.allowed
  /\ k.step \in {"allow", "basis", "violations"} => k.violations = {}
  /\ k.steady /\ k.step = "violations" => ~Permits(k.q, k.q.subject, t)
  /\ k.steady /\ k.step = "alert" =>
       /\ k.violations \subseteq Refusal(k.q, k.q.subject, t)
       /\ Named(k.q) => k.violations # {}
  /\ k.steady /\ k.step = "answered" =>
       /\ k.allowed => k.basis # {}
       /\ ~k.allowed /\ Named(k.q) => k.violations # {}
       /\ k.violations \cap AlertsOf(k.q) # {} => k.alert

\* A question for the eligible approvers: whoever is permitted has been found or is still
\* to be asked about.
EligibleOK(k, t) ==
  /\ ~k.allowed /\ k.violations = {}
  /\ k.step \in {"allow", "basis", "answered"}
  /\ k.step = "answered" <=> k.todo = <<>>
  /\ \A u \in k.eligible : Permits(k.q, u, k.asked)
  /\ k.step = "basis" => Permits(k.q, Head(k.todo), k.asked)
  /\ k.steady => \A u \in Users : Permits(k.q, u, t) => u \in k.eligible \/ InTodo(k.todo, u)

\* The policy of an evaluation in progress is complete as long as nobody touches it.
CallOK(k, files, t) ==
  /\ k.asked <= t
  /\ k.steady /\ k.step # "answered" => Full(files, k.q.package)
  /\ IF k.q.eligible THEN EligibleOK(k, t) ELSE DecisionOK(k, t)

CallInv == \A c \in Callers : call[c].step # "idle" => CallOK(call[c], loaded, now)

\* The seed works on a file as long as it clears or uploads.
SeedInv == seed.phase \in {"clear", "upload"} => seed.queue # {}

-----------------------------------------------------------------------------
(* The policies: the rules of permission, of refusal and of the basis.     *)

\* Time only takes permissions away: the one rule about the clock is the end of the term.
LEMMA PermitsEarlier ==
  ASSUME NEW q \in Questions, NEW s, NEW t \in Int, NEW u \in Int, t <= u, Permits(q, s, u)
  PROVE  Permits(q, s, t)
<1>1. q.about.end \in Int
  BY QuestionsAssumption
<1>2. CASE q.package = "instruction"
  BY <1>1, <1>2 DEF Permits, IP!Allowed, IP!AllowUse, IP!NotExpired
<1>3. CASE q.package # "instruction"
  BY <1>1, <1>3
  DEF Permits, PP!Allowed, PP!AllowCreate, PP!AllowSubmit, PP!AllowApprove, PP!InstructionUsable
<1> QED BY <1>2, <1>3

\* ... and only adds violations.
LEMMA RefusalsGrow ==
  ASSUME NEW q \in Questions, NEW s, NEW t \in Int, NEW u \in Int, t <= u
  PROVE  Refusal(q, s, t) \subseteq Refusal(q, s, u)
<1>1. q.about.end \in Int
  BY QuestionsAssumption
<1>2. CASE q.package = "instruction"
  <2>1. \A v : IP!UseBreach(v, q.act, s, Delegated(q), q.about, t)
                 => IP!UseBreach(v, q.act, s, Delegated(q), q.about, u)
    BY <1>1 DEF IP!UseBreach, IP!NotExpired
  <2> QED BY <1>2, <2>1 DEF Refusal, IP!Violations
<1>3. CASE q.package # "instruction"
  <2>1. \A v : PP!InstructionBreach(v, q.act, q.about.status, q.about.end, t)
                 => PP!InstructionBreach(v, q.act, q.about.status, q.about.end, u)
    BY <1>1 DEF PP!InstructionBreach
  <2> QED BY <1>3, <2>1 DEF Refusal, PP!Violations
<1> QED BY <1>2, <1>3

\* Every permission has a basis, whenever it is asked for: a role or the profit center is
\* among the reasons of every allow rule.
LEMMA GrantHasGround ==
  ASSUME NEW q \in Questions, NEW s, NEW t, NEW u, Permits(q, s, t)
  PROVE  Ground(q, s, u) # {}
<1>1. CASE q.package = "instruction"
  <2>1. CASE q.act = "SUBMIT"
    <3>1. "role" \in IP!AllowBasis(q.act, s, Delegated(q), q.about, u)
      BY <1>1, <2>1
      DEF Permits, IP!Allowed, IP!AllowSubmit, IP!AllowBasis, IP!Reasons, IP!CreatorBasis,
          IP!Creating, IP!Creator
    <3> QED BY <1>1, <3>1 DEF Ground
  <2>2. CASE q.act # "SUBMIT"
    <3>1. IP!ValidProfitCenter(q.about)
      BY <1>1, <2>2
      DEF Permits, IP!Allowed, IP!AllowDraft, IP!AllowDelete, IP!MiddleOfficeCreator,
          IP!AllowApprove, IP!AllowReject, IP!AllowSuspend, IP!AllowReactivate, IP!DeskApprover,
          IP!AllowUse, IP!AllowView
    <3>2. "profit center" \in IP!AllowBasis(q.act, s, Delegated(q), q.about, u)
      BY <3>1 DEF IP!AllowBasis, IP!Reasons, IP!InstructionBasis
    <3> QED BY <1>1, <3>2 DEF Ground
  <2> QED BY <2>1, <2>2
<1>2. CASE q.package # "instruction"
  <2>1. \/ q.act \in {"CREATE", "SUBMIT"} /\ PP!HasRole(s, "PAYMENT_CREATOR")
        \/ q.act \in {"APPROVE", "REJECT"} /\ PP!HasRole(s, "FUNDING_APPROVER")
    BY <1>2
    DEF Permits, PP!Allowed, PP!AllowCreate, PP!AllowSubmit, PP!AllowApprove, PP!AllowReject,
        PP!Desk
  <2>2. "role" \in PP!AllowBasis(q.act, s, q.about, q.about.status, q.about.end, u)
    BY <2>1 DEF PP!AllowBasis, PP!Reasons, PP!DeskBasis, PP!FundingApprover
  <2> QED BY <1>2, <2>2 DEF Ground
<1> QED BY <1>1, <1>2

\* Every refusal of the instruction policy has a name: the rules of violations.rego, written
\* next to the allow rules, leave no gap between them.
LEMMA InstructionRefusalIsNamed ==
  ASSUME NEW act \in IP!Actions, NEW s, NEW delegated, NEW i, NEW t,
         ~IP!Allowed(act, s, delegated, i, t)
  PROVE  IP!Violations(act, s, delegated, i, t) # {}
<1> DEFINE Has(v) == \/ IP!CreatorBreach(v, act, s, i)
                     \/ IP!InstructionBreach(v, act, i)
                     \/ IP!ApproverBreach(v, act, s, i)
                     \/ IP!UseBreach(v, act, s, delegated, i, t)
<1> SUFFICES \E v \in IP!Breaches : Has(v)
  BY DEF IP!Violations
<1>b. /\ "MISSING_ROLE_INSTRUCTION_CREATOR" \in IP!Breaches
      /\ "NOT_MIDDLE_OFFICE_GROUP" \in IP!Breaches
      /\ "CREATOR_TITLE_INELIGIBLE" \in IP!Breaches
      /\ "ACCOUNT_LOB_MISMATCH" \in IP!Breaches
      /\ "INVALID_PROFIT_CENTER" \in IP!Breaches
      /\ "INVALID_INSTRUCTION_STATUS" \in IP!Breaches
      /\ "INSTRUCTION_DURATION_EXCEEDS_3Y" \in IP!Breaches
      /\ "INVALID_STATE_TRANSITION" \in IP!Breaches
      /\ "MISSING_ROLE_INSTRUCTION_APPROVER" \in IP!Breaches
      /\ "ALERT_LOB_MISMATCH" \in IP!Breaches
      /\ "SELF_APPROVAL" \in IP!Breaches
      /\ "ALERT_SUPERVISOR_APPROVING_SUBORDINATE" \in IP!Breaches
      /\ "ALERT_SUBORDINATE_APPROVING_CREATOR" \in IP!Breaches
      /\ "ALERT_APPROVAL_MATRIX_VIOLATION" \in IP!Breaches
      /\ "SUSPEND_REQUIRES_MANAGING_DIRECTOR" \in IP!Breaches
      /\ "SELF_REACTIVATION" \in IP!Breaches
      /\ "ALERT_UNAUTHORIZED_SERVICE" \in IP!Breaches
      /\ "ALERT_UNAPPROVED_INSTRUCTION" \in IP!Breaches
      /\ "ALERT_EXPIRED_INSTRUCTION" \in IP!Breaches
      /\ "VIEWER_ACCESS_DENIED" \in IP!Breaches
  BY DEF IP!Breaches, IP!Alerts
<1>p. ~IP!ValidProfitCenter(i) => Has("INVALID_PROFIT_CENTER")
  BY DEF IP!InstructionBreach
\* The middle-office creator.
<1>c. ASSUME act \in IP!Creating
      PROVE  /\ ~IP!Creator(s) => Has("MISSING_ROLE_INSTRUCTION_CREATOR")
             /\ IP!Creator(s) /\ ~IP!IsMiddleOffice(s) => Has("NOT_MIDDLE_OFFICE_GROUP")
             /\ IP!Creator(s) /\ IP!IsMiddleOffice(s) /\ ~IP!CreatorEligible(s)
                  => Has("CREATOR_TITLE_INELIGIBLE")
             /\ act # "SUBMIT" /\ IP!Creator(s) /\ IP!IsMiddleOffice(s) /\ ~IP!AccountLobMatches(i)
                  => Has("ACCOUNT_LOB_MISMATCH")
  BY <1>c DEF IP!CreatorBreach
\* The approver of the desk.
<1>d. ASSUME act \in IP!Deciding
      PROVE  /\ ~IP!Approver(s) => Has("MISSING_ROLE_INSTRUCTION_APPROVER")
             /\ IP!Approver(s) /\ ~IP!SameLob(s, i) => Has("ALERT_LOB_MISMATCH")
             /\ ~IP!ValidTransition(act, i) => Has("INVALID_STATE_TRANSITION")
  BY <1>d DEF IP!ApproverBreach, IP!InstructionBreach
<1>1. CASE act \in {"CREATE", "UPDATE"}
  <2>1. i.status # "DRAFT" => Has("INVALID_INSTRUCTION_STATUS")
    BY <1>1 DEF IP!InstructionBreach
  <2>2. ~IP!WithinThreeYears(i) => Has("INSTRUCTION_DURATION_EXCEEDS_3Y")
    BY <1>1 DEF IP!InstructionBreach
  <2>3. act \in IP!Creating /\ act # "SUBMIT"
    BY <1>1 DEF IP!Creating
  <2>4. ~IP!AllowDraft(s, i)
    BY <1>1 DEF IP!Allowed
  <2> HIDE DEF Has
  <2> QED BY <1>b, <1>c, <1>p, <2>1, <2>2, <2>3, <2>4
          DEF IP!AllowDraft, IP!MiddleOfficeCreator, IP!Creator
<1>2. CASE act = "DELETE"
  <2>1. i.status \notin {"DRAFT", "PENDING"} => Has("INVALID_INSTRUCTION_STATUS")
    BY <1>2 DEF IP!InstructionBreach
  <2>2. act \in IP!Creating /\ act # "SUBMIT" /\ ~IP!AllowDelete(s, i)
    BY <1>2 DEF IP!Creating, IP!Allowed
  <2> HIDE DEF Has
  <2> QED BY <1>b, <1>c, <1>p, <2>1, <2>2
          DEF IP!AllowDelete, IP!MiddleOfficeCreator, IP!Creator
<1>3. CASE act = "SUBMIT"
  <2>1. i.status # "DRAFT" => Has("INVALID_INSTRUCTION_STATUS")
    BY <1>3 DEF IP!InstructionBreach
  <2>2. act \in IP!Creating /\ ~IP!AllowSubmit(s, i)
    BY <1>3 DEF IP!Creating, IP!Allowed
  <2> HIDE DEF Has
  <2> QED BY <1>b, <1>c, <2>1, <2>2 DEF IP!AllowSubmit, IP!Creator
<1>4. CASE act = "APPROVE"
  <2>1. /\ ~IP!CreatorIsNotApprover(s, i) => Has("SELF_APPROVAL")
        /\ IP!Approver(s) /\ ~IP!NotSupervisorOfCreator(s, i)
             => Has("ALERT_SUPERVISOR_APPROVING_SUBORDINATE")
        /\ IP!Approver(s) /\ ~IP!ApproverNotSubordinateOfCreator(s, i)
             => Has("ALERT_SUBORDINATE_APPROVING_CREATOR")
        /\ IP!Approver(s) /\ IP!SameLob(s, i) /\ ~IP!ApproverIsAllowed(s, i)
             => Has("ALERT_APPROVAL_MATRIX_VIOLATION")
    BY <1>4 DEF IP!ApproverBreach
  <2>2. ~IP!WithinThreeYears(i) => Has("INSTRUCTION_DURATION_EXCEEDS_3Y")
    BY <1>4 DEF IP!InstructionBreach
  <2>3. act \in IP!Deciding /\ ~IP!AllowApprove(s, i)
    BY <1>4 DEF IP!Deciding, IP!Allowed
  <2>4. IP!ValidTransition(act, i) => i.status = "PENDING"
    BY <1>4 DEF IP!ValidTransition
  <2> HIDE DEF Has
  <2> QED BY <1>b, <1>d, <1>p, <2>1, <2>2, <2>3, <2>4
          DEF IP!AllowApprove, IP!DeskApprover, IP!IndependentApprover, IP!Approver
<1>5. CASE act = "REJECT"
  <2>1. act \in IP!Deciding /\ ~IP!AllowReject(s, i)
    BY <1>5 DEF IP!Deciding, IP!Allowed
  <2>2. IP!ValidTransition(act, i) => i.status = "PENDING"
    BY <1>5 DEF IP!ValidTransition
  <2> HIDE DEF Has
  <2> QED BY <1>b, <1>d, <1>p, <2>1, <2>2 DEF IP!AllowReject, IP!DeskApprover, IP!Approver
<1>6. CASE act = "SUSPEND"
  <2>1. IP!Approver(s) /\ Directory[s].title # "Managing Director"
          => Has("SUSPEND_REQUIRES_MANAGING_DIRECTOR")
    BY <1>6 DEF IP!ApproverBreach
  <2>2. act \in IP!Deciding /\ ~IP!AllowSuspend(s, i)
    BY <1>6 DEF IP!Deciding, IP!Allowed
  <2>3. IP!ValidTransition(act, i) => i.status \in IP!Approved
    BY <1>6 DEF IP!ValidTransition
  <2> HIDE DEF Has
  <2> QED BY <1>b, <1>d, <1>p, <2>1, <2>2, <2>3
          DEF IP!AllowSuspend, IP!DeskApprover, IP!Approver
<1>7. CASE act = "REACTIVATE"
  <2>1. IP!Approver(s) /\ s = i.suspendedBy => Has("SELF_REACTIVATION")
    BY <1>7 DEF IP!ApproverBreach
  <2>2. act \in IP!Deciding /\ ~IP!AllowReactivate(s, i)
    BY <1>7 DEF IP!Deciding, IP!Allowed
  <2>3. IP!ValidTransition(act, i) => i.status = "SUSPENDED"
    BY <1>7 DEF IP!ValidTransition
  <2> HIDE DEF Has
  <2> QED BY <1>b, <1>d, <1>p, <2>1, <2>2, <2>3
          DEF IP!AllowReactivate, IP!DeskApprover, IP!Approver
<1>8. CASE act = "USE"
  <2>1. /\ "INSTRUCTION_MARKER" \notin delegated => Has("ALERT_UNAUTHORIZED_SERVICE")
        /\ i.status \notin IP!Approved => Has("ALERT_UNAPPROVED_INSTRUCTION")
        /\ ~IP!NotExpired(i, t) => Has("ALERT_EXPIRED_INSTRUCTION")
        /\ ~IP!HasViewerAccess(s) => Has("VIEWER_ACCESS_DENIED")
    BY <1>8 DEF IP!UseBreach
  <2>2. ~IP!AllowUse(s, delegated, i, t)
    BY <1>8 DEF IP!Allowed
  <2> HIDE DEF Has
  <2> QED BY <1>b, <1>p, <2>1, <2>2 DEF IP!AllowUse
<1>9. CASE act = "VIEW"
  <2>1. ~IP!HasViewerAccess(s) => Has("VIEWER_ACCESS_DENIED")
    BY <1>9 DEF IP!UseBreach
  <2>2. ~IP!AllowView(s, i)
    BY <1>9 DEF IP!Allowed
  <2> HIDE DEF Has
  <2> QED BY <1>b, <1>p, <2>1, <2>2 DEF IP!AllowView
<1> HIDE DEF Has
<1> QED BY <1>1, <1>2, <1>3, <1>4, <1>5, <1>6, <1>7, <1>8, <1>9 DEF IP!Actions

\* The payment policy names its refusal of a funding approver who wants to approve.
LEMMA PaymentRefusalIsNamed ==
  ASSUME NEW s \in Users, NEW p, p.amount \in Int, NEW status, NEW end \in Int, NEW t \in Int,
         PP!FundingApprover(s), ~PP!Allowed("APPROVE", s, p, status, end, t)
  PROVE  PP!Violations("APPROVE", s, p, status, end, t) # {}
<1> DEFINE Has(v) == \/ PP!AmountBreach(v, "APPROVE", s, p)
                     \/ PP!InstructionBreach(v, "APPROVE", status, end, t)
                     \/ PP!ApproverBreach(v, "APPROVE", s, p)
<1> SUFFICES \E v \in PP!Breaches : Has(v)
  BY DEF PP!Violations
<1>b. PP!Breaches =
        {"ALERT_AMOUNT_EXCEEDS_100B_LIMIT", "ALERT_AMOUNT_EXCEEDS_SUBJECT_LIMIT",
         "ALERT_UNAPPROVED_INSTRUCTION", "ALERT_EXPIRED_INSTRUCTION",
         "ALERT_NOT_MIDDLE_OFFICE_GROUP", "ALERT_LOB_COVERAGE_VIOLATION",
         "ALERT_SUBORDINATE_APPROVING_CREATOR", "NO_LIMIT_GROUP_ASSIGNED", "SELF_APPROVAL"}
  BY DEF PP!Breaches, PP!Alerts
<1>1. Staff[s].limits \subseteq Int /\ AbsoluteLimit \in Int
  BY AuthorizationAssumption DEF PP!Person
<1>2. ~PP!WithinAmountLimit(s, p) =>
        \/ Has("ALERT_AMOUNT_EXCEEDS_100B_LIMIT")
        \/ Has("ALERT_AMOUNT_EXCEEDS_SUBJECT_LIMIT")
        \/ Has("NO_LIMIT_GROUP_ASSIGNED")
  BY <1>1 DEF PP!WithinAmountLimit, PP!AmountBreach, PP!ExceedsAbsoluteLimit,
              PP!ExceedsSubjectLimit
<1>3. ~PP!InstructionUsable(status, end, t) =>
        Has("ALERT_UNAPPROVED_INSTRUCTION") \/ Has("ALERT_EXPIRED_INSTRUCTION")
  BY DEF PP!InstructionUsable, PP!InstructionBreach
<1>4. /\ ~PP!InMiddleOffice(s) => Has("ALERT_NOT_MIDDLE_OFFICE_GROUP")
      /\ PP!InMiddleOffice(s) /\ ~PP!CoversLob(s, p.lob) => Has("ALERT_LOB_COVERAGE_VIOLATION")
      /\ ~PP!PaymentCreatorIsNotApprover(s, p) => Has("SELF_APPROVAL")
      /\ ~PP!PaymentApproverNotSubordinateOfCreator(s, p)
           => Has("ALERT_SUBORDINATE_APPROVING_CREATOR")
  BY DEF PP!ApproverBreach
<1>5. ~PP!AllowApprove(s, p, status, end, t)
  BY DEF PP!Allowed
<1> HIDE DEF Has
<1> QED BY <1>b, <1>2, <1>3, <1>4, <1>5 DEF PP!AllowApprove, PP!Desk, PP!FundingApprover

LEMMA RefusalIsNamed ==
  ASSUME NEW q \in Questions, ~q.eligible, NEW t \in Int, Named(q), ~Permits(q, q.subject, t)
  PROVE  Refusal(q, q.subject, t) # {}
<1>1. CASE q.package = "instruction"
  BY <1>1, InstructionRefusalIsNamed, QuestionsAssumption DEF Permits, Refusal
<1>2. CASE q.package # "instruction"
  BY <1>2, PaymentRefusalIsNamed, QuestionsAssumption DEF Permits, Refusal, Named
<1> QED BY <1>1, <1>2

\* Whom the policy would permit to approve passes the filter of the user directory.
LEMMA PermittedIsCandidate ==
  ASSUME NEW q \in Questions, q.eligible, NEW u \in Users, NEW t, Permits(q, u, t)
  PROVE  Candidate(q, u)
<1>1. q.act = "APPROVE"
  BY QuestionsAssumption
<1>2. CASE q.package = "instruction"
  BY <1>1, <1>2
  DEF Permits, Candidate, IP!Allowed, IP!AllowApprove, IP!DeskApprover, IP!SameLob
<1>3. CASE q.package # "instruction"
  BY <1>1, <1>3 DEF Permits, Candidate, PP!Allowed, PP!AllowApprove
<1> QED BY <1>2, <1>3

-----------------------------------------------------------------------------
(* The candidates in a row.                                                *)

\* Every candidate gets a place in the row, and nobody else.
LEMMA Row ==
  ASSUME NEW S \in SUBSET Users
  PROVE  /\ SetToSeq(S) \in Seq(S)
         /\ \A u \in S : InTodo(SetToSeq(S), u)
<1>1. IsFiniteSet(S)
  BY AuthorizationAssumption, FS_Subset
<1> DEFINE n == Cardinality(S)
<1>2. n \in Nat /\ ExistsBijection(1..n, S)
  BY <1>1, FS_CardinalityType
<1> HIDE DEF n
<1>3. \E f \in [1..n -> S] : IsInjective(f)
  BY <1>2 DEF ExistsBijection, Bijection, Injection
<1> DEFINE r == CHOOSE f \in [1..n -> S] : IsInjective(f)
<1>4. r \in [1..n -> S] /\ IsInjective(r)
  BY <1>3
<1>5. SetToSeq(S) = r
  BY DEF SetToSeq, n
<1> HIDE DEF r
<1>6. r \in Injection(1..n, S)
  BY <1>4 DEF Injection
<1>7. Cardinality(1..n) = n
  BY <1>2, FS_Interval
<1>8. r \in Surjection(1..n, S)
  BY <1>1, <1>6, <1>7, FS_Injection DEF n
<1>9. r \in Seq(S) /\ Len(r) = n
  BY <1>2, <1>4
<1> QED BY <1>5, <1>8, <1>9 DEF Surjection, InTodo

\* A row is its first person and the rest.
LEMMA RowTail ==
  ASSUME NEW todo \in Seq(Users), todo # <<>>
  PROVE  /\ Head(todo) \in Users /\ Tail(todo) \in Seq(Users)
         /\ Len(todo) > 1 <=> Tail(todo) # <<>>
         /\ \A u : InTodo(todo, u) => u = Head(todo) \/ InTodo(Tail(todo), u)
<1>1. Head(todo) \in Users /\ Tail(todo) \in Seq(Users) /\ Len(Tail(todo)) = Len(todo) - 1
  OBVIOUS
<1>2. Len(todo) > 1 <=> Tail(todo) # <<>>
  BY <1>1
<1>3. ASSUME NEW u, InTodo(todo, u), u # Head(todo)
      PROVE  InTodo(Tail(todo), u)
  <2>1. PICK i \in 1..Len(todo) : todo[i] = u
    BY <1>3 DEF InTodo
  <2>2. i # 1
    BY <1>3, <2>1
  <2>3. i - 1 \in 1..Len(Tail(todo)) /\ Tail(todo)[i - 1] = u
    BY <1>1, <2>1, <2>2
  <2> QED BY <2>3 DEF InTodo
<1> QED BY <1>1, <1>2, <1>3

-----------------------------------------------------------------------------
(* The seed.                                                               *)

\* A pass tries one of the files it has to try.
LEMMA FirstIsOne ==
  ASSUME NEW order, NEW files, NEW n \in Nat, DOMAIN order = 1..n,
         \E i \in 1..n : order[i] \in files
  PROVE  First(order, files) \in files
<1> DEFINE T == {i \in 1..n : order[i] \in files}
<1>1. T # {} /\ T \subseteq Nat
  OBVIOUS
<1>2. PICK x \in T : \A y \in T : x =< y
  <2>1. PICK x \in T : \A y \in T : <<y, x>> \notin OpToRel(<, Nat)
    BY <1>1, NatLessThanWellFounded, WFMin
  <2>2. \A y \in T : x =< y
    <3> TAKE y \in T
    <3>1. x \in Nat /\ y \in Nat
      BY <1>1
    <3>2. ~(y < x)
      BY <2>1, <3>1 DEF OpToRel
    <3> QED BY <3>1, <3>2
  <2> QED BY <2>2
<1>3. \A j \in 1..(x - 1) : order[j] \notin files
  BY <1>2
<1> QED BY <1>2, <1>3 DEF First

LEMMA OrdersAreComplete ==
  /\ DOMAIN PreferredDeleteOrder = 1..11 /\ DOMAIN UploadOrder = 1..11
  /\ \A f \in Files : \E i \in 1..11 : PreferredDeleteOrder[i] = f
  /\ \A f \in Files : \E i \in 1..11 : UploadOrder[i] = f
<1>1. DOMAIN PreferredDeleteOrder = 1..11 /\ DOMAIN UploadOrder = 1..11
  BY DEF PreferredDeleteOrder, UploadOrder
<1>2. \A f \in Files : \E i \in 1..11 : PreferredDeleteOrder[i] = f
  BY DEF PreferredDeleteOrder, Files
<1>3. \A f \in Files : \E i \in 1..11 : UploadOrder[i] = f
  BY DEF UploadOrder, Files
<1> QED BY <1>1, <1>2, <1>3

LEMMA FirstFile ==
  ASSUME NEW files \in SUBSET Files, files # {}
  PROVE  First(PreferredDeleteOrder, files) \in files /\ First(UploadOrder, files) \in files
<1>1. PICK f \in Files : f \in files
  OBVIOUS
<1>2. PICK i \in 1..11 : PreferredDeleteOrder[i] = f
  BY OrdersAreComplete
<1>3. PICK j \in 1..11 : UploadOrder[j] = f
  BY OrdersAreComplete
<1>4. First(PreferredDeleteOrder, files) \in files
  BY <1>1, <1>2, OrdersAreComplete, FirstIsOne
<1>5. First(UploadOrder, files) \in files
  BY <1>1, <1>3, OrdersAreComplete, FirstIsOne
<1> QED BY <1>4, <1>5

SeedRecord == [phase : {"none", "clear", "upload", "done", "failed"},
               queue : SUBSET Files, failed : SUBSET Files,
               progress : BOOLEAN, attempt : 1..UploadRetries]

\* A run of the seed that goes on has something to try.
Busy(s) == s.phase \in {"clear", "upload"} => s.queue # {}

LEMMA NewRun ==
  /\ \A phase \in {"none", "done", "failed"} : Ended(phase) \in SeedRecord /\ Busy(Ended(phase))
  /\ \A n \in 1..UploadRetries : Uploading(n) \in SeedRecord /\ Busy(Uploading(n))
  /\ \A files \in SUBSET Files : Clearing(files) \in SeedRecord /\ Busy(Clearing(files))
<1>1. 1 \in 1..UploadRetries
  BY AuthorizationAssumption
<1>2. \A phase \in {"none", "done", "failed"} : Ended(phase) \in SeedRecord /\ Busy(Ended(phase))
  BY <1>1 DEF Ended, Run, SeedRecord, Busy
<1>3. Files # {}
  BY DEF Files
<1>4. \A n \in 1..UploadRetries : Uploading(n) \in SeedRecord /\ Busy(Uploading(n))
  BY <1>1, <1>3 DEF Uploading, Run, SeedRecord, Busy
<1>5. ASSUME NEW files \in SUBSET Files
      PROVE  Clearing(files) \in SeedRecord /\ Busy(Clearing(files))
  <2>1. CASE files = {}
    BY <1>1, <1>4, <2>1 DEF Clearing
  <2>2. CASE files # {}
    BY <1>1, <2>2 DEF Clearing, Run, SeedRecord, Busy
  <2> QED BY <2>1, <2>2
<1> QED BY <1>2, <1>4, <1>5

LEMMA AfterPass ==
  ASSUME NEW s \in SeedRecord, NEW file \in Files, NEW ok \in BOOLEAN,
         s.phase \in {"clear", "upload"}
  PROVE  /\ AfterDelete(Tried(s, file, ok)) \in SeedRecord /\ Busy(AfterDelete(Tried(s, file, ok)))
         /\ AfterUpload(Tried(s, file, ok)) \in SeedRecord /\ Busy(AfterUpload(Tried(s, file, ok)))
<1> DEFINE r == Tried(s, file, ok)
<1>1. r \in SeedRecord
  BY DEF Tried, SeedRecord
<1> HIDE DEF r
<1>2. r.failed \in SUBSET Files /\ r.attempt \in 1..UploadRetries
  BY <1>1 DEF SeedRecord
<1>3. r.attempt # UploadRetries => r.attempt + 1 \in 1..UploadRetries
  BY <1>2, AuthorizationAssumption
<1>4. CASE r.queue # {}
  BY <1>1, <1>4 DEF AfterDelete, AfterUpload, Busy, r
<1>5. CASE r.queue = {}
  <2>1. AfterDelete(r) \in {Ended("failed"), Clearing(r.failed)}
    BY <1>5 DEF AfterDelete
  <2>2. \/ AfterUpload(r) \in {Ended("done"), Ended("failed")}
        \/ r.attempt # UploadRetries /\ AfterUpload(r) = Uploading(r.attempt + 1)
    BY <1>5 DEF AfterUpload
  <2> QED BY <1>2, <1>3, <2>1, <2>2, NewRun DEF r
<1> QED BY <1>4, <1>5 DEF r

-----------------------------------------------------------------------------
(* Types.                                                                  *)

LEMMA QueryTypes ==
  ASSUME NEW q, NEW s
  PROVE  /\ QueryAllow(q, s) \in BOOLEAN
         /\ QueryBasis(q, s) \in SUBSET (IP!Reasons \cup PP!Reasons)
         /\ \A t : QueryViolations(q, s, t) \in SUBSET (IP!Breaches \cup PP!Breaches)
         /\ \A t : QueryAlert(q, s, t) \in BOOLEAN
<1>1. QueryBasis(q, s) \subseteq IP!Reasons \cup PP!Reasons
  BY DEF QueryBasis, IP!AllowBasis, PP!AllowBasis
<1>2. \A t : QueryViolations(q, s, t) \subseteq IP!Breaches \cup PP!Breaches
  BY DEF QueryViolations, IP!Violations, PP!Violations
<1> QED BY <1>1, <1>2 DEF QueryAllow, QueryAlert

\* Calls in progress stay calls when the files change.
LEMMA ChangeType ==
  ASSUME TypeOK, NEW files \in SUBSET Files, Change(files)
  PROVE  loaded' \in SUBSET Files /\ call' \in [Callers -> Answer \cup {Idle}]
<1>1. ASSUME NEW c \in Callers, call[c].step # "idle"
      PROVE  [call[c] EXCEPT !.steady = @ /\ call[c].step = "answered"] \in Answer
  <2>1. call[c] \in Answer
    BY <1>1 DEF TypeOK, Idle
  <2> QED BY <2>1 DEF Answer
<1> QED BY <1>1 DEF Change, TypeOK

\* A call that goes on, or is given up.
LEMMA SetType ==
  ASSUME TypeOK, NEW c \in Callers, NEW new \in Answer \cup {Idle}, Set(c, new)
  PROVE  call' \in [Callers -> Answer \cup {Idle}]
BY DEF Set, TypeOK

LEMMA StartedType ==
  ASSUME TypeOK, NEW q \in Questions, NEW todo \in Seq(Users)
  PROVE  Started(q, todo) \in Answer
<1>1. now \in 0..MaxNow /\ Complete(q.package) \in BOOLEAN
  BY DEF TypeOK, Complete
<1> QED BY <1>1 DEF Started, Answer

LEMMA ReceiveType ==
  ASSUME TypeOK, NEW c \in Callers, Receive(c)
  PROVE  call' \in [Callers -> Answer \cup {Idle}]
<1>1. PICK q \in Questions :
        IF ~q.eligible THEN Set(c, Started(q, <<>>)) ELSE
          LET todo == SetToSeq({u \in Users : Candidate(q, u)}) IN
          Set(c, [Started(q, todo) EXCEPT !.step = IF todo = <<>> THEN "answered" ELSE "allow"])
  BY DEF Receive
<1>2. CASE ~q.eligible
  <2>1. <<>> \in Seq(Users)
    OBVIOUS
  <2>2. Started(q, <<>>) \in Answer
    BY <2>1, StartedType
  <2> QED BY <1>1, <1>2, <2>2, SetType
<1>3. CASE q.eligible
  <2> DEFINE todo == SetToSeq({u \in Users : Candidate(q, u)})
  <2>1. todo \in Seq(Users)
    BY Row
  <2> HIDE DEF todo
  <2>2. Started(q, todo) \in Answer
    BY <2>1, StartedType
  <2>3. [Started(q, todo) EXCEPT !.step = IF todo = <<>> THEN "answered" ELSE "allow"] \in Answer
    BY <2>2 DEF Answer
  <2> QED BY <1>1, <1>3, <2>3, SetType DEF todo
<1> QED BY <1>2, <1>3

LEMMA NextCandidateType ==
  ASSUME NEW k \in Answer, k.todo # <<>>, NEW found \in BOOLEAN
  PROVE  NextCandidate(k, found) \in Answer
<1>1. k.todo \in Seq(Users) /\ k.eligible \in SUBSET Users
  BY DEF Answer
<1>2. Head(k.todo) \in Users /\ Tail(k.todo) \in Seq(Users)
  BY <1>1, RowTail
<1> QED BY <1>1, <1>2 DEF NextCandidate, Answer

\* While it asks about candidates there is one it is asking about.
LEMMA CallAtWork ==
  ASSUME TypeOK, CallInv, NEW c \in Callers, call[c].step # "idle"
  PROVE  /\ call[c] \in Answer /\ call[c].q \in Questions
         /\ call[c].q.eligible /\ call[c].step # "answered" => call[c].todo # <<>>
<1>1. call[c] \in Answer
  BY DEF TypeOK, Idle
<1> QED BY <1>1 DEF Answer, CallInv, CallOK, EligibleOK

LEMMA QueryStepType ==
  ASSUME TypeOK, CallInv, NEW c \in Callers,
         Allow(c) \/ Basis(c) \/ NameViolations(c) \/ Alert(c)
  PROVE  call' \in [Callers -> Answer \cup {Idle}]
<1> DEFINE k == call[c]
<1>1. k.step \notin {"idle", "answered"}
  BY DEF Allow, Basis, NameViolations, Alert
<1>2. k \in Answer /\ (k.q.eligible => k.todo # <<>>)
  BY <1>1, CallAtWork
<1> DEFINE s == Subject(c)
           ok == QueryAllow(k.q, s)
<1>3. ok \in BOOLEAN
  BY QueryTypes
<1>4. CASE Allow(c)
  <2> DEFINE new == [k EXCEPT !.allowed = ok /\ ~k.q.eligible,
                              !.step = IF ok THEN "basis" ELSE "violations"]
  <2>1. \/ k.q.eligible /\ Set(c, NextCandidate(k, FALSE))
        \/ Set(c, new)
    BY <1>4 DEF Allow
  <2> HIDE DEF k, s, ok
  <2>2. new \in Answer
    BY <1>2 DEF Answer
  <2>3. k.q.eligible => NextCandidate(k, FALSE) \in Answer
    BY <1>2, NextCandidateType
  <2> QED BY <2>1, <2>2, <2>3, SetType
<1>5. CASE Basis(c)
  <2> DEFINE basis == QueryBasis(k.q, s)
             new == [k EXCEPT !.basis = basis, !.step = "answered"]
  <2>1. \/ k.q.eligible /\ Set(c, NextCandidate(k, TRUE))
        \/ Set(c, new)
    BY <1>5 DEF Basis
  <2>2. basis \in SUBSET (IP!Reasons \cup PP!Reasons)
    BY QueryTypes
  <2> HIDE DEF k, s, basis
  <2>3. new \in Answer
    BY <1>2, <2>2 DEF Answer
  <2>4. k.q.eligible => NextCandidate(k, TRUE) \in Answer
    BY <1>2, NextCandidateType
  <2> QED BY <2>1, <2>3, <2>4, SetType
<1>6. CASE NameViolations(c)
  <2> DEFINE violations == QueryViolations(k.q, s, now)
             new == [k EXCEPT !.violations = violations, !.step = "alert"]
  <2>1. Set(c, new)
    BY <1>6 DEF NameViolations
  <2>2. violations \in SUBSET (IP!Breaches \cup PP!Breaches)
    BY QueryTypes
  <2> HIDE DEF k, s, violations
  <2>3. new \in Answer
    BY <1>2, <2>2 DEF Answer
  <2> QED BY <2>1, <2>3, SetType
<1>7. CASE Alert(c)
  <2> DEFINE alert == QueryAlert(k.q, s, now)
             new == [k EXCEPT !.alert = alert, !.step = "answered"]
  <2>1. Set(c, new)
    BY <1>7 DEF Alert
  <2>2. alert \in BOOLEAN
    BY QueryTypes
  <2> HIDE DEF k, s, alert
  <2>3. new \in Answer
    BY <1>2, <2>2 DEF Answer
  <2> QED BY <2>1, <2>3, SetType
<1> QED BY <1>4, <1>5, <1>6, <1>7

LEMMA InitType == Init => TypeOK /\ CallInv /\ SeedInv
<1> SUFFICES ASSUME Init PROVE TypeOK /\ CallInv /\ SeedInv
  OBVIOUS
<1>1. seed \in SeedRecord /\ Busy(seed)
  BY NewRun DEF Init
<1>2. CallInv
  BY DEF Init, CallInv, Idle
<1>3. SeedInv
  BY <1>1 DEF SeedInv, Busy
<1>4. call \in [Callers -> Answer \cup {Idle}]
  BY DEF Init
<1>5. loaded \subseteq Files /\ seeds = 0 /\ now = 0 /\ faults = 0
  BY DEF Init
<1>6. seeds \in 0..MaxSeeds /\ now \in 0..MaxNow /\ faults \in 0..MaxFaults
  BY <1>5, AuthorizationAssumption
<1>7. ready \in BOOLEAN
  BY Zenon DEF Init
<1> QED BY <1>1, <1>2, <1>3, <1>4, <1>5, <1>6, <1>7 DEF TypeOK, SeedRecord

\* One step of the seed.
LEMMA SeedType ==
  ASSUME TypeOK, SeedInv, Delete \/ Upload \/ LoseUpload \/ StartSeed \/ StopSeed
  PROVE  seed' \in SeedRecord /\ SeedInv'
<1>1. seed \in SeedRecord /\ loaded \in SUBSET Files
  BY DEF TypeOK, SeedRecord
<1>2. seed.phase \in {"clear", "upload"} => seed.queue \in SUBSET Files /\ seed.queue # {}
  BY <1>1 DEF SeedInv, SeedRecord
<1>3. seed.phase \in {"clear", "upload"} =>
        /\ First(PreferredDeleteOrder, seed.queue) \in Files
        /\ First(UploadOrder, seed.queue) \in Files
  BY <1>2, FirstFile
<1>4. seed' \in SeedRecord /\ Busy(seed')
  <2>1. CASE Delete
    <3> DEFINE file == First(PreferredDeleteOrder, seed.queue)
               ok == file \in loaded /\ Compiles(loaded \ {file})
    <3>1. seed.phase = "clear" /\ seed' = AfterDelete(Tried(seed, file, ok))
      BY <2>1 DEF Delete
    <3>2. ok \in BOOLEAN /\ file \in Files
      BY <1>3, <3>1
    <3> HIDE DEF file, ok
    <3> QED BY <1>1, <3>1, <3>2, AfterPass
  <2>2. CASE Upload
    <3> DEFINE file == First(UploadOrder, seed.queue)
               ok == Compiles(loaded \cup {file})
    <3>1. seed.phase = "upload" /\ seed' = AfterUpload(Tried(seed, file, ok))
      BY <2>2 DEF Upload
    <3>2. ok \in BOOLEAN /\ file \in Files
      BY <1>3, <3>1 DEF Compiles
    <3> HIDE DEF file, ok
    <3> QED BY <1>1, <3>1, <3>2, AfterPass
  <2>3. CASE LoseUpload
    <3> DEFINE file == First(UploadOrder, seed.queue)
    <3>1. seed.phase = "upload" /\ seed' = AfterUpload(Tried(seed, file, FALSE))
      BY <2>3 DEF LoseUpload
    <3>2. file \in Files
      BY <1>3, <3>1
    <3> HIDE DEF file
    <3> QED BY <1>1, <3>1, <3>2, AfterPass
  <2>4. CASE StartSeed
    BY <1>1, <2>4, NewRun DEF StartSeed
  <2>5. CASE StopSeed
    BY <2>5, NewRun DEF StopSeed
  <2> QED BY <2>1, <2>2, <2>3, <2>4, <2>5
<1> QED BY <1>4 DEF SeedInv, Busy

LEMMA NextType ==
  ASSUME TypeOK, CallInv, SeedInv, [Next]_vars
  PROVE  TypeOK' /\ SeedInv'
<1> DEFINE CallsOK == call' \in [Callers -> Answer \cup {Idle}]
           RestOK  == loaded' \in SUBSET Files /\ seeds' \in 0..MaxSeeds /\ ready' \in BOOLEAN
                        /\ now' \in 0..MaxNow /\ faults' \in 0..MaxFaults
<1>1. ASSUME CallsOK, RestOK, seed' \in SeedRecord
      PROVE  TypeOK'
  BY <1>1 DEF TypeOK, SeedRecord
<1>2. seed \in SeedRecord /\ loaded \in SUBSET Files
  BY DEF TypeOK, SeedRecord
<1>3. seed.phase \in {"clear", "upload"} =>
        /\ First(PreferredDeleteOrder, seed.queue) \in Files
        /\ First(UploadOrder, seed.queue) \in Files
  BY <1>2, FirstFile DEF SeedInv, SeedRecord
<1>4. CASE Delete \/ Upload \/ LoseUpload
  <2>1. \E files \in SUBSET Files : Change(files)
    BY <1>2, <1>3, <1>4 DEF Delete, Upload, LoseUpload
  <2>2. CallsOK /\ loaded' \in SUBSET Files
    BY <2>1, ChangeType
  <2>3. seeds' = seeds /\ now' = now
    BY <1>4 DEF Delete, Upload, LoseUpload
  <2>4. faults' = faults \/ (faults < MaxFaults /\ faults' = faults + 1)
    BY <1>4 DEF Delete, Upload, LoseUpload
  <2>5. faults' \in 0..MaxFaults
    BY <2>4, AuthorizationAssumption DEF TypeOK
  <2>6. ready' \in BOOLEAN
    BY <1>4 DEF Delete, Upload, LoseUpload, TypeOK
  <2> QED BY <1>1, <1>4, <2>2, <2>3, <2>5, <2>6, SeedType DEF TypeOK
<1>5. CASE StartSeed \/ StopSeed
  <2>1. RestOK
    BY <1>5, AuthorizationAssumption DEF StartSeed, StopSeed, TypeOK
  <2>2. CallsOK
    BY <1>5 DEF StartSeed, StopSeed, TypeOK
  <2> QED BY <1>1, <1>5, <2>1, <2>2, SeedType
<1>6. CASE OpaRestart
  <2>1. Change({}) /\ UNCHANGED <<seed, seeds, ready, now>>
    BY <1>6 DEF OpaRestart
  <2>2. CallsOK /\ loaded' \in SUBSET Files
    BY <2>1, ChangeType
  <2>3. faults' \in 0..MaxFaults
    BY <1>6, AuthorizationAssumption DEF OpaRestart, TypeOK
  <2> QED BY <1>1, <1>2, <2>1, <2>2, <2>3 DEF TypeOK, SeedInv
<1>7. CASE Tick
  <2>1. now' \in 0..MaxNow /\ UNCHANGED <<loaded, seed, seeds, ready, call, faults>>
    BY <1>7, AuthorizationAssumption DEF Tick, policy, TypeOK
  <2> QED BY <1>1, <1>2, <2>1 DEF TypeOK, SeedInv
<1>8. ASSUME NEW c \in Callers,
             Receive(c) \/ Allow(c) \/ Basis(c) \/ NameViolations(c) \/ Alert(c) \/ Fail(c)
      PROVE  TypeOK' /\ SeedInv'
  <2>1. UNCHANGED <<loaded, seed, seeds, ready, now>>
    BY <1>8 DEF Receive, Allow, Basis, NameViolations, Alert, Fail, policy
  <2>3. faults' = faults \/ (faults < MaxFaults /\ faults' = faults + 1)
    BY <1>8 DEF Receive, Allow, Basis, NameViolations, Alert, Fail
  <2>4. faults' \in 0..MaxFaults
    BY <2>3, AuthorizationAssumption DEF TypeOK
  <2>2. CallsOK
    <3>1. CASE Fail(c)
      BY <3>1, SetType DEF Fail
    <3> QED BY <1>8, <3>1, ReceiveType, QueryStepType
  <2> QED BY <1>1, <1>2, <2>1, <2>2, <2>4 DEF TypeOK, SeedInv
<1>9. CASE UNCHANGED vars
  BY <1>9 DEF vars, TypeOK, SeedInv
<1> QED BY <1>4, <1>5, <1>6, <1>7, <1>8, <1>9 DEF Next, SeedStep

-----------------------------------------------------------------------------
(* The evaluations.                                                        *)

\* Asked of a complete package, OPA says what the whole policy says.
LEMMA FullAnswers ==
  ASSUME NEW q \in Questions, Full(loaded, q.package), NEW s
  PROVE  /\ QueryAllow(q, s) <=> Permits(q, s, now)
         /\ QueryBasis(q, s) = Ground(q, s, now)
         /\ \A t : QueryViolations(q, s, t) = Refusal(q, s, t)
<1>1. q.package \in {"instruction", "payment"}
  BY QuestionsAssumption
<1>2. \A f \in {"lifecycle", "violations", "allow_basis"} :
        <<q.package, f>> \in Files /\ <<q.package, f>>[1] = q.package
  BY <1>1 DEF Files
<1>3. \A f \in {"lifecycle", "violations", "allow_basis"} : ~Undefined(q, f)
  BY <1>2 DEF Full, Undefined
<1> QED BY <1>3 DEF QueryAllow, QueryBasis, QueryViolations, Ground, Refusal

\* What has been found stays true as OPA's clock goes on.
LEMMA LaterOK ==
  ASSUME NEW k \in Answer, NEW files, NEW t \in Int, NEW u \in Int, t <= u, CallOK(k, files, t)
  PROVE  CallOK(k, files, u)
<1>1. k.q \in Questions /\ k.asked \in Int
  BY AuthorizationAssumption DEF Answer
<1>2. k.asked <= u
  BY <1>1 DEF CallOK
<1>3. \A s : Permits(k.q, s, u) => Permits(k.q, s, t)
  BY <1>1, PermitsEarlier
<1>4. Refusal(k.q, k.q.subject, t) \subseteq Refusal(k.q, k.q.subject, u)
  BY <1>1, RefusalsGrow
<1>5. CASE k.q.eligible
  BY <1>2, <1>3, <1>5 DEF CallOK, EligibleOK
<1>6. CASE ~k.q.eligible
  <2>1. DecisionOK(k, t)
    BY <1>6 DEF CallOK
  <2>2. DecisionOK(k, u)
    BY <1>3, <1>4, <2>1 DEF DecisionOK
  <2> QED BY <1>2, <1>6, <2>2 DEF CallOK
<1> QED BY <1>5, <1>6

\* A call in progress while the policy changes counts as unsteady from then on; one that
\* has been answered stays as it is.
LEMMA TouchedOK ==
  ASSUME NEW k \in Answer, NEW files, NEW other, NEW t, CallOK(k, files, t)
  PROVE  CallOK([k EXCEPT !.steady = @ /\ k.step = "answered"], other, t)
<1> DEFINE n == [k EXCEPT !.steady = @ /\ k.step = "answered"]
<1>1. /\ n.step = k.step /\ n.q = k.q /\ n.todo = k.todo /\ n.eligible = k.eligible
      /\ n.asked = k.asked /\ n.allowed = k.allowed /\ n.basis = k.basis
      /\ n.violations = k.violations /\ n.alert = k.alert
      /\ n.steady <=> k.steady /\ k.step = "answered"
  BY DEF Answer
<1> SUFFICES CallOK(n, other, t)
  OBVIOUS
<1> HIDE DEF n
<1>2. n.steady /\ n.step # "answered" => Full(other, n.q.package)
  BY <1>1
<1>3. n.asked <= t
  BY <1>1 DEF CallOK
<1>4. CASE k.q.eligible
  <2>1. EligibleOK(k, t)
    BY <1>4 DEF CallOK
  <2>2. EligibleOK(n, t)
    BY <1>1, <2>1 DEF EligibleOK
  <2> QED BY <1>1, <1>2, <1>3, <1>4, <2>2 DEF CallOK
<1>5. CASE ~k.q.eligible
  <2>1. DecisionOK(k, t)
    BY <1>5 DEF CallOK
  <2>2. DecisionOK(n, t)
    BY <1>1, <2>1 DEF DecisionOK
  <2> QED BY <1>1, <1>2, <1>3, <1>5, <2>2 DEF CallOK
<1> QED BY <1>4, <1>5

LEMMA ChangeCalls ==
  ASSUME TypeOK, CallInv, NEW files, Change(files), now' = now
  PROVE  CallInv'
<1> SUFFICES ASSUME NEW c \in Callers, call'[c].step # "idle"
             PROVE  CallOK(call'[c], files, now)
  BY DEF CallInv, Change
<1>1. CASE call[c].step = "idle" \/ files = loaded
  <2>1. call'[c] = call[c]
    BY <1>1 DEF Change
  <2>2. files = loaded /\ call[c].step # "idle"
    BY <1>1, <2>1
  <2> QED BY <2>1, <2>2 DEF CallInv
<1>2. CASE call[c].step # "idle" /\ files # loaded
  <2>1. call'[c] = [call[c] EXCEPT !.steady = @ /\ call[c].step = "answered"]
    BY <1>2 DEF Change
  <2>2. call[c] \in Answer /\ CallOK(call[c], loaded, now)
    BY <1>2, CallAtWork DEF CallInv
  <2> QED BY <2>1, <2>2, TouchedOK
<1> QED BY <1>1, <1>2

LEMMA SetCall ==
  ASSUME TypeOK, CallInv, NEW c \in Callers, NEW new, Set(c, new), UNCHANGED <<loaded, now>>,
         new.step # "idle" => CallOK(new, loaded, now)
  PROVE  CallInv'
<1> SUFFICES ASSUME NEW u \in Callers, call'[u].step # "idle"
             PROVE  CallOK(call'[u], loaded, now)
  BY DEF CallInv
<1>1. call'[u] = IF u = c THEN new ELSE call[u]
  BY DEF Set, TypeOK
<1> QED BY <1>1 DEF CallInv

LEMMA ReceiveCall ==
  ASSUME TypeOK, CallInv, NEW c \in Callers, Receive(c)
  PROVE  CallInv'
<1>1. PICK q \in Questions :
        IF ~q.eligible THEN Set(c, Started(q, <<>>)) ELSE
          LET todo == SetToSeq({u \in Users : Candidate(q, u)}) IN
          Set(c, [Started(q, todo) EXCEPT !.step = IF todo = <<>> THEN "answered" ELSE "allow"])
  BY DEF Receive
<1>2. UNCHANGED <<loaded, now>> /\ now \in Int
  BY AuthorizationAssumption DEF Receive, policy, TypeOK
<1>3. CASE ~q.eligible
  <2> DEFINE k == Started(q, <<>>)
  <2>1. /\ k.step = "allow" /\ k.q = q /\ k.asked = now /\ k.eligible = {} /\ k.violations = {}
        /\ ~k.allowed
        /\ k.steady => Full(loaded, q.package)
    BY DEF Started, Complete, Full
  <2> HIDE DEF k
  <2>2. CallOK(k, loaded, now)
    BY <1>2, <1>3, <2>1 DEF CallOK, DecisionOK
  <2> QED BY <1>1, <1>2, <1>3, <2>2, SetCall DEF k
<1>4. CASE q.eligible
  <2> DEFINE S == {u \in Users : Candidate(q, u)}
             todo == SetToSeq(S)
             k == [Started(q, todo) EXCEPT !.step = IF todo = <<>> THEN "answered" ELSE "allow"]
  <2>1. todo \in Seq(Users) /\ \A u \in S : InTodo(todo, u)
    BY Row
  <2>2. \A u \in Users : Permits(q, u, now) => u \in S
    BY <1>4, PermittedIsCandidate
  <2>3. \A u \in Users : Permits(q, u, now) => InTodo(todo, u)
    BY <2>1, <2>2
  <2>4. Set(c, k)
    BY <1>1, <1>4
  <2> HIDE DEF S, todo
  <2>5. /\ k.step = IF todo = <<>> THEN "answered" ELSE "allow"
        /\ k.q = q /\ k.todo = todo /\ k.asked = now /\ k.eligible = {} /\ k.violations = {}
        /\ ~k.allowed
        /\ k.steady => Full(loaded, q.package)
    BY DEF Started, Complete, Full
  <2> HIDE DEF k
  <2>6. CallOK(k, loaded, now)
    BY <1>2, <1>4, <2>3, <2>5 DEF CallOK, EligibleOK
  <2> QED BY <1>2, <2>4, <2>6, SetCall
<1> QED BY <1>3, <1>4

\* The next candidate, when the one before is entered only if permitted, and is passed
\* over, by a complete policy, only if not permitted.
LEMMA NextCandidateOK ==
  ASSUME NEW k \in Answer, NEW files, NEW t, CallOK(k, files, t), k.q.eligible, k.todo # <<>>,
         NEW found \in BOOLEAN,
         found => Permits(k.q, Head(k.todo), k.asked),
         ~found /\ k.steady => ~Permits(k.q, Head(k.todo), t)
  PROVE  CallOK(NextCandidate(k, found), files, t)
<1> DEFINE h == Head(k.todo)
           n == NextCandidate(k, found)
<1>1. k.todo \in Seq(Users)
  BY DEF Answer
<1>2. /\ Len(k.todo) > 1 <=> Tail(k.todo) # <<>>
      /\ \A u : InTodo(k.todo, u) => u = h \/ InTodo(Tail(k.todo), u)
  BY <1>1, RowTail
<1>3. /\ n.q = k.q /\ n.asked = k.asked /\ n.steady = k.steady /\ n.allowed = k.allowed
      /\ n.violations = k.violations
      /\ n.todo = Tail(k.todo)
      /\ n.eligible = IF found THEN k.eligible \cup {h} ELSE k.eligible
      /\ n.step = IF Len(k.todo) > 1 THEN "allow" ELSE "answered"
  BY DEF NextCandidate, Answer
<1> HIDE DEF h, n
<1>4. /\ EligibleOK(k, t) /\ k.asked <= t /\ k.step # "answered"
      /\ k.steady => Full(files, k.q.package)
  BY DEF CallOK, EligibleOK
<1>5. \A u \in n.eligible : Permits(k.q, u, k.asked)
  BY <1>3, <1>4 DEF EligibleOK, h
<1>6. k.steady => \A u \in Users :
        Permits(k.q, u, t) => u \in n.eligible \/ InTodo(n.todo, u)
  BY <1>2, <1>3, <1>4 DEF EligibleOK, h
<1>7. EligibleOK(n, t)
  BY <1>2, <1>3, <1>4, <1>5, <1>6 DEF EligibleOK
<1> QED BY <1>3, <1>4, <1>7 DEF CallOK, n

\* What a query of a call in progress may use.
LEMMA AtQuery ==
  ASSUME TypeOK, CallInv, NEW c \in Callers, call[c].step \notin {"idle", "answered"}
  PROVE  LET k == call[c] IN
         /\ k \in Answer /\ k.q \in Questions /\ CallOK(k, loaded, now)
         /\ k.asked \in Int /\ now \in Int /\ k.asked <= now
         /\ k.steady => Full(loaded, k.q.package)
         /\ k.q.eligible => EligibleOK(k, now) /\ k.todo # <<>> /\ Subject(c) = Head(k.todo)
         /\ ~k.q.eligible => DecisionOK(k, now) /\ Subject(c) = k.q.subject
<1>1. call[c] \in Answer /\ call[c].q \in Questions /\ CallOK(call[c], loaded, now)
  BY CallAtWork DEF CallInv
<1>2. call[c].asked \in Int /\ now \in Int
  BY <1>1, AuthorizationAssumption DEF Answer, TypeOK
<1> QED BY <1>1, <1>2 DEF CallOK, EligibleOK, Subject

LEMMA AllowCall ==
  ASSUME TypeOK, CallInv, NEW c \in Callers, Allow(c)
  PROVE  CallInv'
<1> DEFINE k == call[c]
           s == Subject(c)
           ok == QueryAllow(k.q, s)
           new == [k EXCEPT !.allowed = ok /\ ~k.q.eligible,
                            !.step = IF ok THEN "basis" ELSE "violations"]
<1>1. k.step = "allow" /\ UNCHANGED <<loaded, now>>
  BY DEF Allow, policy
<1>2. /\ k \in Answer /\ k.q \in Questions /\ CallOK(k, loaded, now)
      /\ k.asked \in Int /\ now \in Int /\ k.asked <= now
      /\ k.steady => Full(loaded, k.q.package)
      /\ k.q.eligible => EligibleOK(k, now) /\ k.todo # <<>> /\ s = Head(k.todo)
      /\ ~k.q.eligible => DecisionOK(k, now) /\ s = k.q.subject
  BY <1>1, AtQuery
<1>3. Set(c, IF k.q.eligible /\ ~ok THEN NextCandidate(k, FALSE) ELSE new)
  BY DEF Allow
<1>4. ok \in BOOLEAN
  BY QueryTypes
<1>5. ok => Permits(k.q, s, now)
  BY DEF QueryAllow
<1>6. k.steady => (ok <=> Permits(k.q, s, now))
  BY <1>2, FullAnswers
<1> HIDE DEF k, s, ok
<1>7. ok => Permits(k.q, s, k.asked)
  BY <1>2, <1>5, PermitsEarlier
<1>8. /\ new.q = k.q /\ new.todo = k.todo /\ new.eligible = k.eligible
      /\ new.asked = k.asked /\ new.steady = k.steady
      /\ new.violations = k.violations
      /\ new.allowed <=> ok /\ ~k.q.eligible
      /\ new.step = IF ok THEN "basis" ELSE "violations"
  BY <1>2 DEF Answer
<1>9. CASE k.q.eligible /\ ~ok
  <2>1. CallOK(NextCandidate(k, FALSE), loaded, now)
    BY <1>2, <1>6, <1>9, NextCandidateOK
  <2> QED BY <1>1, <1>3, <1>9, <2>1, SetCall
<1>10. CASE k.q.eligible /\ ok
  <2> HIDE DEF new
  <2>1. EligibleOK(new, now)
    BY <1>1, <1>2, <1>7, <1>8, <1>10 DEF EligibleOK
  <2>2. CallOK(new, loaded, now)
    BY <1>2, <1>8, <1>10, <2>1 DEF CallOK
  <2> QED BY <1>1, <1>3, <1>10, <2>2, SetCall
<1>11. CASE ~k.q.eligible
  <2> HIDE DEF new
  <2>1. DecisionOK(new, now)
    BY <1>1, <1>2, <1>6, <1>7, <1>8, <1>11 DEF DecisionOK
  <2>2. CallOK(new, loaded, now)
    BY <1>2, <1>8, <1>11, <2>1 DEF CallOK
  <2> QED BY <1>1, <1>3, <1>11, <2>2, SetCall
<1> QED BY <1>9, <1>10, <1>11

LEMMA BasisCall ==
  ASSUME TypeOK, CallInv, NEW c \in Callers, Basis(c)
  PROVE  CallInv'
<1> DEFINE k == call[c]
           s == Subject(c)
           basis == QueryBasis(k.q, s)
           new == [k EXCEPT !.basis = basis, !.step = "answered"]
<1>1. k.step = "basis" /\ UNCHANGED <<loaded, now>>
  BY DEF Basis, policy
<1>2. /\ k \in Answer /\ k.q \in Questions /\ CallOK(k, loaded, now)
      /\ k.asked \in Int /\ now \in Int /\ k.asked <= now
      /\ k.steady => Full(loaded, k.q.package)
      /\ k.q.eligible => EligibleOK(k, now) /\ k.todo # <<>> /\ s = Head(k.todo)
      /\ ~k.q.eligible => DecisionOK(k, now) /\ s = k.q.subject
  BY <1>1, AtQuery
<1>3. Set(c, IF k.q.eligible THEN NextCandidate(k, TRUE) ELSE new)
  BY DEF Basis
<1>4. k.steady => basis = Ground(k.q, s, now)
  BY <1>2, FullAnswers
<1> HIDE DEF k, s, basis
<1>5. CASE k.q.eligible
  <2>1. CallOK(NextCandidate(k, TRUE), loaded, now)
    BY <1>1, <1>2, <1>5, NextCandidateOK DEF EligibleOK
  <2> QED BY <1>1, <1>3, <1>5, <2>1, SetCall
<1>6. CASE ~k.q.eligible
  <2>1. k.allowed /\ Permits(k.q, s, k.asked) /\ k.violations = {}
    BY <1>1, <1>2, <1>6 DEF DecisionOK
  <2>2. k.steady => basis # {}
    BY <1>2, <1>4, <2>1, GrantHasGround
  <2>3. /\ new.q = k.q /\ new.eligible = k.eligible /\ new.asked = k.asked
        /\ new.steady = k.steady /\ new.violations = k.violations
        /\ new.allowed = k.allowed /\ new.basis = basis /\ new.step = "answered"
    BY <1>2 DEF Answer
  <2> HIDE DEF new
  <2>4. DecisionOK(new, now)
    BY <1>2, <1>6, <2>1, <2>2, <2>3 DEF DecisionOK
  <2>5. CallOK(new, loaded, now)
    BY <1>2, <1>6, <2>3, <2>4 DEF CallOK
  <2> QED BY <1>1, <1>3, <1>6, <2>5, SetCall
<1> QED BY <1>5, <1>6

LEMMA ViolationsCall ==
  ASSUME TypeOK, CallInv, NEW c \in Callers, NameViolations(c)
  PROVE  CallInv'
<1> DEFINE k == call[c]
           s == Subject(c)
           named == QueryViolations(k.q, s, now)
           new == [k EXCEPT !.violations = named, !.step = "alert"]
<1>1. k.step = "violations" /\ UNCHANGED <<loaded, now>>
  BY DEF NameViolations, policy
<1>2. /\ k \in Answer /\ k.q \in Questions /\ CallOK(k, loaded, now)
      /\ k.asked \in Int /\ now \in Int /\ k.asked <= now
      /\ k.steady => Full(loaded, k.q.package)
      /\ k.q.eligible => EligibleOK(k, now) /\ k.todo # <<>> /\ s = Head(k.todo)
      /\ ~k.q.eligible => DecisionOK(k, now) /\ s = k.q.subject
  BY <1>1, AtQuery
<1>3. Set(c, new)
  BY DEF NameViolations
<1>4. k.steady => named = Refusal(k.q, s, now)
  BY <1>2, FullAnswers
<1> HIDE DEF k, s, named
<1>5. ~k.q.eligible
  BY <1>1, <1>2 DEF EligibleOK
<1>6. ~k.allowed /\ k.eligible = {} /\ (k.steady => ~Permits(k.q, s, now))
  BY <1>1, <1>2, <1>5 DEF DecisionOK
<1>7. k.steady /\ Named(k.q) => named # {}
  BY <1>2, <1>4, <1>5, <1>6, RefusalIsNamed
<1>8. /\ new.q = k.q /\ new.eligible = k.eligible /\ new.asked = k.asked
      /\ new.steady = k.steady /\ new.violations = named
      /\ new.allowed = k.allowed /\ new.step = "alert"
  BY <1>2 DEF Answer
<1> HIDE DEF new
<1>9. DecisionOK(new, now)
  BY <1>2, <1>4, <1>5, <1>6, <1>7, <1>8 DEF DecisionOK
<1>10. CallOK(new, loaded, now)
  BY <1>2, <1>5, <1>8, <1>9 DEF CallOK
<1> QED BY <1>1, <1>3, <1>10, SetCall

LEMMA AlertCall ==
  ASSUME TypeOK, CallInv, NEW c \in Callers, Alert(c)
  PROVE  CallInv'
<1> DEFINE k == call[c]
           s == Subject(c)
           alert == QueryAlert(k.q, s, now)
           new == [k EXCEPT !.alert = alert, !.step = "answered"]
<1>1. k.step = "alert" /\ UNCHANGED <<loaded, now>>
  BY DEF Alert, policy
<1>2. /\ k \in Answer /\ k.q \in Questions /\ CallOK(k, loaded, now)
      /\ k.asked \in Int /\ now \in Int /\ k.asked <= now
      /\ k.steady => Full(loaded, k.q.package)
      /\ k.q.eligible => EligibleOK(k, now) /\ k.todo # <<>> /\ s = Head(k.todo)
      /\ ~k.q.eligible => DecisionOK(k, now) /\ s = k.q.subject
  BY <1>1, AtQuery
<1>3. Set(c, new)
  BY DEF Alert
<1>4. k.steady => (alert <=> Refusal(k.q, s, now) \cap AlertsOf(k.q) # {})
  BY <1>2, FullAnswers DEF QueryAlert
<1> HIDE DEF k, s, alert
<1>5. ~k.q.eligible
  BY <1>1, <1>2 DEF EligibleOK
<1>6. /\ ~k.allowed /\ k.eligible = {}
      /\ k.steady => /\ k.violations \subseteq Refusal(k.q, s, now)
                     /\ Named(k.q) => k.violations # {}
  BY <1>1, <1>2, <1>5 DEF DecisionOK
<1>7. k.steady /\ k.violations \cap AlertsOf(k.q) # {} => alert
  BY <1>4, <1>6
<1>8. /\ new.q = k.q /\ new.eligible = k.eligible /\ new.asked = k.asked
      /\ new.steady = k.steady /\ new.violations = k.violations
      /\ new.allowed = k.allowed /\ new.step = "answered" /\ new.alert = alert
  BY <1>2 DEF Answer
<1> HIDE DEF new
<1>9. DecisionOK(new, now)
  BY <1>2, <1>5, <1>6, <1>7, <1>8 DEF DecisionOK
<1>10. CallOK(new, loaded, now)
  BY <1>2, <1>5, <1>8, <1>9 DEF CallOK
<1> QED BY <1>1, <1>3, <1>10, SetCall

LEMMA NextCall ==
  ASSUME TypeOK, CallInv, SeedInv, [Next]_vars
  PROVE  CallInv'
<1>1. CASE Delete \/ Upload \/ LoseUpload \/ OpaRestart
  <2>1. (\E files : Change(files)) /\ now' = now
    BY <1>1 DEF Delete, Upload, LoseUpload, OpaRestart
  <2> QED BY <2>1, ChangeCalls
<1>2. CASE StartSeed \/ StopSeed \/ UNCHANGED vars
  <2>1. UNCHANGED <<loaded, call, now>>
    BY <1>2 DEF StartSeed, StopSeed, vars
  <2> QED BY <2>1 DEF CallInv
<1>3. CASE Tick
  <2>1. UNCHANGED <<loaded, call>> /\ now \in Int /\ now' \in Int /\ now <= now'
    BY <1>3, AuthorizationAssumption DEF Tick, policy, TypeOK
  <2> SUFFICES ASSUME NEW c \in Callers, call[c].step # "idle"
               PROVE  CallOK(call[c], loaded, now')
    BY <2>1 DEF CallInv
  <2>2. call[c] \in Answer /\ CallOK(call[c], loaded, now)
    BY CallAtWork DEF CallInv
  <2> QED BY <2>1, <2>2, LaterOK
<1>4. ASSUME NEW c \in Callers, Fail(c)
      PROVE  CallInv'
  <2>1. Set(c, Idle) /\ UNCHANGED <<loaded, now>> /\ Idle.step = "idle"
    BY <1>4 DEF Fail, policy, Idle
  <2> QED BY <2>1, SetCall
<1> QED BY <1>1, <1>2, <1>3, <1>4, ReceiveCall, AllowCall, BasisCall, ViolationsCall, AlertCall
        DEF Next, SeedStep

LEMMA EvaluationInvariant == Spec => [](TypeOK /\ CallInv /\ SeedInv)
<1>1. TypeOK /\ CallInv /\ SeedInv /\ [Next]_vars => (TypeOK /\ CallInv /\ SeedInv)'
  BY NextType, NextCall
<1> QED BY <1>1, InitType, PTL DEF Spec

-----------------------------------------------------------------------------
(* The theorems.                                                           *)

\* Every reachable state is well typed; the seed never makes more attempts than its
\* environment allows and never asks for a file that is not there.
THEOREM AuthorizationTypeCorrect == Spec => []TypeOK
<1> QED BY EvaluationInvariant, PTL

\* A policy half deleted, half uploaded, lost at a restart of OPA, or older than the clock
\* never permits what the whole policy did not permit as it was asked, for every directory
\* and every question.
THEOREM NeverPermitsMore == Spec => []FailsClosed
<1>1. TypeOK /\ CallInv => FailsClosed
  <2> SUFFICES ASSUME TypeOK, CallInv, NEW c \in Callers, call[c].step # "idle"
               PROVE  /\ call[c].allowed => Permits(call[c].q, call[c].q.subject, call[c].asked)
                      /\ \A u \in call[c].eligible : Permits(call[c].q, u, call[c].asked)
    BY DEF FailsClosed
  <2>1. CallOK(call[c], loaded, now)
    BY DEF CallInv
  <2>2. CASE call[c].q.eligible
    BY <2>1, <2>2 DEF CallOK, EligibleOK
  <2>3. CASE ~call[c].q.eligible
    BY <2>1, <2>3 DEF CallOK, DecisionOK
  <2> QED BY <2>2, <2>3
<1> QED BY <1>1, EvaluationInvariant, PTL

\* A yes comes with a basis, and a refusal the policies have a name for with a violation,
\* although allow, allow_basis and violations are rules of their own and are asked one
\* after the other while the clock goes on.
THEOREM DecisionsAreExplained == Spec => []ExplainedDecision
<1>1. CallInv => ExplainedDecision
  <2> SUFFICES ASSUME CallInv, NEW c \in Callers, Steady(call[c]), ~call[c].q.eligible
               PROVE  IF call[c].allowed THEN call[c].basis # {}
                      ELSE Named(call[c].q) => call[c].violations # {}
    BY DEF ExplainedDecision, Named
  <2>1. DecisionOK(call[c], now)
    BY DEF CallInv, CallOK, Steady
  <2> QED BY <2>1 DEF DecisionOK, Steady
<1> QED BY <1>1, EvaluationInvariant, PTL

\* No list of violations with an alert in it goes out as no alert: between the two queries
\* the clock can only add violations.
THEOREM AlertsAreNotLost == Spec => []AlertFollowsList
<1>1. CallInv => AlertFollowsList
  <2> SUFFICES ASSUME CallInv, NEW c \in Callers, Steady(call[c]),
                      call[c].violations \cap AlertsOf(call[c].q) # {}
               PROVE  call[c].alert
    BY DEF AlertFollowsList
  <2>1. CallOK(call[c], loaded, now)
    BY DEF CallInv, Steady
  <2>2. ~call[c].q.eligible
    BY <2>1 DEF CallOK, EligibleOK
  <2> QED BY <2>1, <2>2 DEF CallOK, DecisionOK, Steady
<1> QED BY <1>1, EvaluationInvariant, PTL

\* Nobody whom the policy would permit to approve is missing from the eligible approvers:
\* the filter of the user directory passes them all, and each of them is asked about.
THEOREM NobodyEligibleIsMissing == Spec => []EligibleIsComplete
<1>1. TypeOK /\ CallInv => EligibleIsComplete
  <2> SUFFICES ASSUME CallInv, NEW c \in Callers, Steady(call[c]), call[c].q.eligible,
                      NEW u \in Users, Permits(call[c].q, u, now)
               PROVE  u \in call[c].eligible
    BY DEF EligibleIsComplete
  <2>1. EligibleOK(call[c], now)
    BY DEF CallInv, CallOK, Steady
  <2>2. call[c].todo = <<>> /\ ~InTodo(<<>>, u)
    BY <2>1 DEF EligibleOK, Steady, InTodo
  <2> QED BY <2>1, <2>2 DEF EligibleOK, Steady
<1> QED BY <1>1, EvaluationInvariant, PTL

-----------------------------------------------------------------------------
(* A run of the seed that succeeds.                                        *)

Position(file) == CHOOSE i \in 1..11 : UploadOrder[i] = file

\* A file still to come that will be refused: a file it needs is not in OPA and does not
\* come before it.
Doomed(queue, files) ==
  \E f \in queue : \E g \in Imports(f) :
    g \notin files /\ (g \notin queue \/ Position(g) > Position(f))

LastFile == <<"payment", "violations">>

\* In an attempt without an error so far everything tried is in OPA, or an error is still
\* to come.
AttemptOK(s, files) ==
  s.phase = "upload" =>
    /\ LastFile \in s.queue
    /\ s.failed = {} => Files \ s.queue \subseteq files \/ Doomed(s.queue, files)

UploadInv == AttemptOK(seed, loaded)

LEMMA Positions ==
  /\ \A i \in 1..11 : UploadOrder[i] \in Files /\ Position(UploadOrder[i]) = i
  /\ \A f \in Files : Position(f) \in 1..11 /\ UploadOrder[Position(f)] = f
  /\ Position(LastFile) = 11
  /\ LastFile \in Files
<1>1. \A i \in 1..11, j \in 1..11 : UploadOrder[i] = UploadOrder[j] => i = j
  BY DEF UploadOrder
<1>2. \A i \in 1..11 : UploadOrder[i] \in Files
  BY DEF UploadOrder, Files
<1>3. \A i \in 1..11 : Position(UploadOrder[i]) = i
  <2> TAKE i \in 1..11
  <2> DEFINE j == CHOOSE x \in 1..11 : UploadOrder[x] = UploadOrder[i]
  <2>1. j \in 1..11 /\ UploadOrder[j] = UploadOrder[i]
    OBVIOUS
  <2>2. Position(UploadOrder[i]) = j
    BY DEF Position
  <2> HIDE DEF j
  <2> QED BY <1>1, <2>1, <2>2
<1>4. UploadOrder[11] = LastFile
  BY DEF UploadOrder, LastFile
<1>5. 11 \in 1..11
  OBVIOUS
<1> QED BY <1>2, <1>3, <1>4, <1>5, OrdersAreComplete

\* The first file of a pass has no other before it.
LEMMA FirstIsFirst ==
  ASSUME NEW files \in SUBSET Files, files # {}, NEW f \in files
  PROVE  Position(First(UploadOrder, files)) <= Position(f)
<1> DEFINE T == {i \in DOMAIN UploadOrder : UploadOrder[i] \in files}
<1>1. T \subseteq 1..11 /\ Position(f) \in T
  BY Positions, OrdersAreComplete
<1>2. PICK x \in T : \A y \in T : x =< y
  <2>1. T \subseteq Nat /\ T # {}
    BY <1>1
  <2>2. PICK x \in T : \A y \in T : <<y, x>> \notin OpToRel(<, Nat)
    BY <2>1, NatLessThanWellFounded, WFMin
  <2>3. \A y \in T : x =< y
    <3> TAKE y \in T
    <3>1. x \in Nat /\ y \in Nat
      BY <2>1
    <3>2. ~(y < x)
      BY <2>2, <3>1 DEF OpToRel
    <3> QED BY <3>1, <3>2
  <2> QED BY <2>3
<1> DEFINE m == CHOOSE i \in DOMAIN UploadOrder :
                  /\ UploadOrder[i] \in files
                  /\ \A j \in 1..(i - 1) : UploadOrder[j] \notin files
<1>3. m \in T /\ \A y \in T : m =< y
  <2>1. \A j \in 1..(x - 1) : UploadOrder[j] \notin files
    BY <1>1, <1>2, OrdersAreComplete
  <2>2. m \in T /\ \A j \in 1..(m - 1) : UploadOrder[j] \notin files
    BY <1>2, <2>1
  <2> HIDE DEF m
  <2>3. ASSUME NEW y \in T  PROVE  m =< y
    BY <1>1, <2>2, <2>3, OrdersAreComplete
  <2> QED BY <2>2, <2>3
<1>4. First(UploadOrder, files) = UploadOrder[m]
  BY DEF First
<1> HIDE DEF T, m
<1>5. Position(First(UploadOrder, files)) = m
  BY <1>1, <1>3, <1>4, Positions
<1> QED BY <1>1, <1>3, <1>5

LEMMA ImportsAreFiles ==
  /\ \A f \in Files : Imports(f) \subseteq Files /\ f \notin Imports(f)
  /\ <<"payment", "common">> \in Imports(<<"payment", "amount_limits">>)
  /\ <<"payment", "common">> \in Imports(LastFile)
  /\ <<"payment", "amount_limits">> \in Imports(LastFile)
  /\ Position(<<"payment", "amount_limits">>) = 8 /\ Position(<<"payment", "common">>) = 9
<1>1. /\ Imports(<<"payment", "amount_limits">>) = {<<"payment", "common">>}
      /\ Imports(LastFile) = {<<"payment", f>> : f \in {"common", "amount_limits"}}
  BY DEF Imports, LastFile
<1>2. ASSUME NEW f \in Files
      PROVE  Imports(f) \subseteq Files /\ f \notin Imports(f)
  <2>1. CASE f[2] \in {"common", "approval_matrix", "lifecycle_rules"}
    BY <2>1 DEF Imports
  <2>2. CASE f[2] = "amount_limits"
    BY <2>2 DEF Imports, Files
  <2>3. CASE f[2] \in {"lifecycle", "violations", "allow_basis"} /\ f[1] = "instruction"
    BY <2>3 DEF Imports, Files
  <2>4. CASE f[2] \in {"lifecycle", "violations", "allow_basis"} /\ f[1] = "payment"
    BY <2>4 DEF Imports, Files
  <2> QED BY <2>1, <2>2, <2>3, <2>4 DEF Files
<1>3. UploadOrder[8] = <<"payment", "amount_limits">> /\ UploadOrder[9] = <<"payment", "common">>
  BY DEF UploadOrder
<1>4. 8 \in 1..11 /\ 9 \in 1..11
  OBVIOUS
<1> QED BY <1>1, <1>2, <1>3, <1>4, Positions

\* When OPA loses its policy in the middle of an attempt the attempt fails: the last file
\* needs two others, and the first of them the second.
LEMMA LostPolicyDooms ==
  ASSUME NEW queue \in SUBSET Files, LastFile \in queue
  PROVE  Doomed(queue, {})
<1> DEFINE limits == <<"payment", "amount_limits">>
           common == <<"payment", "common">>
<1>1. CASE limits \in queue /\ common \in queue
  BY <1>1, ImportsAreFiles DEF Doomed
<1>2. CASE limits \notin queue \/ common \notin queue
  BY <1>2, ImportsAreFiles DEF Doomed
<1> QED BY <1>1, <1>2

\* One upload, of which OPA takes nothing that does not compile.
LEMMA UploadStep ==
  ASSUME NEW s \in SeedRecord, NEW files \in SUBSET Files, AttemptOK(s, files),
         s.phase = "upload", NEW file, file = First(UploadOrder, s.queue),
         NEW ok \in BOOLEAN, ok => Compiles(files \cup {file}),
         NEW after, after = (IF ok THEN files \cup {file} ELSE files)
  PROVE  LET n == AfterUpload(Tried(s, file, ok)) IN
         /\ AttemptOK(n, after)
         /\ n.phase = "done" => after = Files
<1> DEFINE r == Tried(s, file, ok)
           n == AfterUpload(r)
<1>1. s.queue \in SUBSET Files /\ LastFile \in s.queue
  BY DEF AttemptOK, SeedRecord
<1>2. file \in s.queue /\ file \in Files
  BY <1>1, FirstFile
<1>3. /\ r.phase = "upload" /\ r.queue = s.queue \ {file}
      /\ r.failed = IF ok THEN s.failed ELSE s.failed \cup {file}
  BY DEF Tried, SeedRecord
<1> HIDE DEF r
<1>4. r.failed = {} => ok /\ s.failed = {} /\ after = files \cup {file}
  BY <1>3
<1>5. ASSUME r.failed = {}
      PROVE  Files \ r.queue \subseteq after \/ Doomed(r.queue, after)
  <2>1. CASE Files \ s.queue \subseteq files
    BY <1>3, <1>4, <1>5, <2>1
  <2>2. CASE Doomed(s.queue, files)
    <3>1. PICK f \in s.queue : \E g \in Imports(f) :
            g \notin files /\ (g \notin s.queue \/ Position(g) > Position(f))
      BY <2>2 DEF Doomed
    <3>2. PICK g \in Imports(f) :
            g \notin files /\ (g \notin s.queue \/ Position(g) > Position(f))
      BY <3>1
    <3>3. f \in Files /\ g \in Files /\ f # g
      BY <1>1, ImportsAreFiles
    <3>4. f # file
      <4> SUFFICES ASSUME f = file PROVE FALSE
        OBVIOUS
      <4>1. Imports(file) \subseteq files \cup {file}
        BY <1>4, <1>5 DEF Compiles
      <4> QED BY <3>2, <3>3, <4>1
    <3>5. g # file
      <4> SUFFICES ASSUME g = file PROVE FALSE
        OBVIOUS
      <4>1. Position(g) > Position(f)
        BY <1>2, <3>2
      <4>2. Position(g) <= Position(f)
        BY <1>1, FirstIsFirst
      <4>3. Position(g) \in 1..11 /\ Position(f) \in 1..11
        BY <3>3, Positions
      <4> QED BY <4>1, <4>2, <4>3
    <3>6. f \in r.queue /\ g \notin after /\ (g \notin r.queue \/ Position(g) > Position(f))
      BY <1>3, <1>4, <1>5, <3>2, <3>4, <3>5
    <3> QED BY <3>6 DEF Doomed
  <2> QED BY <1>4, <1>5, <2>1, <2>2 DEF AttemptOK
<1>6. CASE r.queue # {}
  <2>1. n = r
    BY <1>6 DEF AfterUpload
  <2>2. LastFile \in r.queue
    <3> SUFFICES ASSUME file = LastFile PROVE FALSE
      BY <1>1, <1>3
    <3>1. PICK f \in s.queue : f # file
      BY <1>3, <1>6
    <3>2. Position(LastFile) <= Position(f) /\ f \in Files
      BY <1>1, FirstIsFirst
    <3>3. f = UploadOrder[Position(f)] /\ LastFile = UploadOrder[Position(LastFile)]
          /\ Position(f) \in 1..11 /\ Position(LastFile) = 11
      BY <3>2, Positions
    <3>4. Position(f) = 11
      BY <3>2, <3>3
    <3> QED BY <3>1, <3>3, <3>4
  <2> HIDE DEF n
  <2> QED BY <1>3, <1>5, <2>1, <2>2 DEF AttemptOK, n, r
<1>7. CASE r.queue = {}
  <2>1. r.failed = {} => Files \subseteq after
    BY <1>5, <1>7 DEF Doomed
  <2>2. after \subseteq Files
    BY <1>2
  <2>3. \/ r.failed = {} /\ n = Ended("done")
        \/ n = Ended("failed")
        \/ n = Uploading(r.attempt + 1)
    BY <1>7 DEF AfterUpload
  <2>4. /\ \A a : /\ Uploading(a).phase = "upload" /\ Uploading(a).queue = Files
                  /\ Uploading(a).failed = {}
        /\ \A p : Ended(p).phase = p
    BY DEF Uploading, Ended, Run
  <2> HIDE DEF n
  <2>5. AttemptOK(n, after)
    BY <2>3, <2>4, Positions DEF AttemptOK
  <2>6. n.phase = "done" => after = Files
    BY <2>1, <2>2, <2>3, <2>4
  <2> QED BY <2>5, <2>6 DEF n, r
<1> QED BY <1>6, <1>7

\* A run that starts to upload has everything before it.
LEMMA ClearingOK ==
  ASSUME NEW files, NEW loadedFiles
  PROVE  AttemptOK(Clearing(files), loadedFiles) /\ Clearing(files).phase # "done"
<1>1. \/ Clearing(files).phase = "clear"
      \/ /\ Clearing(files).phase = "upload" /\ Clearing(files).queue = Files
  BY DEF Clearing, Uploading, Run
<1> QED BY <1>1, Positions DEF AttemptOK

LEMMA NextUpload ==
  ASSUME TypeOK, SeedInv, UploadInv, [Next]_vars
  PROVE  /\ UploadInv'
         /\ seed.phase # "done" /\ seed'.phase = "done" => loaded' = Files
<1>1. seed \in SeedRecord /\ loaded \in SUBSET Files
  BY DEF TypeOK, SeedRecord
<1>2. CASE Upload
  <2> DEFINE file == First(UploadOrder, seed.queue)
             ok == Compiles(loaded \cup {file})
  <2>1. /\ seed.phase = "upload" /\ ok \in BOOLEAN
        /\ loaded' = IF ok THEN loaded \cup {file} ELSE loaded
        /\ seed' = AfterUpload(Tried(seed, file, ok))
    BY <1>2 DEF Upload, Change, Compiles
  <2> HIDE DEF file
  <2>2. AttemptOK(seed, loaded) /\ file = First(UploadOrder, seed.queue)
    BY DEF UploadInv, file
  <2>3. AttemptOK(seed', loaded') /\ (seed'.phase = "done" => loaded' = Files)
    BY <1>1, <2>1, <2>2, UploadStep
  <2> QED BY <2>3 DEF UploadInv
<1>3. CASE LoseUpload
  <2> DEFINE file == First(UploadOrder, seed.queue)
  <2>1. seed.phase = "upload" /\ seed' = AfterUpload(Tried(seed, file, FALSE))
    BY <1>3 DEF LoseUpload
  <2>2. file \in seed.queue
    BY <1>1, <2>1, FirstFile DEF SeedInv, SeedRecord
  <2>3. AttemptOK(seed, loaded) /\ file = First(UploadOrder, seed.queue)
    BY DEF UploadInv
  <2> HIDE DEF file
  <2>4. AttemptOK(AfterUpload(Tried(seed, file, FALSE)), loaded)
    BY <1>1, <2>1, <2>3, UploadStep
  <2> DEFINE r == Tried(seed, file, FALSE)
  <2>5. r.failed # {} /\ r.phase = "upload"
    BY <1>1, <2>1, <2>2 DEF Tried, SeedRecord
  <2>6. seed' = AfterUpload(r) /\ AttemptOK(AfterUpload(r), loaded)
    BY <2>1, <2>4
  <2> HIDE DEF r
  <2>7. CASE r.queue # {}
    <3>1. seed' = r
      BY <2>6, <2>7 DEF AfterUpload
    <3> QED BY <2>5, <2>6, <3>1 DEF AttemptOK, UploadInv
  <2>8. CASE r.queue = {}
    <3>1. seed' \in {Ended("failed"), Uploading(r.attempt + 1)}
      BY <2>5, <2>6, <2>8 DEF AfterUpload
    <3>2. /\ Ended("failed").phase = "failed"
          /\ \A a : Uploading(a).phase = "upload" /\ Uploading(a).queue = Files
      BY DEF Ended, Uploading, Run
    <3> QED BY <3>1, <3>2, Positions DEF AttemptOK, UploadInv
  <2> QED BY <2>7, <2>8
<1>4. CASE Delete
  <2> DEFINE file == First(PreferredDeleteOrder, seed.queue)
             ok == file \in loaded /\ Compiles(loaded \ {file})
             r == Tried(seed, file, ok)
  <2>1. seed.phase = "clear" /\ seed' = AfterDelete(r)
    BY <1>4 DEF Delete
  <2>2. r.phase = "clear"
    BY <1>1, <2>1 DEF Tried, SeedRecord
  <2> HIDE DEF r
  <2>3. seed' \in {r, Ended("failed"), Clearing(r.failed)}
    BY <2>1 DEF AfterDelete
  <2>4. Ended("failed").phase = "failed"
    BY DEF Ended, Run
  <2>5. AttemptOK(seed', loaded') /\ seed'.phase # "done"
    BY <2>2, <2>3, <2>4, ClearingOK DEF AttemptOK
  <2> QED BY <2>5 DEF UploadInv
<1>5. CASE StartSeed
  BY <1>5, ClearingOK DEF StartSeed, UploadInv
<1>6. CASE StopSeed
  BY <1>6 DEF StopSeed, UploadInv, AttemptOK, Ended, Run
<1>7. CASE OpaRestart
  <2>1. seed' = seed /\ loaded' = {}
    BY <1>7 DEF OpaRestart, Change
  <2>2. seed.phase = "upload" => LastFile \in seed.queue /\ seed.queue \in SUBSET Files
    BY <1>1 DEF UploadInv, AttemptOK, SeedRecord
  <2>3. seed.phase = "upload" => Doomed(seed.queue, {})
    BY <2>2, LostPolicyDooms
  <2> QED BY <2>1, <2>2, <2>3 DEF UploadInv, AttemptOK
<1>8. [Next]_vars /\ ~(Upload \/ LoseUpload \/ Delete \/ StartSeed \/ StopSeed \/ OpaRestart)
        => UNCHANGED <<seed, loaded>>
  BY DEF Next, SeedStep, Tick, Receive, Allow, Basis, NameViolations, Alert, Fail, policy, vars
<1>9. CASE UNCHANGED <<seed, loaded>>
  BY <1>9 DEF UploadInv
<1> QED BY <1>2, <1>3, <1>4, <1>5, <1>6, <1>7, <1>8, <1>9

\* A run of the seed that reports success leaves every file in OPA, also when OPA lost its
\* policy in the middle of the attempt: a later file of it is then refused.
THEOREM SuccessLoadsEverything == Spec => SuccessMeansComplete
<1>1. Init => UploadInv
  BY DEF Init, UploadInv, AttemptOK, Ended, Run
<1>2. TypeOK /\ SeedInv /\ UploadInv /\ [Next]_vars => UploadInv'
  BY NextUpload
<1>3. TypeOK /\ SeedInv /\ UploadInv /\ [Next]_vars =>
        [seed.phase # "done" /\ seed'.phase = "done" => loaded' = Files]_vars
  BY NextUpload
<1> QED BY <1>1, <1>2, <1>3, EvaluationInvariant, PTL DEF Spec, SuccessMeansComplete

=============================================================================
