------------------------ MODULE AuthorizationService ------------------------
(***************************************************************************)
(* authorization-service answers a policy question with several HTTP calls *)
(* to OPA: allow first, then the basis of a yes, or the violations and     *)
(* is_alert of a no; and a question for the eligible approvers with such   *)
(* calls for one candidate after the other.  Between the calls OPA's clock *)
(* goes on, OPA may restart with no policy, and the seed may replace the   *)
(* policy file by file: OPA takes only a set of files that compiles.       *)
(***************************************************************************)
EXTENDS Integers, Sequences, FiniteSets, SequencesExt

CONSTANTS
  Users, NoUser, Lobs, NoLob, ProfitCenters,
  Directory, Staff, \* what the two policies see of every user of users.yaml
  MaxTerm, AbsoluteLimit,
  Callers,          \* requests authorization-service works on at once
  Questions,        \* what may be asked
  UploadRetries,    \* the environment variable, 5 when it is not set
  MaxNow, MaxFaults, MaxSeeds     \* bounds: the clock, failures, runs of the seed

VARIABLES
  loaded,           \* the policy files OPA has
  seed,             \* the run of upload_policies.py
  seeds,            \* how often it has been started
  ready,            \* a run has succeeded: the services are started
  call,             \* the evaluation a caller is waiting for, or its answer
  now,              \* OPA's clock
  faults

vars == <<loaded, seed, seeds, ready, call, now, faults>>

IP == INSTANCE InstructionVerdicts
PP == INSTANCE PaymentVerdicts

\* A question: the package that answers it and the input, or the eligible approvers of
\* the instruction or payment in it.
Ask(package, act, subject, about) ==
  [package |-> package, act |-> act, subject |-> subject, about |-> about, eligible |-> FALSE]

AskEligible(package, about) ==
  [Ask(package, "APPROVE", NoUser, about) EXCEPT !.eligible = TRUE]

ASSUME AuthorizationAssumption ==
  /\ IsFiniteSet(Users)
  /\ Directory \in [Users -> IP!Person]
  /\ Staff \in [Users -> PP!Person]
  /\ ProfitCenters \subseteq Lobs /\ NoLob \notin Lobs /\ NoUser \notin Users
  /\ UploadRetries \in Nat \ {0}
  /\ MaxTerm \in Nat /\ AbsoluteLimit \in Nat
  /\ MaxNow \in Nat /\ MaxFaults \in Nat /\ MaxSeeds \in Nat

\* What the routes accept: an action the package knows, asked by a user of the directory
\* or, for the eligible approvers, of every candidate.
ASSUME QuestionsAssumption ==
  \A q \in Questions :
    /\ q.eligible \in BOOLEAN
    /\ IF q.eligible THEN q.act = "APPROVE" ELSE q.subject \in Users
    /\ q.about.end \in Int
    /\ \/ q.package = "instruction" /\ q.act \in IP!Actions
       \/ q.package = "payment" /\ q.act \in PP!PaymentActions /\ q.about.amount \in Int

-----------------------------------------------------------------------------
(* The policy files and how they depend on each other.                     *)

Files == {<<"instruction", "lifecycle">>, <<"instruction", "violations">>,
          <<"instruction", "allow_basis">>, <<"instruction", "lifecycle_rules">>,
          <<"instruction", "approval_matrix">>, <<"instruction", "common">>,
          <<"payment", "lifecycle">>, <<"payment", "violations">>,
          <<"payment", "allow_basis">>, <<"payment", "amount_limits">>,
          <<"payment", "common">>}

\* The files of its package whose rules a file refers to.
Imports(file) ==
  IF file[2] \in {"common", "approval_matrix", "lifecycle_rules"} THEN {}
  ELSE IF file[2] = "amount_limits" THEN {<<"payment", "common">>}
  ELSE IF file[1] = "instruction"
    THEN {<<"instruction", f>> : f \in {"common", "lifecycle_rules", "approval_matrix"}}
  ELSE {<<"payment", f>> : f \in {"common", "amount_limits"}}

\* OPA refuses a change after which a file refers to a rule that is not there.
Compiles(files) == \A file \in files : Imports(file) \subseteq files

PreferredDeleteOrder ==
  <<<<"instruction", "lifecycle">>, <<"instruction", "violations">>,
    <<"instruction", "allow_basis">>, <<"instruction", "lifecycle_rules">>,
    <<"instruction", "approval_matrix">>, <<"instruction", "common">>,
    <<"payment", "lifecycle">>, <<"payment", "violations">>,
    <<"payment", "allow_basis">>, <<"payment", "amount_limits">>, <<"payment", "common">>>>

\* collect_policies: sorted by path.
UploadOrder ==
  <<<<"instruction", "allow_basis">>, <<"instruction", "approval_matrix">>,
    <<"instruction", "common">>, <<"instruction", "lifecycle">>,
    <<"instruction", "lifecycle_rules">>, <<"instruction", "violations">>,
    <<"payment", "allow_basis">>, <<"payment", "amount_limits">>, <<"payment", "common">>,
    <<"payment", "lifecycle">>, <<"payment", "violations">>>>

\* A question may be answered by a complete package.
Complete(package) == {file \in Files : file[1] = package} \subseteq loaded

-----------------------------------------------------------------------------
(* One query of OPA.  A rule of a file that is not loaded is undefined.    *)

Delegated(q) == q.about.delegated

\* What the whole policy says of a question, for a subject at a time.
Permits(q, s, t) ==
  IF q.package = "instruction"
    THEN IP!Allowed(q.act, s, Delegated(q), q.about, t)
    ELSE PP!Allowed(q.act, s, q.about, q.about.status, q.about.end, t)

Undefined(q, file) == <<q.package, file>> \notin loaded

\* Mutant of QueryAllow: an undefined decision is no refusal.
QueryAllowUnlessFalse(q, s) == Undefined(q, "lifecycle") \/ Permits(q, s, now)

\* bool(result): an undefined decision is a refusal.
QueryAllow(q, s) == ~Undefined(q, "lifecycle") /\ Permits(q, s, now)

QueryBasis(q, s) ==
  IF Undefined(q, "allow_basis") THEN {}
  ELSE IF q.package = "instruction"
    THEN IP!AllowBasis(q.act, s, Delegated(q), q.about, now)
    ELSE PP!AllowBasis(q.act, s, q.about, q.about.status, q.about.end, now)

QueryViolations(q, s, t) ==
  IF Undefined(q, "violations") THEN {}
  ELSE IF q.package = "instruction"
    THEN IP!Violations(q.act, s, Delegated(q), q.about, t)
    ELSE PP!Violations(q.act, s, q.about, q.about.status, q.about.end, t)

AlertsOf(q) == IF q.package = "instruction" THEN IP!Alerts ELSE PP!Alerts

QueryAlert(q, s, t) == QueryViolations(q, s, t) \cap AlertsOf(q) # {}

-----------------------------------------------------------------------------
(* The seed.  What a run still has to try in this pass over the files is   *)
(* in queue; failed is what has not worked in this pass.                   *)

Run(phase, queue) == [phase |-> phase, queue |-> queue, progress |-> FALSE,
                      attempt |-> 1, failed |-> {}]

Ended(phase) == Run(phase, {})

Uploading(attempt) == [Run("upload", Files) EXCEPT !.attempt = attempt]

\* clear_policies: pass after pass over what OPA still lists; nothing to clear, upload.
Clearing(files) ==
  IF files = {} THEN Uploading(1) ELSE Run("clear", files)

\* Mutant of AfterDelete: without the exit of a pass that deletes nothing.
AfterDeleteForever(s) ==
  IF s.queue # {} THEN s ELSE Clearing(s.failed)

AfterDelete(s) ==
  IF s.queue # {} THEN s
  ELSE IF ~s.progress THEN Ended("failed") ELSE Clearing(s.failed)

\* Mutant of AfterUpload: without the exit code of a run whose attempts are used up.
AfterUploadGivenUp(s) ==
  IF s.queue # {} THEN s
  ELSE IF s.failed = {} \/ s.attempt = UploadRetries THEN Ended("done")
  ELSE Uploading(s.attempt + 1)

\* Mutant of AfterUpload: one attempt too many.
AfterUploadOnceMore(s) ==
  IF s.queue # {} THEN s
  ELSE IF s.failed = {} THEN Ended("done")
  ELSE IF s.attempt > UploadRetries THEN Ended("failed")
  ELSE Uploading(s.attempt + 1)

\* The end of an attempt: every file once more if any of them failed.
AfterUpload(s) ==
  IF s.queue # {} THEN s
  ELSE IF s.failed = {} THEN Ended("done")
  ELSE IF s.attempt = UploadRetries THEN Ended("failed")
  ELSE Uploading(s.attempt + 1)

\* The file a pass tries first.
First(order, files) ==
  order[CHOOSE i \in DOMAIN order :
          order[i] \in files /\ \A j \in 1..(i - 1) : order[j] \notin files]

\* The rest of a pass, when the call for a file has worked or not.
Tried(s, file, ok) ==
  [s EXCEPT !.queue = @ \ {file}, !.progress = @ \/ ok,
            !.failed = IF ok THEN @ ELSE @ \cup {file}]

\* OPA's answer to a change of its files, and what becomes of the calls in progress.
Change(files) ==
  /\ loaded' = files
  /\ call' = [c \in Callers |->
                IF call[c].step = "idle" \/ files = loaded THEN call[c]
                ELSE [call[c] EXCEPT !.steady = @ /\ call[c].step = "answered"]]

StartSeed ==
  /\ seed.phase \in {"none", "done", "failed"}
  /\ seeds < MaxSeeds
  /\ seeds' = seeds + 1
  /\ seed' = Clearing(loaded)
  /\ UNCHANGED <<loaded, ready, call, now, faults>>

\* A file OPA no longer has, or cannot do without, is not deleted.
Delete ==
  LET file == First(PreferredDeleteOrder, seed.queue)
      ok   == file \in loaded /\ Compiles(loaded \ {file}) IN
  /\ seed.phase = "clear"
  /\ Change(IF ok THEN loaded \ {file} ELSE loaded)
  /\ seed' = AfterDelete(Tried(seed, file, ok))
  /\ UNCHANGED <<seeds, ready, now, faults>>

Upload ==
  LET file == First(UploadOrder, seed.queue)
      ok   == Compiles(loaded \cup {file}) IN
  /\ seed.phase = "upload"
  /\ Change(IF ok THEN loaded \cup {file} ELSE loaded)
  /\ seed' = AfterUpload(Tried(seed, file, ok))
  /\ ready' = (ready \/ seed'.phase = "done")
  /\ UNCHANGED <<seeds, now, faults>>

\* The answer to an upload is lost, its effect perhaps not: an error like any other.
LoseUpload ==
  LET file == First(UploadOrder, seed.queue) IN
  /\ seed.phase = "upload"
  /\ faults < MaxFaults
  /\ faults' = faults + 1
  /\ \E arrived \in BOOLEAN :
       Change(IF arrived /\ Compiles(loaded \cup {file}) THEN loaded \cup {file} ELSE loaded)
  /\ seed' = AfterUpload(Tried(seed, file, FALSE))
  /\ UNCHANGED <<seeds, ready, now>>

\* A lost connection while it clears ends the run; so does stopping the container.
StopSeed ==
  /\ seed.phase \in {"clear", "upload"}
  /\ faults < MaxFaults
  /\ faults' = faults + 1
  /\ seed' = Ended("failed")
  /\ UNCHANGED <<loaded, seeds, ready, call, now>>

\* OPA keeps its policies in memory, and nothing runs the seed when it restarts.
OpaRestart ==
  /\ faults < MaxFaults
  /\ faults' = faults + 1
  /\ Change({})
  /\ UNCHANGED <<seed, seeds, ready, now>>

-----------------------------------------------------------------------------
(* Evaluations.                                                            *)

\* What a caller is waiting for or has been answered.  asked is the time of the first
\* query; steady says that the policy has been complete and the same ever since.
Idle == [step |-> "idle"]

Started(q, todo) ==
  [step |-> "allow", q |-> q, todo |-> todo, eligible |-> {}, asked |-> now,
   steady |-> Complete(q.package), allowed |-> FALSE, basis |-> {}, violations |-> {},
   alert |-> FALSE]

\* Mutant of Candidate: payments filtered like instructions, by the approver's own desk.
CandidateByDesk(q, u) ==
  IF q.package = "instruction"
    THEN IP!HasRole(u, "INSTRUCTION_APPROVER") /\ Directory[u].lob = q.about.lob
    ELSE PP!HasRole(u, "FUNDING_APPROVER") /\ Directory[u].lob = q.about.lob

\* The users of the seed file that are asked about, in the order of their ids: the
\* conditions of the policy that need no query are tried first.
Candidate(q, u) ==
  IF q.package = "instruction"
    THEN IP!HasRole(u, "INSTRUCTION_APPROVER") /\ Directory[u].lob = q.about.lob
    ELSE PP!Desk(u, "FUNDING_APPROVER", q.about)

Subject(c) == IF call[c].q.eligible THEN Head(call[c].todo) ELSE call[c].q.subject

Set(c, new) == call' = [call EXCEPT ![c] = new]

policy == <<loaded, seed, seeds, ready>>

\* A request arrives; the services are started when the seed has succeeded once.
Receive(c) ==
  /\ ready
  /\ call[c].step \in {"idle", "answered"}
  /\ \E q \in Questions :
       IF ~q.eligible THEN Set(c, Started(q, <<>>)) ELSE
         LET todo == SetToSeq({u \in Users : Candidate(q, u)}) IN
         Set(c, [Started(q, todo) EXCEPT !.step = IF todo = <<>> THEN "answered" ELSE "allow"])
  /\ UNCHANGED <<policy, now, faults>>

\* The answer for one candidate; the next one is asked about.
NextCandidate(k, found) ==
  [k EXCEPT !.todo = Tail(@),
            !.eligible = IF found THEN @ \cup {Head(k.todo)} ELSE @,
            !.step = IF Len(k.todo) > 1 THEN "allow" ELSE "answered"]

Allow(c) ==
  LET k  == call[c]
      ok == QueryAllow(k.q, Subject(c)) IN
  /\ k.step = "allow"
  /\ Set(c, IF k.q.eligible /\ ~ok THEN NextCandidate(k, FALSE)
            ELSE [k EXCEPT !.allowed = ok /\ ~k.q.eligible,
                           !.step = IF ok THEN "basis" ELSE "violations"])
  /\ UNCHANGED <<policy, now, faults>>

Basis(c) ==
  LET k == call[c] IN
  /\ k.step = "basis"
  /\ Set(c, IF k.q.eligible THEN NextCandidate(k, TRUE)
            ELSE [k EXCEPT !.basis = QueryBasis(k.q, Subject(c)), !.step = "answered"])
  /\ UNCHANGED <<policy, now, faults>>

NameViolations(c) ==
  LET k == call[c] IN
  /\ k.step = "violations"
  /\ Set(c, [k EXCEPT !.violations = QueryViolations(k.q, Subject(c), now), !.step = "alert"])
  /\ UNCHANGED <<policy, now, faults>>

\* Mutant of Alert: is_alert of the time of the question.
AlertAsAsked(c) ==
  LET k == call[c] IN
  /\ k.step = "alert"
  /\ Set(c, [k EXCEPT !.alert = QueryAlert(k.q, Subject(c), k.asked), !.step = "answered"])
  /\ UNCHANGED <<policy, now, faults>>

Alert(c) ==
  LET k == call[c] IN
  /\ k.step = "alert"
  /\ Set(c, [k EXCEPT !.alert = QueryAlert(k.q, Subject(c), now), !.step = "answered"])
  /\ UNCHANGED <<policy, now, faults>>

\* An HTTP error or a timeout of any of the queries: 503, and no decision.
Fail(c) ==
  /\ call[c].step \notin {"idle", "answered"}
  /\ faults < MaxFaults
  /\ faults' = faults + 1
  /\ Set(c, Idle)
  /\ UNCHANGED <<policy, now>>

Tick ==
  /\ now < MaxNow
  /\ now' = now + 1
  /\ UNCHANGED <<policy, call, faults>>

Init ==
  /\ loaded = {} /\ seed = Ended("none") /\ seeds = 0 /\ ready = FALSE
  /\ call = [c \in Callers |-> Idle]
  /\ now = 0 /\ faults = 0

SeedStep == Delete \/ Upload

Next ==
  \/ StartSeed \/ SeedStep \/ LoseUpload \/ StopSeed \/ OpaRestart \/ Tick
  \/ \E c \in Callers :
       Receive(c) \/ Allow(c) \/ Basis(c) \/ NameViolations(c) \/ Alert(c) \/ Fail(c)

Spec == Init /\ [][Next]_vars

\* The container of the seed runs.
FairSpec == Spec /\ WF_vars(SeedStep)

-----------------------------------------------------------------------------
(* Properties.                                                             *)

Answer ==
  [step : {"allow", "basis", "violations", "alert", "answered"}, q : Questions,
   todo : Seq(Users), eligible : SUBSET Users, asked : 0..MaxNow, steady : BOOLEAN,
   allowed : BOOLEAN, basis : SUBSET (IP!Reasons \cup PP!Reasons),
   violations : SUBSET (IP!Breaches \cup PP!Breaches), alert : BOOLEAN]

\* Every variable stays in its type; the seed never makes more attempts than it may
\* (main, upload_policies.py).
TypeOK ==
  /\ loaded \subseteq Files
  /\ seed \in [phase : {"none", "clear", "upload", "done", "failed"},
               queue : SUBSET Files, failed : SUBSET Files,
               progress : BOOLEAN, attempt : 1..UploadRetries]
  /\ seeds \in 0..MaxSeeds /\ ready \in BOOLEAN
  /\ call \in [Callers -> Answer \cup {Idle}]
  /\ now \in 0..MaxNow /\ faults \in 0..MaxFaults

\* Whatever became of the policy since the question, a caller is only told yes, and a
\* candidate only found eligible, when the whole policy permitted it as it was asked:
\* a policy half deleted, half uploaded or lost never permits more (_evaluate, opa.py).
FailsClosed ==
  \A c \in Callers :
    LET k == call[c] IN
    k.step # "idle" =>
      /\ k.allowed => Permits(k.q, k.q.subject, k.asked)
      /\ \A u \in k.eligible : Permits(k.q, u, k.asked)

\* Answered under one and the same complete policy.
Steady(k) == k.step = "answered" /\ k.steady

\* As long as nobody touches the policy, a yes comes with a basis, and a no of the
\* instruction policy, or to a funding approver who wants to approve, with a violation:
\* the rules of a refusal cover the rules of a permission (violations.rego).
ExplainedDecision ==
  \A c \in Callers :
    LET k == call[c]
        named == \/ k.q.package = "instruction"
                 \/ k.q.act = "APPROVE" /\ PP!FundingApprover(k.q.subject) IN
    Steady(k) /\ ~k.q.eligible =>
      IF k.allowed THEN k.basis # {} ELSE named => k.violations # {}

\* The list and is_alert come from two queries; no list with an ALERT_ in it goes out
\* as no alert, as long as nobody touches the policy (_evaluate, opa.py).
AlertFollowsList ==
  \A c \in Callers :
    LET k == call[c] IN
    Steady(k) /\ k.violations \cap AlertsOf(k.q) # {} => k.alert

\* Candidates are filtered before OPA is asked; nobody whom the policy would permit to
\* approve is missing from the answer (funding_approver_candidates and
\* instruction_approver_candidates, user_directory.py).
EligibleIsComplete ==
  \A c \in Callers :
    LET k == call[c] IN
    Steady(k) /\ k.q.eligible =>
      {u \in Users : Permits(k.q, u, now)} \subseteq k.eligible

\* A run of the seed that reports success leaves every file in OPA, also when OPA was
\* restarted in the middle of it (main, upload_policies.py).
SuccessMeansComplete ==
  [][seed.phase # "done" /\ seed'.phase = "done" => loaded' = Files]_vars

\* A run of the seed ends (clear_policies and main, upload_policies.py).
SeedEnds == seed.phase \in {"clear", "upload"} ~> seed.phase \in {"done", "failed"}

=============================================================================
