# TLA+ models of the SSI platform

The platform manages standing settlement instructions (SSIs) and the payments
made on them. Every state change is authorized by an OPA policy, stored as a
new version, logged as a security event and published to Kafka, from where an
indexer builds the graph and the vector collection the chat answers from.

These modules follow that path from end to end: who asks on whose behalf
(`Delegation`), how a question to the policy is answered while the policy itself
is being replaced (`AuthorizationService`), the life cycle of instructions and of
payments with the saga between them (`InstructionService`, `PaymentService`), the
way of their facts and events into graph and vectors (`Indexer`), and the answer
to "who approved this?" (`Chat`). TLC checks them on small instances; TLAPS proves
every safety property of the six modules with state, and that instruction-service
implements its atomic ledger, for every instance. Sections 1 and 2 are the inventory of
the whole system and the plan; sections 3 to 8 describe what is modelled, checked and
proved.

## 1. Inventory

| Component | State it keeps | Operations | Talks to |
|---|---|---|---|
| instruction-service (`inst`) | MongoDB `instructions` (bi-temporal: one document per version, `out` set when closed), `security_events`; nothing in memory between requests | create, update, delete, submit, approve, reject, suspend, reactivate, use; get, list, versions, eligible approvers | authorization-service (HTTP), sequence-service (HTTP), MongoDB transactions, Kafka topics for events and facts |
| opa-policy-seed, instruction and payment policy | none | `allow`, `violations`, `is_alert`, `allow_basis` of both packages | read by authorization-service through OPA |
| opa-policy-seed, `upload_policies.py` | the policy files in OPA's memory | clear, upload with attempts, once per start of the platform | OPA |
| authorization-service (`authz`) | none (token introspection per call) | evaluate instruction or payment, eligible approvers | ZITADEL, OPA |
| sequence-service (`seq`) | one MongoDB counter per bucket | next (atomic `$inc` upsert) | MongoDB |
| payment-service (`ps`) | MongoDB `payments` (one document, replaced), `security_events` | create, submit, approve, reject, cancel (implicit), get, list | instruction-service (GET, USE), authorization-service, sequence-service, Kafka |
| service identity (in both services) | a cached ZITADEL session | login with attempts at the start and within a request | ZITADEL |
| ssi-indexer (`etl`) | Neo4j graph with `CURRENT` relations, Qdrant points, Kafka offsets | consume instruction events, instruction facts, payment events, payment facts; schema and repair at start | Kafka, Neo4j, Qdrant, Ollama |
| ssi-chat, shared/cypher_gen | none between questions | parallel searches, exact lookups, rank fusion, answer; Cypher generation and validation | Neo4j, Qdrant, Ollama, authorization-service |
| zitadel-seed | the directory of users, roles, supervisors | one-off seeding | ZITADEL |
| ssi-demo-harness, telemetry, static pages | none that matters here | driving, tracing, UI | all services |

**What is hard in it, and what makes each part correct**

* *instruction-service* is asynchronous and runs any number of requests at
  once. A handler reads the current version, asks the policy over HTTP, opens a
  transaction, *reads the current version again*, closes it, inserts the next,
  asks sequence-service for an event number over HTTP with the transaction
  open, inserts the event, commits, publishes twice. Every `await` is a point
  where others run or where the call ends. Correct means: versions form a
  gapless chain with one open end; a version and its event appear together or
  not at all; event ids are unique; only someone independent of the creator
  approves; a suspension is lifted by a second person; Kafka never tells
  of what is not stored; every accepted call ends.
* *payment-service* reproduces the same shape without transactions: `replace_one`
  by payment id, three separate writes, a USE call to instruction-service with
  a 10 s timeout before the payment is inserted and no compensation, and a
  version check at approval against the live instruction. Correct means: a
  decision on a payment is not overwritten, a single-use instruction is used by
  at most one payment and not lost, a payment is approved only on the version
  it was created on.
* *Delegation.* A user's token travels through payment-service to
  instruction-service to authorization-service, each hop with a service's own
  session beside it. A session is cached and never refreshed; logins of one
  service race and a failing one wipes what another has obtained; without a
  session a call goes out with the user's token alone. Correct means: whichever
  way a hop was made, the policy is asked about the user (or about a service
  reading as itself), in the name of the service that asks, and the events are
  recorded for the user; every request ends. (The first of these is not what the code
  does in a delegated call, see finding 2.)
* *authorization-service* puts one decision together from several queries to
  OPA, and a list of approvers from one query per candidate, while OPA's clock
  runs, OPA restarts empty and the seed replaces its files one at a time. Correct
  means: a torn or missing policy refuses; refusals are explained; the list of
  candidates misses nobody; a seed that reports success has loaded everything.
* *ssi-indexer* sees at-least-once delivery, several partitions and failing messages that
  are skipped, and its four consumers write to the same nodes at once. Correct means:
  processing a message twice changes nothing, `CURRENT` never goes back to an older version
  nor falls behind the versions beside it, what is committed has been indexed or reported,
  the vectors never run ahead of the graph, every topic is read to its end.
* *ssi-chat* merges the answers of searches that run at once, may each fail, and
  lag behind the services by different distances. Correct means: whom it names
  has approved, and "there is no such record" is only said when one has looked.

`PROJECT.json` lists the hazards one by one, at their lines, and for each the
properties that cover it or the reason none does.

## 2. Plan

| # | Module | Models | State |
|---|---|---|---|
| 1 | `InstructionPolicy` | the `allow` rules of `instruction.lifecycle` | done |
| 2 | `InstructionService` (EXTENDS 1) | handlers, repository, transaction, event log, publication | done |
| 3 | `InstructionService_proofs`, `InstructionHistory_proofs` (EXTENDS it) | theorems about 2: types, approvals, chain and numbers; descent, provenance, log and publication | done |
| 4 | `InstructionLedger`, `InstructionRefinement`, `InstructionRefinement_proofs` | the atomic ledger, and 2 implementing it | done |
| 5 | `PaymentPolicy`, `PaymentService` (EXTENDS it) | the payment life cycle, its unguarded replace, its three writes, and the saga with an instruction (an instance of 4): lost answers and timeouts of USE | done |
| 6 | `PaymentService_proofs` | types, four eyes, provenance, the order of the writes, the saga | done |
| 7 | `Indexer` | delivery, retries, skips, redelivery; `CURRENT`, duplicate nodes, the Qdrant points | done |
| 7a | `Indexer_proofs` | `CURRENT`, the order of the two stores, the committed offsets, the whole history | done |
| 8 | `InstructionVerdicts`, `PaymentVerdicts` (EXTEND 1 and `PaymentPolicy`) | `violations`, `is_alert`, `allow_basis` | done |
| 9 | `AuthorizationService` (instances of 8) | evaluation query by query, eligible approvers, the seed, OPA's restarts | done |
| 10 | `Delegation` | tokens, sessions, service identity over three services | done |
| 11 | `Chat` | who is named as an approver from an index that is behind | done |
| 12 | `AuthorizationService_proofs`, `Delegation_proofs`, `Chat_proofs` | theorems about 9, 10 and 11 | done |
| 13 | composition | the instruction side of `PaymentService` takes only steps of the ledger; what `Chat` takes from `Indexer` stated as a property of both | to do |

The saga is a part of `PaymentService` and not a module above it, because the
handler of `create` waits for USE in the middle. The composition goes by
interfaces: `PaymentService` sees instruction-service as the ledger that
`InstructionService` is shown to implement; `InstructionService` and
`PaymentService` take a decision as one step, which `FailsClosed` of
`AuthorizationService` justifies for the yes; `Chat` takes from `Indexer` that the
graph is written before the vectors (`VectorAfterGraph`), that `CURRENT` is not older
than any version beside it (`CurrentIsNewest`), and that facts and events arrive in any order.

## 3. Modules and the code

**InstructionPolicy** has one operator per Rego rule of
`policies/instruction/` (`AllowDraft`, `AllowApprove`, ...), with the helper
rules under their own names, and `Allowed`, the decision. An undefined Rego
lookup is a rule that does not fire: a title without an entry in the approval
matrix approves nothing. `Directory` is the identity provider's record of each
user. **InstructionVerdicts** and **PaymentVerdicts** add what the policies say
beside the decision, rules of their own in `violations.rego` and
`allow_basis.rego`.

**InstructionService** has one *task* per request in flight. Its phase `pc` and
its local variables `call` (the copy of the instruction it holds, the version
it read, the version it closes, the event number) are what the coroutine keeps
across an `await`.

| Phases | Actions | Code |
|---|---|---|
| idle | `BeginCreate`, `BeginUpdate`, `Begin` | a route, the read of the current version, the status check (409) and the changes made before authorization (`service.py`) |
| authorize | `AuthorizeMutation`, `AuthorizeView`, `Deny` | `_authorize`; then the fields the handler sets and the lifecycle event `_record_event` appends |
| txread, txwrite | `TxRead`, `TxWrite`, `TxConflict` | `repository.append_version` inside `mongo_transaction` |
| txevent, audit | `AllocateEvent` | the HTTP call to sequence-service |
| commit | `Commit` | commit of version and event together |
| insert | `InsertEvent` | the event of a view or a denial, without a transaction |
| pubevent, pubfact | `PublishEvent`, `PublishFact` | the producer, whose errors are swallowed |
| any | `Interrupt` | a failing call, a lost connection, a crash: the transaction aborts, the rest of the handler does not run |

`update` and `delete` are operations of `InstructionService` that no route calls (only
its tests do). They are actions like the others, because the class offers them; without
them the module has fewer behaviours, and finding 1 is the same.

`WriteConflict` is MongoDB as the service uses it: a transaction cannot update a
document another open transaction has updated or that changed since its
snapshot, and the unique index on `(instruction_id, version_number)` refuses a
second insert. A transaction's writes are not in `docs` until `Commit`; while it
is open the task `Holds` the instruction. `nextId` and `nextEvent` are
sequence-service's counters, taken outside the transaction, so aborted calls
leave gaps. `factTopic` is a sequence in broker order; `eventTopic` a set.

**InstructionLedger** is the abstract specification: a set of versions and a
log, with the atomic steps `Store`, `View`, `Refuse`. A `Store` follows a
transition of the life cycle *from some stored version*, not necessarily the
last (see the finding on stale copies). **InstructionRefinement** maps a
document to its number, status and last lifecycle entry.

**MCInstructionService** gives the constants: an analyst of the middle office,
a vice president and a managing director of the FICC desk as approvers (the
managing director supervises the analyst), payment-service's account and an
indexer account whose events are configured out of the log. `LaterInit` starts
from the states after create, submit, approve (and suspend), for both types, so
that races on an active instruction are within the bound.

**PaymentPolicy** is `policies/payment/` the same way: the four `Allow` rules,
with the desk, the amount limits of the clubs and the two rules on the creator.

**PaymentService** has tasks like InstructionService's; `call[t].pay` is the copy
of the payment the handler works on.

| Phases | Actions | Code (`ps/service.py`) |
|---|---|---|
| idle | `BeginCreate`, `Begin` | a route, the read of the instruction (create) or of the payment, the checks that answer 4xx, the payment id |
| fetch | `Fetch`, `FetchInvalid` | the instruction read by submit, approve and reject; approve cancels the payment when it has become invalid |
| authorize | `AuthorizeCreate`, `AuthorizeDecision`, `Deny` | `_authorize`, then the fields set on the copy |
| use | `UseAnswered`, `UseFailed` | the answer to `mark_used`, or anything else |
| write, event, publish | `Write`, `RecordEvent`, `Publish` | `insert` or `update` (a `replace_one` by id alone), the security event, the producer, whose errors are swallowed |
| any | `Interrupt` | a failing call or a crash: what is written stays |

Of instruction-service it sees the ledger that service implements: `Current` is
the answer of GET, `UseRead` and `UseCommit` are its use handler (which commits
the copy it read as the next version, as InstructionService does), `wire` holds
the requests it has not finished, `uses` what it has committed for which payment.
`UseDropped` is every way a request comes to nothing, the refusal of finding 2
among them. A request outlives the task that sent it, so a use may be committed
after the caller has given up. `InstructionMoves` is anybody else's step: any
transition of the life cycle the ledger allows. InstructionService does less than
the ledger (`ImplementsLedger`), so an invariant that holds here holds with it.

**MCPaymentService**: a front-office submitter and two people of the middle office
who may create and approve, one reporting to the other. `LaterInit` has an
approved instruction of either type and no payment, a created one, or a submitted
one.

**Indexer** has a loop for each of the four consumers (`Consumers`), around one
instruction and one payment. `log` is what Kafka holds, `next` the position,
`committed` the offsets.

| Steps | Actions | Code (`etl/`) |
|---|---|---|
| idle | `Deliver` | `async for message`, of any partition (`*_consumer.py`) |
| write, open, merged | `Begin`, `MergeVersion`, `MergeInstruction` | the statements of a transaction of `neo4j_client.py` that MERGE the instruction or the payment, each with what is committed by then |
| open, merged | `WriteEvent`, `WriteFact`, `WritePayEvent`, `WritePayFact` | its last statements and the commit, with which what it has written is seen |
| embed | `StoreEvent`, `StoreFact`, `StorePayEvent`, `StorePayFact` | `process_*` after the embedding: the point, and the patch of the instruction's point (`qdrant_store.py`) |
| commit | `Commit` | `consumer.commit()` of every position, past whatever was skipped |
| any | `Retry`, `Skip`, `Restart` | `TransientError` and its attempts; any other error; the process stops, `connect()` repairs duplicates, delivery goes on from `committed` |

`Constrained` is what `_apply_schema` makes of `schema.cypher`; for the labels that are
not in it two transactions may each create a node, so `nodes` and `pays` have one
place for the node each consumer may create.

Neo4j is READ COMMITTED and each statement of a transaction matches the instruction or
the payment by its key again. So a node that another consumer commits in the middle gets
what the later statements draw and not what the earlier ones drew. `matched` keeps, per
statement that MERGEs, the nodes it works on: an event's TARGETS (`Begin`), its
HAS_VERSION (`MergeVersion`, all that is there by then), a payment fact's own node
(`Begin`) and its HAS_PAYMENT (`MergeInstruction`). The statements that MATCH only need
no step of their own. For CURRENT, `WriteEvent` chooses which of the nodes that came after
HAS_VERSION it was in time for (`late`), and for the users' edges of a payment
`WritePayFact` which of these statements a node came too late for (`Missed`); what
they set is taken at the commit, which is the same, since a CURRENT they leave alone is
not older and stays so, and what they write is locked. The reading and the moving of
CURRENT by one statement are taken as one step. `upsert_instruction_fact` is one query
and matches once. `SUPERSEDES`, `TARGETS_VERSION`, `OWNED_BY` and the users' own fields
are left out: nothing that is modelled depends on them.

**AuthorizationService** has per caller the evaluation it waits for (`call`),
whose phases are the queries of `_evaluate` in `opa.py` (`Allow`, `Basis`,
`NameViolations`, `Alert`) or, for eligible approvers, those for one `Candidate`
after the other (`eligibility.py`). `loaded` is the set of files OPA has; a file
compiles with the files it imports (`Imports`, read off the `.rego` files), and a
rule of a file that is not loaded is undefined. `seed` is the run of
`upload_policies.py`: `Delete` and `Upload` are its HTTP calls, for the `First` of the
files left in a pass (`queue`), in the order of the script; `LoseUpload`,
`StopSeed` and `OpaRestart` are what may go wrong. `steady` records that nothing has
touched the policy since the question.

**Delegation** follows a request hop by hop (`Plan`): `CheckBearer` and `CheckOnBehalfOf`
are `get_subject` of the service it reaches, `Work` its `ensure_logged_in` and the headers
of what it asks (`Ask`), `CheckCaller`, `CheckDelegate` and `CheckPrincipal`
authorization-service's lookups, one ZITADEL call each. Whether a token is `Valid` depends
on what ZITADEL holds of its session and of the user's `Metadata`, from which each service
reads a subject in its own way (`HasSubject`, `HasInstructionSubject`). `made` records every
decision with whose rights it was about, who asked, whether that service was itself called
on the user's behalf, and for whom it is recorded. `subject_from_obo_call` of
authorization-service takes as the user whoever's token the asking service was called with
(`CheckPrincipal`). `Start` is the login in `lifespan()`; `Expire`, `Outage`, `Recover`,
`Restart` are the environment.

**Chat** has the history of an instruction and its payments (`happened`), the four
places the indexer writes (`recorded`, `points`, `facts`, `payload`), and one
question with its searches in progress (`pending`): `SearchVector`, `SearchBm25`,
`SearchGraph`, `LookUpFact`, `LookUpApprovals`, each of which may fail. `Answer` is the
merge of `reranker.py` and the synthesis of `rag.py`, for any order of the hits below
the exact ones. What the language model writes is not modelled; that the question is
left to it is. Index steps may come between any two searches.

**Abstractions.** An instruction keeps the fields the handlers and the policy tell apart:
type, line of business, line of business of the account, term, status, who created,
approved, rejected and suspended it, usage count, lifecycle events. Dates are numbers on
OPA's clock. The creator's title and supervisor, stored in the code as a snapshot, are those
of the fixed `Directory`; nobody changes title between a creation and an approval.
Validation of request bodies, formatting, search and telemetry are left out. In the payment
model an instruction's line of business and dates are constant (`Terms`), its type is the
status of a usable version, and an instruction never vanishes, so the 404 of the later
handlers does not occur. A user's token is verified before a handler runs; `principal` is
whom it names and `subject` whom the call is recorded for (`X-On-Behalf-Of`, which only
payment-service uses, for GET and USE). Bucket resets of the sequences by date are left out.

In the indexer a message is its version, action, whether its snapshot has an
approver or a rejector, and whether it records a refusal; the texts, the other
fields of nodes and `CONFLICTS_WITH` are left out.
Each query of the policy is atomic. The questions of `AuthorizationService` are what
callers send, an instruction in three states and a payment; the instruction and
payment they are about do not change in a call, since they travel in its body.
In `Chat` rows of a query that the language model wrote are taken to carry no
approver, the order of hits is any order, and `max_context_hits`, which cuts what the
model sees, is left out.

## 4. Runs

| Run | What it asks | Bounds | Size |
|---|---|---|---|
| `racing_calls` | 9 invariants and `ImplementsLedger`, from an empty database | 2 tasks, 3 calls, 5 users, 2 desks, 2 requests (one the policy refuses), one tick | 458,220 states |
| `racing_on_active` | invariants of suspension, reactivation, use, `AppendOnly`, and `EveryCallEnds` under fairness | 2 tasks, 2 calls after the history, users that are recorded | 162,140 states |
| `payments_race` | 5 invariants of payments, events, facts and uses | 2 tasks, 2 calls after the history, 3 users, 1 instruction with up to 4 versions by others, 2 amounts, one tick past its end | 1,052,194 states |
| `indexer` | 5 invariants, `CurrentOnlyAdvances`, `AllDelivered` under fairness | 4 consumers, 2 partitions, 3 versions, 2 topic contents, 2 attempts, 2 faults | 716,948 states |
| `authorization` | 5 invariants, `SuccessMeansComplete`, `SeedEnds` under fairness | 1 caller, 6 users, 10 questions, 2 runs of the seed of 3 attempts, 1 fault, one tick | 191,130 states |
| `delegation` | 2 invariants and `EveryRequestEnds` under fairness | 2 requests (a payment or its approvers, and an instruction), logins of 2 attempts, 2 outages, 1 expiry or restart | 245,635 states |
| `chat` | 3 invariants of the answer | an instruction and 2 payments, 3 histories of at most 3 steps, searches of 1 hit, scrolls of 2 | 4,141,579 states |
| `stale_commit` | `HistoryCumulative` | as `racing_on_active` with all users and a tick | violated |
| `use_checked` | `UseIsCheckedAsWritten` | as `delegation`, with the seeded roles | violated |
| `decision_overwritten` | `OnlySubmittedIsDecided` | as `payments_race` with 3 versions | violated |
| `one_node_per_key` | `OneNodePerKey` | as `indexer` | violated |
| `who_is_an_approver` | `WhoIsAnApprover` | as `chat` | violated |

What they show:

* `VersionChain`, `TransactionsExclusive`, `AppendOnly`: whatever transactions
  race, versions are 1..n, only n is open, and no stored version or event is
  ever changed beyond being closed.
* `IndependentApproval`, `ApprovalInv`: no stored version carries an approval by
  its creator, the creator's supervisor or subordinate, a junior or another
  desk, although the copy that was approved may be stale when it is stored.
  The updates that race with an approval cannot smuggle in new content under it.
* `ProvenanceMatchesStatus`, `DualControlOfSuspension`, `LawfulDescent`: each
  stored version is one lawful step from *an* earlier version of the same
  instruction; who approved, rejected, suspended agrees with its status; in its
  own history a reactivation directly follows a suspension by someone else.
* `AuditComplete`, `EventIdsUnique`: a version of a recorded user has exactly
  one success event, with the right number, and vice versa, through aborts and
  crashes at every point.
* `PublishedIsCommitted`: Kafka tells only what is stored, each version at most
  once. It may miss versions, since publication errors are swallowed, and no property
  says otherwise.
* `ImplementsLedger`: an outside reader sees one atomic ledger step at a time.
* `EveryCallEnds`: no transaction waits for another: a conflict aborts at once.
* `PaymentFourEyes`, `PaymentProvenance`: although the last of two racing copies
  wins (finding 3), every copy that may win is a whole one: its approver is
  independent of its creator, and who decided agrees with its status and its
  lifecycle events.
* `UsedBeforePaid`: however answers are lost or late, no payment on a single-use
  instruction is stored without a use committed for this very payment, in a later
  version than the payment names. The converse does not hold: a use may stay
  without a payment, since the saga has no compensation.
* `FactsAreLogged`: the three writes come in the order payment, event, fact, so a
  fact always has its event and a success event its payment. A payment may be without
  its event (section 5).
* `CurrentIsNewest`, `CurrentOnlyAdvances`: in whatever order the partitions and the
  two pipelines bring the versions, with redelivery and duplicate nodes, `CURRENT`
  is not older than any version its node has and never goes back. It need not point to one
  of the versions *of its node*: a node that appears between two statements of an event
  gets `CURRENT` without `HAS_VERSION`. Some node of the instruction has that version,
  until the repair at a restart, which keeps any one of the duplicates, removes it.
* `CommittedIsAccountedFor`: although a commit passes over messages that failed,
  every message below a committed offset was indexed or given up with a line in
  the log; at-least-once delivery loses nothing silently.
* `VectorAfterGraph`: a point of the search always has its node in the graph.
* `GraphIsComplete`, `AllDelivered`: without faults the whole history is in the graph
  when the topics have been read, duplicates or not, and with faults every topic
  is still read to its end.
* `FailsClosed`: no mixture of deleted, uploaded and lost files ever permits what
  the whole policy would not have permitted when the question was asked.
* `ExplainedDecision`, `AlertFollowsList`, `EligibleIsComplete`: while nobody touches the
  policy, a permission has a basis and a refusal a violation (of payments, only
  that of an approval to a funding approver, see section 5), `is_alert` agrees with
  the list, and the filter before the queries drops nobody the policy permits.
* `SuccessMeansComplete`, `SeedEnds`: a run of the seed ends, and one that reports success
  has left every file in OPA, also when OPA was restarted in the middle.
* `DecisionsAreAttributed`, `EveryRequestEnds`: over one hop or two, with a session or
  without, a decision is asked for by an authorized service in its own name and recorded
  for the user (for payment-service where that reads as itself). Whose rights decide
  depends on the way alone: the user's when the service that asks was called by the user
  or with the user's own token, payment-service's in a delegated read or use and in a
  read it makes as itself; nobody else's ever. For delegated calls this is not what
  the texts say (finding 2). And no login in the way of a request goes on for ever.
* `PaymentApproverIsActual`, `KnownApproverIsNamed`: in Payments mode whoever is named has
  approved that very payment, however far the index is behind; in Instructions mode
  the same once the instruction's point has shown an approver.
* `AbsenceIsObserved`: a failing search is told apart from an empty one. Of a payment that
  nobody is said to have approved this is as much as the *planned* query assures; when that fails,
  an empty answer to the query the model writes can still be taken for "none".

**Bounds.** `MaxCalls` bounds the requests accepted in a behaviour, `MaxNow` the
clock; both are guards (`Accept`, `Tick`). Two tasks are enough for every pair
of racing handlers, and the hazards listed are all races of two. Three calls
from the empty database are a creation and two calls that race on its result, or
two creations and a call; they reach a submission that races with an update, a
deletion or another submission, and an approval, which takes create, submit and
approve. Two calls after `LaterInit` are every pair of handlers on an active or
suspended instruction; expiry is left to `racing_calls` and the violation run
on the same states. In the payment run the two calls are every pair of
payment handlers on no, a created or a submitted payment, and the version others
may add is what makes a payment drift; the amounts are one within every limit and
one beyond the limit of the clubs. A third racer adds nothing to the chain, the numbers and
the approvals: these are proved for any number of tasks (section 6).
In the indexer two partitions bring two versions in either order, and two faults
are an error and a restart, or an error and the failure of its retry, with two
attempts; the two contents of the topics are the events and facts of an
instruction, and a payment's facts and events with a fact of its instruction. In
`authorization` the run of the seed after the first finds a full OPA, one that a
restart has emptied or one that a failed run has left half full, with a call under
way; three attempts are the two that uploading in path order needs from an empty OPA,
and one for a fault. One caller is enough: callers
share nothing but what OPA holds. In `delegation` the two requests are what races on
one service's session, and of the two users one has a line of business that
instruction-service does not know; two attempts per login are a failure followed by a
retry or by giving up. In `chat` the histories are a payment that one user was
refused and another approved, beside a second payment; an instruction through
submission, approval and suspension; and a payment approved on an approved
instruction. Searches of one hit and scrolls of two are the smallest that still
choose between hits, and leave some out.

Deadlock is not checked: a behaviour stops when `MaxCalls` requests have been accepted
and served, the topics have been read, or the question has been answered. Tasks are
interchangeable, hence the symmetry; the runs with liveness do without it. In the
runs of `InstructionService` svc-instruction is given the role `INSTRUCTION_MARKER`
(`DelegatedRoles`), so that a delegated USE happens at all; with the seeded roles, under
which `use_checked` runs, the policy refuses it. The bounds of faults (`MaxFaults`,
`MaxLosses`, `MaxOutages`), of seeds and of user sessions are guards of the
actions they bound.

**Fairness.** Every specification assumes as little as its event loop gives.
`LaterFairSpec` has weak fairness of `Step(t)`, the steps of the
event loop on an accepted request: asyncio resumes every coroutine whose awaited
call has answered, and the HTTP clients and the driver have timeouts, so each
awaited call answers or fails. Failing (`Interrupt`), arriving (`BeginAny`) and the
clock (`Tick`) have no fairness. `Indexer` has weak fairness of `Work(c)` for each
consumer, an asyncio task of its own; errors and restarts have none.
`AuthorizationService` has weak fairness of the seed's next call, because the
container runs. `Delegation` has weak fairness of `Step(q)` for each request; nothing
is assumed of ZITADEL, which may stay away for ever. `Chat` has no liveness property.

## 5. Findings

1. **A stale copy is committed** (`stale_commit`). `append_version` takes its lock against
   the version it finds inside the transaction, not against the one the handler read, was
   authorized on and edited. Two handlers that read version n and commit one after the other
   both succeed; version n+2 is built from n and lacks the step of n+1. A rejection can be
   undone by an approval that read the instruction earlier, a suspension by a use, and (once
   USE is allowed, see 2) a single-use instruction can be used twice with both callers told
   so. Only transactions that overlap meet the conflict the code reports as 409.
2. **A delegated call is judged on the services** (`use_checked`). Called by
   payment-service on behalf of a user, instruction-service calls authorization-service
   with its own token and forwards the token it was called with, payment-service's, in
   `X-On-Behalf-Of` (`inst/service.py:188`). The policy so gets svc-payment's roles as the
   user's and those of svc-instruction as `delegated_by_roles`. Of a USE
   `lifecycle.rego:176` says that the calling service must hold `INSTRUCTION_MARKER`,
   which only svc-payment carries, and that the human it acts for must have read access:
   with the seeded roles the first check refuses every use, and the second would be made on
   svc-payment. The same holds of a delegated read, although `inst/auth.py:266` and
   `inst/dependencies.py:66` have the user's roles decide: payment-service's decide there,
   unless it has no session and forwards the user's token. The run shows the use, which
   breaks both checks; `DecisionsAreAttributed` states exactly whose rights decide where.
3. **A decision on a payment is overwritten** (`decision_overwritten`). `update`
   replaces by payment id alone, so a decision taken on a copy read as SUBMITTED
   replaces one stored since: an approved payment becomes rejected or the other
   way round, and both callers are told that they succeeded.
4. **Two nodes for one key** (`one_node_per_key`). `_apply_schema` cuts `schema.cypher`
   at the semicolons and drops each piece that begins with `//`. The first statement
   under each comment goes with it, and these are the uniqueness constraints of
   `Instruction` and of `Payment`. Two consumers that merge an instruction neither has
   seen create a node each. `GraphIsComplete` holds nevertheless, because later MERGEs
   match both; the repair at the next start removes one of them.
5. **WHO may be the submitter** (`who_is_an_approver`). The README of ssi-chat says that
   WHO comes from `approver_display`. When a hit has none, `rag.py` takes
   the actor of the hit: an instruction that waits for approval is answered with its
   submitter, or with someone whose approval was refused, since
   `fetch_instruction_approve_events` does not ask for the outcome.

**Further differences, seen while modelling, without a run of their own**

instruction-service and payment-service:

* `delete`, which no route calls, would always be refused: the handler sets `DELETED` before
  it asks the policy (`service.py:462`), whose rule wants `DRAFT` or `PENDING`
  (`lifecycle.rego:55`).
* Facts are published after the commit by concurrent handlers and keyed by the
  acting user (`kafka_publisher.py:61`), so those of one instruction need not arrive in
  order, as `README.md:244` says they do. `Indexer` takes them in any order.
* A payment on a single-use instruction cannot be approved: its own creation marks
  the instruction USED in a new version, and the approval finds it drifted
  and cancels the payment (`ps/service.py:97`, `payment/common.rego:31`).
* payment-service writes payment and event one after the other (`ps/service.py:372`),
  where `README.md:762` has one transaction per service; a failure in between leaves a
  payment without its event.

ssi-indexer:

* A fact that comes after a newer one has its version node drawn, but neither its
  `MUTATED` and user edges nor ever a `SUPERSEDES` edge: the WHERE that guards `CURRENT`
  ends the rest of the query (`GraphIsComplete` shows that the event brings the users' edges).
* The Qdrant point of an instruction or payment, and the fields of a payment node,
  are those of the fact that came last, which may be an older one.
* The patch with an approval's summary is dropped when the instruction's point is not
  there yet, and the event of a *refused* APPROVE patches it too, although
  `qdrant_store.py:378` speaks of an approval authorization.
* The repair at a restart deletes duplicates with their edges.

authorization-service and the policies:

* Payment refusals for a missing role, group or line of business in CREATE, and all of
  SUBMIT and REJECT, name no violation, though `payment/violations.rego:4` announces
  "named denial reasons returned alongside allow=false"; hence the condition in
  `ExplainedDecision`.
* The instruction policy allows a SUBMIT for which `violations` would name
  `CREATOR_TITLE_INELIGIBLE` or `INVALID_PROFIT_CENTER`.
* When the clock or the policy changes between the queries, `is_alert` may be true
  without an `ALERT_` in the list, and a permission may come with an empty basis.
* The eligible approvers of a payment are computed without its status and the version
  drift that would cancel it.
* When OPA restarts it has no policies and nothing seeds it again: everything is
  refused (`FailsClosed`) until somebody runs the seed.

Delegation and chat:

* A cached session is kept after ZITADEL has let it expire: every request then fails
  until the service restarts (`EveryRequestEnds` says that they end, not how).
* In Security Events and All mode a payment that nobody has approved is answered with its
  creator or submitter, and a question through a payment may name an approver from the
  search hits when the graph is behind.

## 6. Proofs

Every safety property of the passing runs, every action property and the refinement are
theorems of `Spec`, for every value of the constants under the named assumptions, so for
any users, directories, sets of tasks, requests and callers, any contents and number of
partitions, any histories and questions, any limits and bounds:

* `DirectoryAssumption`, `ServiceAssumption` (instructions), `StaffAssumption`,
  `PaymentAssumption` (payments), `IndexerAssumption`, `AuthorizationAssumption`,
  `DelegationAssumption`, `ChatAssumption` give the constants their types; the directory
  and the set of payments of a question are finite.
* `NoPaymentAssumption` and `NullAssumption` say that a "nothing there" is not a thing that
  may be there.
* `KindsAssumption` and `QuestionsAssumption` say that the requests and the questions are
  those the routes accept.

TLC checks them on every run of a module that extends the one that declares them. The runs
that start from `LaterInit` do so only to save calls: its states are those after a create,
submit and approve.

| Theorem | Module | Inductive invariant |
|---|---|---|
| `TypeCorrect` : `Spec => []TypeOK` | `InstructionService_proofs` | `TypeInv` |
| `CopiesAreSound` : `Spec => []ApprovalInv` | same | `TypeInv /\ ApprovalInv` |
| `ApprovalsAreIndependent` : `Spec => []IndependentApproval` | same | same |
| `VersionsFormAChain` : `Spec => []VersionChain` | same | `TypeInv /\ ChainInv` |
| `WritersExcludeEachOther` : `Spec => []TransactionsExclusive` | same | same |
| `EventNumbersAreUnique` : `Spec => []EventIdsUnique` | same | `TypeInv /\ NumberInv` |
| `HistoryOnlyGrows` : `Spec => AppendOnly` | same | `TypeInv` |
| `EveryVersionDescends` : `Spec => []LawfulDescent` | `InstructionHistory_proofs` | `TypeInv /\ ChainInv /\ LineageInv` |
| `StatusHasProvenance` : `Spec => []ProvenanceMatchesStatus` | same | these and `HistoriesAreSound` |
| `ReactivationNeedsTwo` : `Spec => []DualControlOfSuspension` | same | same |
| `LogIsComplete` : `Spec => []AuditComplete` | same | `TypeInv /\ ChainInv /\ LineageInv /\ LogInv` |
| `NothingUncommittedIsPublished` : `Spec => []PublishedIsCommitted` | same | same |
| `ServiceImplementsLedger` : `Spec => ImplementsLedger` | `InstructionRefinement_proofs` | `RefinementInv` |
| `PaymentTypeCorrect` : `Spec => []TypeOK` | `PaymentService_proofs` | `TypeInv` |
| `PaymentApprovalCorrect` : `Spec => []PaymentFourEyes` | same | `EyesInv` |
| `PaymentHasProvenance` : `Spec => []PaymentProvenance` | same | `TypeInv /\ ProvenanceInv` |
| `FactsFollowTheLog` : `Spec => []FactsAreLogged` | same | `TypeInv /\ LogInv` |
| `UseComesFirst` : `Spec => []UsedBeforePaid` | same | `TypeInv /\ SagaInv` |
| `IndexerTypeCorrect` : `Spec => []TypeOK` | `Indexer_proofs` | `TypeOK` |
| `CurrentStaysNewest` : `Spec => []CurrentIsNewest` | same | `TypeOK /\ MatchedInv /\ CurrentIsNewest` |
| `CurrentNeverGoesBack` : `Spec => CurrentOnlyAdvances` | same | `TypeOK` |
| `VectorsFollowGraph` : `Spec => []VectorAfterGraph` | same | `TypeOK /\ MatchedInv /\ VectorInv` |
| `CommittedIsIndexedOrGivenUp` : `Spec => []CommittedIsAccountedFor` | same | `TypeOK /\ VectorInv /\ AccountInv` |
| `HistoryIsComplete` : `Spec => []GraphIsComplete` | same | `TypeOK /\ MatchedInv /\ HistoryInv` |
| `AuthorizationTypeCorrect` : `Spec => []TypeOK` | `AuthorizationService_proofs` | `TypeOK /\ CallInv /\ SeedInv` |
| `NeverPermitsMore` : `Spec => []FailsClosed` | same | same |
| `DecisionsAreExplained` : `Spec => []ExplainedDecision` | same | same |
| `AlertsAreNotLost` : `Spec => []AlertFollowsList` | same | same |
| `NobodyEligibleIsMissing` : `Spec => []EligibleIsComplete` | same | same |
| `SuccessLoadsEverything` : `Spec => SuccessMeansComplete` | same | `TypeOK /\ SeedInv /\ UploadInv` |
| `DelegationTypeCorrect` : `Spec => []TypeOK` | `Delegation_proofs` | `DelegationInv` |
| `EveryDecisionIsAttributed` : `Spec => []DecisionsAreAttributed` | same | same |
| `AbsenceIsNotAssumed` : `Spec => []AbsenceIsObserved` | `Chat_proofs` | `QuestionInv /\ AbsenceIsObserved` |
| `NamedHasApproved` : `Spec => []PaymentApproverIsActual` | same | `IndexInv /\ AnswerInv` |
| `KnownIsNamed` : `Spec => []KnownApproverIsNamed` | same | same |

*Instructions*

* `TypeInv` adds to `TypeOK` that no line of business has allocated more ids than
  calls were accepted, without which `nextId` could leave its range, and that a
  task that is past the allocation holds a positive event number.
* `ApprovalInv` says of every copy, stored or held by a task, that it is an
  independent approval and that an instruction that has not been decided (draft
  or pending) has no approver. Without the second part an update could turn an
  approved copy into another desk's. It also needs that a mutation other than
  USE is authorized for the very user it is recorded for.
* `VersionChain` alone is not inductive: a commit keeps it because the version it
  closes is still open and the one it inserts is not there, which is
  `TransactionsExclusive`, and that in turn holds because a second writer on the
  instruction meets a conflict.
* `NumberInv` adds that the numbers stored and the numbers in the hands of tasks
  are all at most the counter, and the numbers in hand differ from each other and
  from the stored ones.
* `LineageInv` is where stale copies are dealt with. A handler that waits for the policy
  holds a faithful copy of *some* stored version; once authorized it holds a lawful
  outcome of one (`CallsAreLawful`), and since stored versions stay, with their content,
  that is still so when it commits. `OpenIsLast` gives that the version it closes is not
  older than the one it read, so that the new version is later than the one it descends from.
* `HistoriesAreSound` follows the content along that descent: a lawful step from a version
  whose history is sound gives one whose history is sound. What has to be added to the
  two properties is that the last entry of a suspended version is its suspension.
* `LogInv` follows a call past its commit: what it still has to publish is stored
  (`CallsAreLogged`), and no two calls, nor a call and Kafka, hold the same version
  (`PublishedOnce`), since a commit closes the version it is built on.
* `RefinementInv` relates what the ledger counts to what the service reads. The ledger's
  next version number is the number of versions there are; the service adds one to the
  number of the open version (`CountedIn`). The ledger takes event numbers from a finite set;
  the service's counter stays in it because numbers taken and tasks that may still take
  one are together at most the accepted calls (`WithinBudget`). A commit is then one step
  of the ledger, a view's or a refusal's event another, everything else a stutter.

*Payments*

* The payment side's `TypeInv` adds that a payment number is taken by an accepted
  call and that the ledger is finite, so that its versions can be counted.
* `EyesInv` says of every copy that a handler may still store, and of every stored
  payment, that its approval has four eyes and that its creator was vetted (middle
  office, desk, amount). A copy on its way through `create` has no approver and
  its creator is the caller the policy is about to judge; a decision changes
  neither creator, desk nor amount; and a copy on its way to a cancellation, which
  nobody is asked about, was read from the collection.
* `ProvenanceInv` says of every copy that may still be stored that it agrees with its own
  trail, and of one not yet decided that it has the status its action starts from:
  the loser of a race is overwritten as a whole, so no payment carries two decisions.
* `LogInv` is the order of the three writes: a handler about to log has stored, one about
  to publish has logged, and nothing is removed.
* `SagaInv` follows the payment number, the only thing the two services share. No two
  creations hold the same number, and every request on the wire and every committed use
  bears a number that was given out, of the instruction its creation has read and in a later
  version. So a use that is committed long after its answer was given up cannot be taken
  for that of another payment.

*Indexer*

* `MatchedInv`: a transaction past its first statement has matched a node, and an event's
  HAS_VERSION goes to at least the nodes of its TARGETS. So what a write makes CURRENT
  hangs on some node afterwards (`WriteHangs`), and without a fault no node goes
  away (`GraphGrows`): the second half of `CurrentIsNewest`.
* `VectorInv` adds to `VectorAfterGraph` how far the message in a consumer's hand has
  got (`HandInv`): when it waits to be embedded or committed it is in the graph, when
  it waits to be committed it is in Qdrant too. A restart drops the message and what
  is stored only grows, so that this survives the repair of the schema.
* `AccountInv` says it of offsets: of what was delivered, everything is indexed or
  skipped but the one message in hand; of what was committed, everything, and no more
  is committed than was delivered. A commit takes the positions of all partitions,
  so that the second follows from the first once the message in hand is in both stores
  (`HandInv`); a failed message lies below the next commit, which is why "skipped" must
  be in the property.
* `HistoryInv` says that, without a fault, what has been delivered is told by the graph or
  in hand; `GraphIsComplete` follows with `CurrentIsNewest`. What a transaction draws goes
  to the nodes of its first statement at least; told stays told because no node, version or
  edge goes away before a repair.

*Authorization and delegation*

* `CallInv` says at each query of an evaluation what the queries before it have shown. The
  decision itself is one query, a yes needs every file it depends on (what is undefined
  refuses, and OPA keeps no file without those it imports), and time only takes
  permissions away (`PermitsEarlier`): so what is permitted now was permitted when it was
  asked. For the answers put together from several queries the lemmas on the
  rules are needed: violations only grow (`RefusalsGrow`), every permission has a basis
  (`GrantHasGround`), a refusal has a name (`RefusalIsNamed`).
* `UploadInv` is about an attempt of the seed: everything that was tried and not refused is
  in OPA, or an error is still to come, because a file left to upload imports one that a
  restart of OPA has taken away. The last file of the order imports two others, so there is
  always such a file.
* `DelegationInv` follows the tokens: which session a service holds (its own, or none),
  which tokens it has been called with at each hop (`Credentials`) and whom its calls are
  recorded for (`Recorded`). Sessions are numbered and keep their owner, so that a login
  that fails elsewhere takes a session from a request but never gives it another's.

*Chat*

* `QuestionInv`: what was in the graph as the question came is there when it is searched.
* `IndexInv`: what is indexed lies behind what has happened, and a fact point names an
  approver or nobody. `AnswerInv`: so do the hits about the payment and the row of the graph;
  and when the instruction's point showed an approver, the lookup of the fact is still to
  come, has failed, or has put one who approved in front of all hits.
* The answer is a fold over the merged hits. `Folds`, `WithoutGreatest` and `PaymentFold`,
  `InstructionFold` prove by well-founded induction on the positions what holds of every
  prefix of the hits, so that their number and order do not matter.

Only model-checked: `EveryCallEnds`, `AllDelivered`, `SeedEnds` and `EveryRequestEnds`.
They are liveness under fairness, which is out of the prover's reach. The five violation runs
are counterexamples and have nothing to prove. Of `Max`, `Min` and `FoldLeft`
the proofs use the definitions in the community modules.

## 7. Not modelled

* `list`, `list_versions`, `get` and `list` of payments, and the pages of the services:
  they change nothing but the view events of `list`, one per item, as `get` does.
* Validation of request bodies, formatting, the texts that are embedded, telemetry.
* The header mode of authentication and the admin check (`deps.py`), which keep no
  state.
* Bucket resets of the sequences by date.
* In ssi-indexer: `CONFLICTS_WITH`, the graph and search routes, which only read.
* In ssi-chat: questions other than for an approver (counts, lists, graph pictures), the
  prompts and what the language model answers, scores. Conversations are not kept.
* shared/cypher_gen: prompts and the validation of Cypher texts, a problem of strings.
* ssi-demo-harness, the regression scripts, zitadel-seed's scripts and the web pages drive
  the services with data; they add no behaviour to them.

## 8. Running

    tlc -workers 2 -config MCInstructionService.cfg MCInstructionService
    tlc -workers 2 -config MCIndexer.cfg MCIndexer
    tlapm InstructionService_proofs.tla
    tlapm Indexer_proofs.tla

Each `MC*.cfg` is a run of the MC module that `PROJECT.json` names with it:
`MCLaterInstruction` and `MCStaleCommit` of `MCInstructionService`, `MCUseChecked` of
`MCDelegation`, `MCDecisionOverwritten` of `MCPaymentService`, `MCOneNodePerKey` of `MCIndexer`,
`MCWhoIsAnApprover` of `MCChat`, the others of the module with their name. There
too are the mutant of the code that breaks each property, the source lines of every
definition, and the hazards.
