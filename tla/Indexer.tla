------------------------------ MODULE Indexer ------------------------------
(***************************************************************************)
(* ssi-indexer: four Kafka consumers in one process, each reading the      *)
(* partitions of its topic one message at a time.  A message is written to *)
(* the Neo4j graph, embedded, written to Qdrant, and then the positions of *)
(* the consumer are committed.  A message that fails is logged and         *)
(* skipped; a process that stops starts again from what was committed.     *)
(*                                                                         *)
(* The graph is seen around one instruction and one payment on it.  Neo4j  *)
(* is READ COMMITTED, and the constraints that would make Instruction and  *)
(* Payment nodes unique are not there (see Constrained): a transaction     *)
(* that finds no node with the key creates one of its own, and each later  *)
(* statement of it matches by the key again, with what others have         *)
(* committed since.  A node is named by the consumer whose transaction     *)
(* created it.                                                             *)
(***************************************************************************)
EXTENDS Integers, Sequences, FiniteSets

CONSTANTS
  Ids,           \* the names of messages
  MaxVersion,    \* versions of the instruction and of the payment are 1..MaxVersion
  Partitions,    \* the partitions of every topic
  Logs,          \* the contents the topics may have: [Consumers -> [Partitions -> Seq(Message)]]
  NoMessage, NoNode, NoPoint,
  MaxAttempts,   \* how often a message is tried when Neo4j reports a transient error
  MaxFaults      \* bound on errors and restarts

VARIABLES
  log,           \* what Kafka holds, per consumer's topic and partition
  next,          \* how many messages of a partition have been delivered
  committed,     \* how many of them the group has committed
  step,          \* what each consumer is doing
  msg,           \* the message in its hands
  attempt,       \* which attempt at it this is
  matched,       \* the nodes that the statements of its open transaction have matched
  nodes,         \* Instruction nodes
  pays,          \* Payment nodes
  versions,      \* InstructionVersion nodes: which pipelines have written them
  edges,         \* per version, the edges users have to it
  recorded,      \* SecurityEvent nodes
  points,        \* Qdrant points of security events
  state,         \* the Qdrant point instruction:<id>
  payState,      \* the version in the Qdrant point payment:<id>, 0 when there is none
  skipped,       \* history: messages given up before they were completely indexed
  faults

broker == <<log, next, committed>>
worker == <<step, msg, attempt, matched>>
graph  == <<nodes, pays, versions, edges, recorded>>
vector == <<points, state, payState>>
vars   == <<broker, worker, graph, vector, skipped, faults>>

Consumers == {"events", "facts", "payEvents", "payFacts"}

Versions == 1..MaxVersion

Acts == {"CREATE", "SUBMIT", "APPROVE", "REJECT", "SUSPEND"}

\* What a message says: the version of the instruction (or payment) it is a snapshot of,
\* whether the snapshot has an approver or a rejector, and whether the event is a refusal.
Message == [id : Ids, ver : Versions, act : Acts,
            approver : BOOLEAN, rejector : BOOLEAN, denied : BOOLEAN]

ASSUME IndexerAssumption ==
  /\ MaxVersion \in Nat \ {0}
  /\ MaxAttempts \in Nat \ {0}
  /\ MaxFaults \in Nat
  /\ Logs \subseteq [Consumers -> [Partitions -> Seq(Message)]]
  /\ NoMessage \notin Message

\* An Instruction node with its edges: HAS_VERSION, CURRENT (0: none), TARGETS from
\* events, APPROVED_FOR from a user, HAS_PAYMENT.
Node == [has : SUBSET Versions, current : 0..MaxVersion, targets : SUBSET Ids,
         approvedFor : BOOLEAN, paid : BOOLEAN]

NewNode == [has |-> {}, current |-> 0, targets |-> {}, approvedFor |-> FALSE, paid |-> FALSE]

\* A Payment node: its version, the version of the fact its fields are from (0: a stub
\* made for an event), TARGETS_PAYMENT, and CREATED_PAYMENT and the like from users.
Pay == [ver : 0..MaxVersion, fact : 0..MaxVersion, targets : SUBSET Ids,
        signed : SUBSET {"CREATED", "APPROVED", "REJECTED"}]

NewPay == [ver |-> 0, fact |-> 0, targets |-> {}, signed |-> {}]

\* The payload of the instruction's Qdrant point; summary is the message whose
\* authorization summary it shows.
Point == [ver : Versions, act : Acts, approver : BOOLEAN, rejector : BOOLEAN, summary : Ids]

ASSUME NullAssumption == NoNode \notin Node \cup Pay /\ NoPoint \notin Point

\* The labels whose uniqueness constraint the indexer creates at start.  _apply_schema
\* cuts schema.cypher at the semicolons and drops a piece that begins with a comment: with
\* it goes the statement under the comment, for Instruction and for Payment.
Constrained == {"InstructionVersion", "SecurityEvent", "User", "ProfitCenter"}

Present(label) == {c \in Consumers : label[c] # NoNode}

\* The MERGEs of a transaction whose matches matter: by the key of the instruction or of the
\* payment, and the one of an event's second statement on the instruction.
Merges == {"Instruction", "Payment", "HAS_VERSION"}

Nothing == [l \in Merges |-> {}]

-----------------------------------------------------------------------------
Init ==
  /\ log \in Logs
  /\ next = [c \in Consumers |-> [p \in Partitions |-> 0]]
  /\ committed = next
  /\ step = [c \in Consumers |-> "idle"]
  /\ msg = [c \in Consumers |-> NoMessage]
  /\ attempt = [c \in Consumers |-> 0]
  /\ matched = [c \in Consumers |-> Nothing]
  /\ nodes = [c \in Consumers |-> NoNode]
  /\ pays = [c \in Consumers |-> NoNode]
  /\ versions = [v \in Versions |-> {}]
  /\ edges = [v \in Versions |-> {}] /\ recorded = {}
  /\ points = {} /\ state = NoPoint /\ payState = 0
  /\ skipped = {}
  /\ faults = 0

Goto(c, s) == step' = [step EXCEPT ![c] = s]

\* Mutant of Deliver: auto-commit, the position is committed when the message is handed out.
DeliverCommitting(c) ==
  /\ step[c] = "idle"
  /\ \E p \in Partitions :
       /\ next[c][p] < Len(log[c][p])
       /\ next' = [next EXCEPT ![c][p] = @ + 1]
       /\ committed' = [committed EXCEPT ![c][p] = next[c][p] + 1]
       /\ msg' = [msg EXCEPT ![c] = log[c][p][next[c][p] + 1]]
  /\ attempt' = [attempt EXCEPT ![c] = 1]
  /\ Goto(c, "write")
  /\ UNCHANGED <<log, matched, graph, vector, skipped, faults>>

\* Mutant of Deliver: the next message is taken only when the one before is committed.
DeliverCommitted(c) ==
  /\ step[c] = "idle" /\ next[c] = committed[c]
  /\ \E p \in Partitions :
       /\ next[c][p] < Len(log[c][p])
       /\ next' = [next EXCEPT ![c][p] = @ + 1]
       /\ msg' = [msg EXCEPT ![c] = log[c][p][next[c][p] + 1]]
  /\ attempt' = [attempt EXCEPT ![c] = 1]
  /\ Goto(c, "write")
  /\ UNCHANGED <<log, committed, matched, graph, vector, skipped, faults>>

\* async for: the next message of some partition; delivering it moves the position.
Deliver(c) ==
  /\ step[c] = "idle"
  /\ \E p \in Partitions :
       /\ next[c][p] < Len(log[c][p])
       /\ next' = [next EXCEPT ![c][p] = @ + 1]
       /\ msg' = [msg EXCEPT ![c] = log[c][p][next[c][p] + 1]]
  /\ attempt' = [attempt EXCEPT ![c] = 1]
  /\ Goto(c, "write")
  /\ UNCHANGED <<log, committed, matched, graph, vector, skipped, faults>>

-----------------------------------------------------------------------------
(* The statements of a transaction, up to the last that the commit is      *)
(* taken together with.                                                    *)

Label(l) == IF l = "Payment" THEN pays ELSE nodes

\* MERGE by business key: what it matches, or the node it creates.  With a constraint on the
\* label it would wait for the transaction that is creating the node.
Merge(c, l) ==
  /\ l \in Constrained => \A d \in Consumers : d \in matched[d][l] => Label(l)[d] # NoNode
  /\ matched' = [matched EXCEPT ![c][l] = IF Present(Label(l)) = {} THEN {c} ELSE Present(Label(l))]

Within(c, s) ==
  /\ Goto(c, s)
  /\ UNCHANGED <<broker, msg, attempt, graph, vector, skipped, faults>>

\* The first statement on the instruction (the event's TARGETS, the fact's query) or on the
\* payment.
Begin(c) ==
  /\ step[c] = "write"
  /\ Merge(c, IF c \in {"payEvents", "payFacts"} THEN "Payment" ELSE "Instruction")
  /\ Within(c, "open")

\* An event's second statement, HAS_VERSION: besides the nodes of the first it matches those
\* that others have committed since.
MergeVersion(c) ==
  /\ c = "events" /\ step[c] = "open"
  /\ matched' = [matched EXCEPT ![c]["HAS_VERSION"] = matched[c]["Instruction"] \cup Present(nodes)]
  /\ Within(c, "merged")

\* A payment fact's second statement, HAS_PAYMENT.
MergeInstruction(c) ==
  /\ c = "payFacts" /\ step[c] = "open"
  /\ Merge(c, "Instruction")
  /\ Within(c, "merged")

\* A node as the transaction finds it; one of its own is new.
Found(label, new, c) == IF label[c] = NoNode THEN new ELSE label[c]

Wrote(c) ==
  /\ matched' = [matched EXCEPT ![c] = Nothing]
  /\ Goto(c, "embed")
  /\ UNCHANGED <<broker, msg, attempt, vector, skipped, faults>>

-----------------------------------------------------------------------------
(* The four graph writes, at their commit.                                 *)

\* The users' edges to a version that its snapshot calls for.
SnapshotEdges(m) ==
  {"CREATED"} \cup (IF m.approver THEN {"APPROVED"} ELSE {})
              \cup (IF m.rejector THEN {"REJECTED"} ELSE {})

\* ... and the one the event's actor gets, for SUBMIT alone.
ActorEdge(m) == IF m.act = "SUBMIT" /\ ~m.denied THEN {"SUBMITTED"} ELSE {}

\* The statement of HAS_VERSION, on the nodes it has merged.
Versioned(f, m, merged) == IF merged THEN [f EXCEPT !.has = @ \cup {m.ver}] ELSE f

\* Mutant of MadeCurrent: CURRENT follows the event, newer or not.
MadeCurrentAnyOrder(f, m) == [f EXCEPT !.current = m.ver]

\* The statement of CURRENT: it moves if the event's version is newer.
MadeCurrent(f, m) == [f EXCEPT !.current = IF m.ver > @ THEN m.ver ELSE @]

\* Mutant of Targeted: TARGETS is drawn only to the newest version's node.
TargetedNewest(f, m, target) ==
  IF target /\ f.current = m.ver THEN [f EXCEPT !.targets = @ \cup {m.id}] ELSE f

\* The statement of TARGETS, on the nodes it has merged.
Targeted(f, m, target) == IF target THEN [f EXCEPT !.targets = @ \cup {m.id}] ELSE f

\* Neo4jGraphWriter.upsert: CURRENT goes to the nodes its statement matches, also to those
\* that came too late for the statement of HAS_VERSION or of TARGETS, if they came in time for
\* this one.
WriteEvent(c) ==
  LET m       == msg[c]
      targets == matched[c]["Instruction"]
      merged  == matched[c]["HAS_VERSION"] IN
  /\ c = "events" /\ step[c] = "merged"
  /\ \E late \in SUBSET Present(nodes) :
       nodes' = [n \in Consumers |->
         IF n \notin merged \cup late THEN nodes[n] ELSE
           Targeted(MadeCurrent(Versioned(Found(nodes, NewNode, n), m, n \in merged), m),
                    m, n \in targets)]
  /\ versions' = [versions EXCEPT ![m.ver] = @ \cup {"events"}]
  /\ edges' = [edges EXCEPT ![m.ver] = @ \cup SnapshotEdges(m) \cup ActorEdge(m)]
  /\ recorded' = recorded \cup {m.id}
  /\ UNCHANGED pays
  /\ Wrote(c)

\* Mutant of KeptRows: the query without its WHERE.
KeptRowsAll(m, touched) == touched

\* The rows the fact's WHERE keeps: CURRENT is not newer.  All that follows in the query,
\* CURRENT and the users' edges, happens for these rows only.
KeptRows(m, touched) == {n \in touched : m.ver >= Found(nodes, NewNode, n).current}

FactVersion(f, m, kept) ==
  [f EXCEPT !.has = @ \cup {m.ver}, !.current = IF kept THEN m.ver ELSE @,
            !.approvedFor = @ \/ (kept /\ m.approver)]

FactEdges(m, kept) == IF kept = {} THEN {} ELSE SnapshotEdges(m) \cup {"MUTATED"}

\* upsert_instruction_fact, one query that commits by itself.
WriteFact(c) ==
  LET m       == msg[c]
      touched == matched[c]["Instruction"]
      kept    == KeptRows(m, touched) IN
  /\ c = "facts" /\ step[c] = "open"
  /\ nodes' = [n \in Consumers |->
       IF n \in touched THEN FactVersion(Found(nodes, NewNode, n), m, n \in kept)
                        ELSE nodes[n]]
  /\ versions' = [versions EXCEPT ![m.ver] = @ \cup {"facts"}]
  /\ edges' = [edges EXCEPT ![m.ver] = @ \cup FactEdges(m, kept)]
  /\ UNCHANGED <<pays, recorded>>
  /\ Wrote(c)

\* upsert_payment_security_event: a stub, whose version is set to the event's.
WritePayEvent(c) ==
  LET m == msg[c] IN
  /\ c = "payEvents" /\ step[c] = "open"
  /\ pays' = [n \in Consumers |->
       IF n \notin matched[c]["Payment"] THEN pays[n] ELSE
         [Found(pays, NewPay, n) EXCEPT !.ver = m.ver, !.targets = @ \cup {m.id}]]
  /\ recorded' = recorded \cup {m.id}
  /\ UNCHANGED <<nodes, versions, edges>>
  /\ Wrote(c)

\* upsert_payment_fact: every field is set from this fact, older or not.
PaymentFields(f, m) ==
  [f EXCEPT !.ver = m.ver, !.fact = m.ver, !.signed = @ \cup SnapshotEdges(m)]

\* The statements that draw the users' edges match the payment again, one after the other: a
\* node that was not there for the first of them gets the edges of the later ones.
Missed == {{}, {"CREATED"}, {"CREATED", "APPROVED"}, {"CREATED", "APPROVED", "REJECTED"}}

\* ... and HAS_PAYMENT from the instruction, which is made when it is not there yet.
WritePayFact(c) ==
  LET m == msg[c] IN
  /\ c = "payFacts" /\ step[c] = "merged"
  /\ \E missed \in Missed :
       pays' = [n \in Consumers |->
         IF n \in matched[c]["Payment"] THEN PaymentFields(Found(pays, NewPay, n), m)
         ELSE IF n \in Present(pays)
           THEN [pays[n] EXCEPT !.signed = @ \cup (SnapshotEdges(m) \ missed)]
           ELSE NoNode]
  /\ nodes' = [n \in Consumers |->
       IF n \notin matched[c]["Instruction"] THEN nodes[n] ELSE
         [Found(nodes, NewNode, n) EXCEPT !.paid = TRUE]]
  /\ UNCHANGED <<versions, edges, recorded>>
  /\ Wrote(c)

-----------------------------------------------------------------------------
(* Embedding and the write to Qdrant.  The pipeline awaits the embedding;  *)
(* Qdrant's client is synchronous, so its calls interleave with nothing.   *)

Indexed(c) ==
  /\ step[c] = "embed"
  /\ Goto(c, "commit")
  /\ UNCHANGED <<broker, msg, attempt, matched, graph, skipped, faults>>

\* patch_instruction_state_authorization: the summary on the instruction's point, if any.
Patched(m) ==
  IF m.act = "APPROVE" /\ state # NoPoint THEN [state EXCEPT !.summary = m.id] ELSE state

\* Mutant of StoreEvent: Qdrant is written while the graph's transaction is still open.
StoreEventEarly(c) ==
  /\ c = "events" /\ step[c] \in {"open", "embed"}
  /\ points' = points \cup {msg[c].id}
  /\ Goto(c, IF step[c] = "open" THEN "open" ELSE "commit")
  /\ UNCHANGED <<broker, msg, attempt, matched, graph, skipped, faults, state, payState>>

\* process_instruction_security_event: the event's own point, and then the patch.
StoreEvent(c) ==
  /\ c = "events"
  /\ Indexed(c)
  /\ points' = points \cup {msg[c].id}
  /\ state' = Patched(msg[c])
  /\ UNCHANGED payState

\* The payload for the instruction's point: this fact's, whatever version it is of, but
\* approver and rejector stay when the fact has none and is no decision itself.
StatePayload(m) ==
  [ver |-> m.ver, act |-> m.act, summary |-> m.id,
   approver |-> m.approver \/ (m.act # "APPROVE" /\ state # NoPoint /\ state.approver),
   rejector |-> m.rejector \/ (m.act # "REJECT" /\ state # NoPoint /\ state.rejector)]

\* process_instruction_fact: one point per instruction, replaced.
StoreFact(c) ==
  /\ c = "facts"
  /\ Indexed(c)
  /\ state' = StatePayload(msg[c])
  /\ UNCHANGED <<points, payState>>

StorePayEvent(c) ==
  /\ c = "payEvents"
  /\ Indexed(c)
  /\ points' = points \cup {msg[c].id}
  /\ UNCHANGED <<state, payState>>

StorePayFact(c) ==
  /\ c = "payFacts"
  /\ Indexed(c)
  /\ payState' = msg[c].ver
  /\ UNCHANGED <<points, state>>

-----------------------------------------------------------------------------
Done(c) ==
  /\ Goto(c, "idle")
  /\ msg' = [msg EXCEPT ![c] = NoMessage]
  /\ attempt' = [attempt EXCEPT ![c] = 0]
  /\ matched' = [matched EXCEPT ![c] = Nothing]
  /\ UNCHANGED <<log, next, graph, vector>>

\* commit() without arguments: the position of every partition, past whatever was skipped.
Commit(c) ==
  /\ step[c] = "commit"
  /\ committed' = [committed EXCEPT ![c] = next[c]]
  /\ Done(c)
  /\ UNCHANGED <<skipped, faults>>

\* Mutant of Retry: without a limit to the attempts.
RetryForever(c) ==
  /\ step[c] \in {"open", "merged"}
  /\ faults < MaxFaults
  /\ attempt' = [attempt EXCEPT ![c] = @ + 1]
  /\ matched' = [matched EXCEPT ![c] = Nothing]
  /\ faults' = faults + 1
  /\ Goto(c, "write")
  /\ UNCHANGED <<broker, msg, graph, vector, skipped>>

\* TransientError: the transaction is rolled back and the message tried again from its
\* start.  A fact's second session, for CONFLICTS_WITH, may fail after the first committed.
Retry(c) ==
  /\ step[c] \in {"open", "merged"} \/ (c = "facts" /\ step[c] = "embed")
  /\ attempt[c] < MaxAttempts
  /\ faults < MaxFaults
  /\ attempt' = [attempt EXCEPT ![c] = @ + 1]
  /\ matched' = [matched EXCEPT ![c] = Nothing]
  /\ faults' = faults + 1
  /\ Goto(c, "write")
  /\ UNCHANGED <<broker, msg, graph, vector, skipped>>

\* Any other error, or the last transient one: logged, and on to the next message without
\* a commit.  Nothing is missing when it was the commit itself that failed.
Skip(c) ==
  /\ step[c] \in {"open", "merged", "embed", "commit"}
  /\ faults < MaxFaults
  /\ faults' = faults + 1
  /\ skipped' = IF step[c] = "commit" THEN skipped ELSE skipped \cup {msg[c].id}
  /\ Done(c)
  /\ UNCHANGED committed

\* The process stops anywhere and starts again: open transactions roll back, connect()
\* removes all but one of the nodes with the same key (_repair_graph_duplicates), and the
\* consumers go on from what was committed.
OneOf(label) ==
  {[c \in Consumers |-> IF c = keep THEN label[c] ELSE NoNode] :
     keep \in IF Present(label) = {} THEN Consumers ELSE Present(label)}

Restart ==
  /\ faults < MaxFaults
  /\ faults' = faults + 1
  /\ next' = committed
  /\ step' = [c \in Consumers |-> "idle"]
  /\ msg' = [c \in Consumers |-> NoMessage]
  /\ attempt' = [c \in Consumers |-> 0]
  /\ matched' = [c \in Consumers |-> Nothing]
  /\ nodes' \in OneOf(nodes)
  /\ pays' \in OneOf(pays)
  /\ UNCHANGED <<log, committed, versions, edges, recorded, vector, skipped>>

Write(c) == WriteEvent(c) \/ WriteFact(c) \/ WritePayEvent(c) \/ WritePayFact(c)

Store(c) == StoreEvent(c) \/ StoreFact(c) \/ StorePayEvent(c) \/ StorePayFact(c)

Open(c) == Begin(c) \/ MergeVersion(c) \/ MergeInstruction(c)

Work(c) == Deliver(c) \/ Open(c) \/ Write(c) \/ Store(c) \/ Commit(c)

Next == (\E c \in Consumers : Work(c) \/ Retry(c) \/ Skip(c)) \/ Restart

Spec == Init /\ [][Next]_vars

\* Each consumer is a task of its own that the event loop keeps scheduling.
FairSpec == Spec /\ \A c \in Consumers : WF_vars(Work(c))

-----------------------------------------------------------------------------
(* Properties.                                                             *)

\* The state of the variables; NoNode, NoPoint and NoMessage stand for what is not there.
TypeOK ==
  /\ log \in Logs
  /\ next \in [Consumers -> [Partitions -> Nat]]
  /\ committed \in [Consumers -> [Partitions -> Nat]]
  /\ step \in [Consumers -> {"idle", "write", "open", "merged", "embed", "commit"}]
  /\ msg \in [Consumers -> Message \cup {NoMessage}]
  /\ \A c \in Consumers : (msg[c] = NoMessage) <=> (step[c] = "idle")
  /\ attempt \in [Consumers -> 0..MaxAttempts]
  /\ matched \in [Consumers -> [Merges -> SUBSET Consumers]]
  /\ nodes \in [Consumers -> Node \cup {NoNode}]
  /\ pays \in [Consumers -> Pay \cup {NoNode}]
  /\ versions \in [Versions -> SUBSET {"events", "facts"}]
  /\ edges \in [Versions -> SUBSET {"CREATED", "APPROVED", "REJECTED", "SUBMITTED", "MUTATED"}]
  /\ recorded \subseteq Ids /\ points \subseteq Ids /\ skipped \subseteq Ids
  /\ state \in Point \cup {NoPoint}
  /\ payState \in 0..MaxVersion
  /\ faults \in 0..MaxFaults

\* CURRENT is not older than any version its node has, in whatever order the two pipelines
\* and the partitions bring them, with redeliveries and duplicate nodes.  It need not be one
\* of them: a node that appears between the statements of HAS_VERSION and CURRENT gets only
\* the second.  Until a restart removes duplicates another node of the instruction has it.
CurrentIsNewest ==
  \A c \in Present(nodes) :
    /\ \A v \in nodes[c].has : v <= nodes[c].current
    /\ faults = 0 /\ nodes[c].current # 0 =>
         \E d \in Present(nodes) : nodes[c].current \in nodes[d].has

\* No step moves the CURRENT of a node back: an older event or fact that comes late, or
\* again, and the removal of duplicates at a restart leave it where it is.
CurrentOnlyAdvances ==
  [][\A c \in Consumers : nodes[c] # NoNode /\ nodes'[c] # NoNode
                            => nodes'[c].current >= nodes[c].current]_vars

\* What a message leaves behind when it has been indexed.
Applied(c, m) ==
  CASE c = "events"    -> m.id \in recorded \cap points /\ "events" \in versions[m.ver]
    [] c = "facts"     -> state # NoPoint /\ "facts" \in versions[m.ver]
    [] c = "payEvents" -> m.id \in recorded \cap points
    [] c = "payFacts"  -> payState # 0 /\ Present(pays) # {}

\* Every message below a committed offset has been indexed or given up with a line in the
\* log, through errors, retries and restarts: nothing is passed over silently.
CommittedIsAccountedFor ==
  \A c \in Consumers, p \in Partitions : \A i \in 1..committed[c][p] :
    LET m == log[c][p][i] IN m.id \in skipped \/ Applied(c, m)

\* Qdrant never shows what the graph has not: a hit of the search can be looked up there.
VectorAfterGraph ==
  /\ points \subseteq recorded
  /\ state # NoPoint => "facts" \in versions[state.ver]
  /\ payState # 0 => Present(pays) # {}

Delivered == \A c \in Consumers, p \in Partitions : next[c][p] = Len(log[c][p])

Quiet == Delivered /\ \A c \in Consumers : step[c] = "idle"

\* The messages of the consumer's topic.
Messages(c) == UNION {{log[c][p][i] : i \in 1..Len(log[c][p])} : p \in Partitions}

\* Without errors and restarts the whole history is in the graph once the topics have been
\* read, also when its nodes have been duplicated on the way: some Instruction node has
\* each version and each event, no version newer than CURRENT, and the users' edges to a
\* version are there even when its fact came too late to draw them; some Payment node has
\* each payment event, and one has fields and the users' edges of each payment fact.
GraphIsComplete ==
  Quiet /\ faults = 0 =>
    /\ \A m \in Messages("events") \cup Messages("facts") :
         \E c \in Present(nodes) : m.ver \in nodes[c].has /\ m.ver <= nodes[c].current
    /\ \A m \in Messages("events") :
         /\ \E c \in Present(nodes) : m.id \in nodes[c].targets
         /\ SnapshotEdges(m) \cup ActorEdge(m) \subseteq edges[m.ver]
    /\ \A m \in Messages("payEvents") : \E c \in Present(pays) : m.id \in pays[c].targets
    /\ \A m \in Messages("payFacts") :
         \E c \in Present(pays) : pays[c].fact # 0 /\ SnapshotEdges(m) \subseteq pays[c].signed

\* Every consumer gets to the end of its topic, whatever it skips on the way.
AllDelivered == <>[]Quiet

-----------------------------------------------------------------------------
(* What comments and documents of the repository say and the code does not *)
(* keep, checked by a run that finds it violated.                         *)

\* schema.cypher:1, "one node per business key".
OneNodePerKey == Cardinality(Present(nodes)) <= 1 /\ Cardinality(Present(pays)) <= 1

=============================================================================
