---------------------------- MODULE Indexer_proofs ----------------------------
(***************************************************************************)
(* The indexer keeps its promises for any topics, partitions, versions,    *)
(* numbers of attempts and of faults.                                      *)
(***************************************************************************)
EXTENDS Indexer, TLAPS

-----------------------------------------------------------------------------
(* Types.                                                                  *)

\* What is handed out is a message.
LEMMA DeliveredMessage ==
  ASSUME TypeOK, NEW c \in Consumers, NEW p \in Partitions, next[c][p] < Len(log[c][p])
  PROVE  /\ next[c][p] + 1 \in 1..Len(log[c][p])
         /\ log[c][p][next[c][p] + 1] \in Message
<1>1. log \in [Consumers -> [Partitions -> Seq(Message)]]
  BY IndexerAssumption DEF TypeOK
<1>2. log[c][p] \in Seq(Message) /\ next[c][p] \in Nat
  BY <1>1 DEF TypeOK
<1> QED BY <1>2

\* A consumer at work holds a message.
LEMMA HeldMessage ==
  ASSUME TypeOK, NEW c \in Consumers, step[c] # "idle"
  PROVE  msg[c] \in Message
BY DEF TypeOK

\* An open transaction has matched nodes, one that has ended nothing.
LEMMA MatchedIn ==
  ASSUME TypeOK, NEW c \in Consumers, NEW l \in {"Instruction", "Payment", "HAS_VERSION"}
  PROVE  matched[c][l] \subseteq Consumers
BY DEF TypeOK, Merges

LEMMA NothingMatched == Nothing \in [Merges -> SUBSET Consumers]
BY DEF Nothing

LEMMA InitType == Init => TypeOK
<1> SUFFICES ASSUME Init PROVE TypeOK
  OBVIOUS
<1> USE DEF Init, TypeOK
<1>1. /\ next \in [Consumers -> [Partitions -> Nat]]
      /\ committed \in [Consumers -> [Partitions -> Nat]]
  OBVIOUS
<1>2. /\ log \in Logs
      /\ step \in [Consumers -> {"idle", "write", "open", "merged", "embed", "commit"}]
      /\ msg \in [Consumers -> Message \cup {NoMessage}]
      /\ \A c \in Consumers : (msg[c] = NoMessage) <=> (step[c] = "idle")
      /\ attempt \in [Consumers -> 0..MaxAttempts]
      /\ matched \in [Consumers -> [Merges -> SUBSET Consumers]]
  BY IndexerAssumption, NothingMatched
<1>3. /\ nodes \in [Consumers -> Node \cup {NoNode}]
      /\ pays \in [Consumers -> Pay \cup {NoNode}]
      /\ versions \in [Versions -> SUBSET {"events", "facts"}]
      /\ edges \in [Versions -> SUBSET {"CREATED", "APPROVED", "REJECTED", "SUBMITTED", "MUTATED"}]
  OBVIOUS
<1>4. /\ recorded \subseteq Ids /\ points \subseteq Ids /\ skipped \subseteq Ids
      /\ state \in Point \cup {NoPoint}
      /\ payState \in 0..MaxVersion
      /\ faults \in 0..MaxFaults
  BY IndexerAssumption
<1> QED BY <1>1, <1>2, <1>3, <1>4

-----------------------------------------------------------------------------
(* Taking, committing and giving up a message.                             *)

LEMMA DeliverType ==
  ASSUME TypeOK, NEW c \in Consumers, Deliver(c)
  PROVE  TypeOK'
<1>1. PICK p \in Partitions :
        /\ next[c][p] < Len(log[c][p])
        /\ next' = [next EXCEPT ![c][p] = @ + 1]
        /\ msg' = [msg EXCEPT ![c] = log[c][p][next[c][p] + 1]]
  BY DEF Deliver
<1>2. log[c][p][next[c][p] + 1] \in Message
  BY <1>1, DeliveredMessage
<1>3. UNCHANGED <<log, committed, matched, nodes, pays, versions, edges, recorded,
                  points, state, payState, skipped, faults>>
  BY DEF Deliver, graph, vector
<1>4. next' \in [Consumers -> [Partitions -> Nat]]
  BY <1>1 DEF TypeOK
<1>5. /\ step' \in [Consumers -> {"idle", "write", "open", "merged", "embed", "commit"}]
      /\ msg' \in [Consumers -> Message \cup {NoMessage}]
      /\ attempt' \in [Consumers -> 0..MaxAttempts]
  BY <1>1, <1>2, IndexerAssumption DEF Deliver, Goto, TypeOK
<1>6. \A u \in Consumers : (msg'[u] = NoMessage) <=> (step'[u] = "idle")
  BY <1>1, <1>2, IndexerAssumption DEF Deliver, Goto, TypeOK
<1> QED BY <1>3, <1>4, <1>5, <1>6 DEF TypeOK

\* A statement of an open transaction changes what it has matched, and nothing else.
LEMMA OpenType ==
  ASSUME TypeOK, NEW c \in Consumers, Open(c)
  PROVE  TypeOK'
<1>1. UNCHANGED <<log, next, committed, msg, attempt, nodes, pays, versions, edges,
                  recorded, points, state, payState, skipped, faults>>
  BY DEF Open, Begin, MergeVersion, MergeInstruction, Within, broker, graph, vector
<1>2. Present(nodes) \subseteq Consumers /\ Present(pays) \subseteq Consumers
  BY DEF Present
<1>3. ASSUME NEW l \in Merges, Merge(c, l)
      PROVE  matched' \in [Consumers -> [Merges -> SUBSET Consumers]]
  <2> DEFINE new == IF Present(Label(l)) = {} THEN {c} ELSE Present(Label(l))
  <2>1. new \subseteq Consumers
    BY <1>2 DEF Label
  <2>2. matched' = [matched EXCEPT ![c][l] = new]
    BY <1>3 DEF Merge
  <2> HIDE DEF new
  <2> QED BY <1>3, <2>1, <2>2 DEF TypeOK
<1>4. MergeVersion(c) => matched' \in [Consumers -> [Merges -> SUBSET Consumers]]
  <2> DEFINE new == matched[c]["Instruction"] \cup Present(nodes)
  <2>1. new \subseteq Consumers /\ "HAS_VERSION" \in Merges
    BY <1>2, MatchedIn DEF Merges
  <2> HIDE DEF new
  <2>2. ASSUME MergeVersion(c)
        PROVE  matched' = [matched EXCEPT ![c]["HAS_VERSION"] = new]
    BY <2>2 DEF MergeVersion, new
  <2> SUFFICES ASSUME MergeVersion(c)
               PROVE  matched' \in [Consumers -> [Merges -> SUBSET Consumers]]
    OBVIOUS
  <2>3. [matched[c] EXCEPT !["HAS_VERSION"] = new] \in [Merges -> SUBSET Consumers]
    BY <2>1 DEF TypeOK
  <2>4. matched' = [matched EXCEPT ![c] = [matched[c] EXCEPT !["HAS_VERSION"] = new]]
    BY <2>2 DEF TypeOK
  <2> QED BY <2>3, <2>4 DEF TypeOK
<1>5. matched' \in [Consumers -> [Merges -> SUBSET Consumers]]
  <2>1. {"Instruction", "Payment"} \subseteq Merges
    BY DEF Merges
  <2> QED BY <1>3, <1>4, <2>1 DEF Open, Begin, MergeInstruction
<1>6. /\ step' \in [Consumers -> {"idle", "write", "open", "merged", "embed", "commit"}]
      /\ \A u \in Consumers : (msg'[u] = NoMessage) <=> (step'[u] = "idle")
  BY <1>1 DEF Open, Begin, MergeVersion, MergeInstruction, Within, Goto, TypeOK
<1> QED BY <1>1, <1>5, <1>6 DEF TypeOK

LEMMA DoneType ==
  ASSUME TypeOK, NEW c \in Consumers, Done(c), skipped' \subseteq Ids, faults' \in 0..MaxFaults,
         committed' \in [Consumers -> [Partitions -> Nat]]
  PROVE  TypeOK'
<1>1. UNCHANGED <<log, next, nodes, pays, versions, edges, recorded, points, state, payState>>
  BY DEF Done, graph, vector
<1>2. /\ step' \in [Consumers -> {"idle", "write", "open", "merged", "embed", "commit"}]
      /\ msg' \in [Consumers -> Message \cup {NoMessage}]
      /\ attempt' \in [Consumers -> 0..MaxAttempts]
      /\ matched' \in [Consumers -> [Merges -> SUBSET Consumers]]
      /\ \A u \in Consumers : (msg'[u] = NoMessage) <=> (step'[u] = "idle")
  BY IndexerAssumption, NothingMatched DEF Done, Goto, TypeOK
<1> QED BY <1>1, <1>2 DEF TypeOK

LEMMA RetryType ==
  ASSUME TypeOK, NEW c \in Consumers, Retry(c)
  PROVE  TypeOK'
<1>1. UNCHANGED <<log, next, committed, msg, nodes, pays, versions, edges, recorded, points,
                  state, payState, skipped>>
  BY DEF Retry, broker, graph, vector
<1>2. faults' \in 0..MaxFaults
  BY IndexerAssumption DEF Retry, TypeOK
<1>3. /\ step' \in [Consumers -> {"idle", "write", "open", "merged", "embed", "commit"}]
      /\ attempt' \in [Consumers -> 0..MaxAttempts]
      /\ matched' \in [Consumers -> [Merges -> SUBSET Consumers]]
      /\ \A u \in Consumers : (msg'[u] = NoMessage) <=> (step'[u] = "idle")
  BY <1>1, IndexerAssumption, NothingMatched DEF Retry, Goto, TypeOK
<1> QED BY <1>1, <1>2, <1>3 DEF TypeOK

LEMMA SkipType ==
  ASSUME TypeOK, NEW c \in Consumers, Skip(c)
  PROVE  TypeOK'
<1>1. msg[c] \in Message
  BY HeldMessage DEF Skip
<1>2. skipped' \subseteq Ids
  BY <1>1 DEF Skip, TypeOK, Message
<1>3. faults' \in 0..MaxFaults
  BY IndexerAssumption DEF Skip, TypeOK
<1> QED BY <1>2, <1>3, DoneType DEF Skip, TypeOK

LEMMA CommitType ==
  ASSUME TypeOK, NEW c \in Consumers, Commit(c)
  PROVE  TypeOK'
<1>1. committed' \in [Consumers -> [Partitions -> Nat]]
  BY DEF Commit, TypeOK
<1> QED BY <1>1, DoneType DEF Commit, TypeOK

\* Duplicates are removed, nothing else.
LEMMA Repaired ==
  ASSUME NEW label, label \in [Consumers -> Node \cup {NoNode}]
                    \/ label \in [Consumers -> Pay \cup {NoNode}],
         NEW new \in OneOf(label)
  PROVE  /\ label \in [Consumers -> Node \cup {NoNode}] => new \in [Consumers -> Node \cup {NoNode}]
         /\ label \in [Consumers -> Pay \cup {NoNode}] => new \in [Consumers -> Pay \cup {NoNode}]
         /\ \A c \in Consumers : new[c] = label[c] \/ new[c] = NoNode
         /\ Present(label) # {} => Present(new) # {}
<1>1. PICK keep \in IF Present(label) = {} THEN Consumers ELSE Present(label) :
        new = [c \in Consumers |-> IF c = keep THEN label[c] ELSE NoNode]
  BY DEF OneOf
<1>2. keep \in Consumers /\ (Present(label) # {} => label[keep] # NoNode)
  BY <1>1 DEF Present
<1>3. Present(label) # {} => keep \in Present(new)
  BY <1>1, <1>2 DEF Present
<1> QED BY <1>1, <1>2, <1>3

LEMMA RestartType ==
  ASSUME TypeOK, Restart
  PROVE  TypeOK'
<1>1. UNCHANGED <<log, committed, versions, edges, recorded, points, state, payState, skipped>>
  BY DEF Restart, vector
<1>2. /\ faults' \in 0..MaxFaults
      /\ next' \in [Consumers -> [Partitions -> Nat]]
      /\ step' \in [Consumers -> {"idle", "write", "open", "merged", "embed", "commit"}]
      /\ msg' \in [Consumers -> Message \cup {NoMessage}]
      /\ attempt' \in [Consumers -> 0..MaxAttempts]
      /\ matched' \in [Consumers -> [Merges -> SUBSET Consumers]]
      /\ \A u \in Consumers : (msg'[u] = NoMessage) <=> (step'[u] = "idle")
  BY IndexerAssumption, NothingMatched DEF Restart, TypeOK
<1>3. nodes' \in [Consumers -> Node \cup {NoNode}]
  BY Repaired DEF Restart, TypeOK
<1>4. pays' \in [Consumers -> Pay \cup {NoNode}]
  BY Repaired DEF Restart, TypeOK
<1> QED BY <1>1, <1>2, <1>3, <1>4 DEF TypeOK

-----------------------------------------------------------------------------
(* The graph.                                                              *)

\* The transaction has been committed, with what it may have written.
LEMMA WroteType ==
  ASSUME TypeOK, NEW c \in Consumers, step[c] \in {"open", "merged"}, Wrote(c),
         nodes' \in [Consumers -> Node \cup {NoNode}],
         pays' \in [Consumers -> Pay \cup {NoNode}],
         versions' \in [Versions -> SUBSET {"events", "facts"}],
         edges' \in
           [Versions -> SUBSET {"CREATED", "APPROVED", "REJECTED", "SUBMITTED", "MUTATED"}],
         recorded' \subseteq Ids
  PROVE  TypeOK'
<1>1. UNCHANGED <<log, next, committed, msg, attempt, points, state, payState, skipped, faults>>
  BY DEF Wrote, broker, vector
<1>2. /\ step' \in [Consumers -> {"idle", "write", "open", "merged", "embed", "commit"}]
      /\ matched' \in [Consumers -> [Merges -> SUBSET Consumers]]
      /\ \A u \in Consumers : (msg'[u] = NoMessage) <=> (step'[u] = "idle")
  BY <1>1, NothingMatched DEF Wrote, Goto, TypeOK
<1> QED BY <1>1, <1>2 DEF TypeOK

\* Every node to which anything is added is a node afterwards.
LEMMA FoundNode ==
  ASSUME TypeOK, NEW n \in Consumers
  PROVE  Found(nodes, NewNode, n) \in Node /\ Found(pays, NewPay, n) \in Pay
<1>1. NewNode \in Node /\ NewPay \in Pay
  BY IndexerAssumption DEF NewNode, Node, NewPay, Pay
<1> QED BY <1>1 DEF Found, TypeOK

LEMMA EdgesType ==
  ASSUME NEW m \in Message
  PROVE  /\ SnapshotEdges(m) \subseteq {"CREATED", "APPROVED", "REJECTED"}
         /\ ActorEdge(m) \subseteq {"SUBMITTED"}
         /\ \A kept : FactEdges(m, kept) \subseteq {"CREATED", "APPROVED", "REJECTED", "MUTATED"}
BY DEF SnapshotEdges, ActorEdge, FactEdges

\* What holds of each node alone: CURRENT is not older than any version it has.
Newest(f) == \A v \in f.has : v <= f.current

\* A node after a step: it has lost nothing, and CURRENT has not gone back.
Advanced(f, g) ==
  /\ g.current >= f.current
  /\ f.has \subseteq g.has
  /\ f.targets \subseteq g.targets
  /\ Newest(f) => Newest(g)

\* What the three statements of an event make of a node.
EventNode(f, m, merged, target) == Targeted(MadeCurrent(Versioned(f, m, merged), m), m, target)

LEMMA EventNodeStep ==
  ASSUME NEW f \in Node, NEW m \in Message, NEW merged \in BOOLEAN, NEW target \in BOOLEAN,
         NEW g, g = EventNode(f, m, merged, target)
  PROVE  /\ g \in Node
         /\ Advanced(f, g)
         /\ merged => m.ver \in g.has
         /\ target => m.id \in g.targets
         /\ g.current \in {f.current, m.ver}
<1>1. /\ m.ver \in 1..MaxVersion /\ f.current \in 0..MaxVersion /\ f.has \subseteq 1..MaxVersion
      /\ m.id \in Ids /\ f.targets \subseteq Ids
  BY DEF Message, Node, Versions
<1> DEFINE has     == IF merged THEN f.has \cup {m.ver} ELSE f.has
           current == IF m.ver > f.current THEN m.ver ELSE f.current
           targets == IF target THEN f.targets \cup {m.id} ELSE f.targets
<1>2. has \subseteq 1..MaxVersion /\ current \in 0..MaxVersion /\ targets \subseteq Ids
  BY <1>1
<1>3. Versioned(f, m, merged) = [f EXCEPT !.has = has]
  BY DEF Versioned, Node
<1> HIDE DEF has
<1>4. MadeCurrent([f EXCEPT !.has = has], m) = [f EXCEPT !.has = has, !.current = current]
  BY DEF MadeCurrent, Node
<1> HIDE DEF current
<1>5. Targeted([f EXCEPT !.has = has, !.current = current], m, target) =
        [f EXCEPT !.has = has, !.current = current, !.targets = targets]
  BY DEF Targeted, Node
<1> HIDE DEF targets
<1>6. g = [f EXCEPT !.has = has, !.current = current, !.targets = targets]
  BY <1>3, <1>4, <1>5 DEF EventNode
<1>7. g \in Node /\ g.has = has /\ g.current = current /\ g.targets = targets
  BY <1>2, <1>6 DEF Node, Versions
<1>8. current >= f.current /\ current >= m.ver /\ current \in {f.current, m.ver}
  BY <1>1, IndexerAssumption DEF current
<1>9. f.has \subseteq has /\ has \subseteq f.has \cup {m.ver} /\ (merged => m.ver \in has)
  BY DEF has
<1>10. f.targets \subseteq targets /\ (target => m.id \in targets)
  BY DEF targets
<1>11. Newest(f) => Newest(g)
  <2> SUFFICES ASSUME Newest(f), NEW v \in g.has PROVE v <= g.current
    BY DEF Newest
  <2>1. v \in has /\ v \in 1..MaxVersion
    BY <1>2, <1>7
  <2>2. v \in f.has => v <= f.current
    BY DEF Newest
  <2> QED BY <1>1, <1>2, <1>7, <1>8, <1>9, <2>1, <2>2, IndexerAssumption
<1>12. Advanced(f, g)
  <2>1. g.current >= f.current
    BY <1>7, <1>8
  <2>2. f.has \subseteq g.has /\ f.targets \subseteq g.targets
    BY <1>7, <1>9, <1>10
  <2> QED BY <1>11, <2>1, <2>2 DEF Advanced
<1>13. (merged => m.ver \in g.has) /\ (target => m.id \in g.targets)
  BY <1>7, <1>9, <1>10
<1> QED BY <1>7, <1>8, <1>12, <1>13

LEMMA FactVersionNode ==
  ASSUME NEW f \in Node, NEW m \in Message, NEW kept \in BOOLEAN,
         kept <=> m.ver >= f.current, NEW g, g = FactVersion(f, m, kept)
  PROVE  /\ g \in Node
         /\ Advanced(f, g)
         /\ m.ver \in g.has
         /\ g.current \in {f.current, m.ver}
<1>1. m.ver \in 1..MaxVersion /\ f.current \in 0..MaxVersion /\ f.has \subseteq 1..MaxVersion
  BY DEF Message, Node, Versions
<1> DEFINE has      == f.has \cup {m.ver}
           current  == IF kept THEN m.ver ELSE f.current
           approved == f.approvedFor \/ (kept /\ m.approver)
<1>2. has \subseteq 1..MaxVersion /\ current \in 0..MaxVersion /\ approved \in BOOLEAN
  BY <1>1
<1>3. g = [f EXCEPT !.has = has, !.current = current, !.approvedFor = approved]
  BY DEF FactVersion
<1> HIDE DEF has, current, approved
<1>4. g \in Node /\ g.has = has /\ g.current = current /\ g.targets = f.targets
  BY <1>2, <1>3 DEF Node, Versions
<1>5. current >= f.current /\ current >= m.ver /\ current \in {f.current, m.ver}
  BY <1>1, IndexerAssumption DEF current
<1>6. f.has \subseteq has /\ has \subseteq f.has \cup {m.ver} /\ m.ver \in has
  BY DEF has
<1>7. Newest(f) => Newest(g)
  <2> SUFFICES ASSUME Newest(f), NEW v \in g.has PROVE v <= g.current
    BY DEF Newest
  <2>1. v \in has /\ v \in 1..MaxVersion
    BY <1>2, <1>4
  <2>2. v \in f.has => v <= f.current
    BY DEF Newest
  <2> QED BY <1>1, <1>2, <1>4, <1>5, <1>6, <2>1, <2>2, IndexerAssumption
<1>8. Advanced(f, g)
  <2>1. g.current >= f.current
    BY <1>4, <1>5
  <2>2. f.has \subseteq g.has /\ f.targets \subseteq g.targets
    BY <1>4, <1>6
  <2> QED BY <1>7, <2>1, <2>2 DEF Advanced
<1> QED BY <1>4, <1>5, <1>6, <1>8

\* The nodes after a write: each is as it was, or has advanced from what was found.
NodesAdvance ==
  \A n \in Consumers :
    \/ nodes'[n] = nodes[n]
    \/ nodes'[n] \in Node /\ Advanced(Found(nodes, NewNode, n), nodes'[n])

\* What an event's transaction leaves on the nodes its statements match, and on the others.
LEMMA WriteEventOn ==
  ASSUME TypeOK, NEW c \in Consumers, WriteEvent(c), NEW n \in Consumers
  PROVE  LET m == msg[c]
             f == Found(nodes, NewNode, n)
             merged == n \in matched[c]["HAS_VERSION"]
             target == n \in matched[c]["Instruction"] IN
         /\ merged => nodes'[n] = EventNode(f, m, merged, target)
         /\ nodes'[n] = nodes[n] \/ nodes'[n] = EventNode(f, m, merged, target)
         /\ f \in Node /\ m \in Message /\ merged \in BOOLEAN /\ target \in BOOLEAN
<1>1. Found(nodes, NewNode, n) \in Node
  BY FoundNode
<1>2. msg[c] \in Message
  BY HeldMessage DEF WriteEvent
<1>3. PICK late \in SUBSET Present(nodes) :
        nodes' = [k \in Consumers |->
          IF k \notin matched[c]["HAS_VERSION"] \cup late THEN nodes[k] ELSE
            EventNode(Found(nodes, NewNode, k), msg[c], k \in matched[c]["HAS_VERSION"],
                      k \in matched[c]["Instruction"])]
  BY DEF WriteEvent, EventNode
<1> QED BY <1>1, <1>2, <1>3

LEMMA WriteEventNodes ==
  ASSUME TypeOK, NEW c \in Consumers, WriteEvent(c)
  PROVE  NodesAdvance /\ nodes' \in [Consumers -> Node \cup {NoNode}]
<1>1. ASSUME NEW n \in Consumers
      PROVE  \/ nodes'[n] = nodes[n]
             \/ nodes'[n] \in Node /\ Advanced(Found(nodes, NewNode, n), nodes'[n])
  <2> DEFINE f == Found(nodes, NewNode, n)
             merged == n \in matched[c]["HAS_VERSION"]
             target == n \in matched[c]["Instruction"]
  <2>1. f \in Node /\ msg[c] \in Message /\ merged \in BOOLEAN /\ target \in BOOLEAN
    BY WriteEventOn
  <2>2. nodes'[n] = nodes[n] \/ nodes'[n] = EventNode(f, msg[c], merged, target)
    BY WriteEventOn
  <2> HIDE DEF f, merged, target
  <2>3. nodes'[n] = nodes[n] \/ (nodes'[n] \in Node /\ Advanced(f, nodes'[n]))
    BY <2>1, <2>2, EventNodeStep
  <2> QED BY <2>3 DEF f
<1>2. nodes' = [n \in Consumers |-> nodes'[n]]
  BY DEF WriteEvent
<1> QED BY <1>1, <1>2 DEF NodesAdvance, TypeOK

\* What a fact's query leaves on the nodes it matches.
LEMMA WriteFactOn ==
  ASSUME TypeOK, NEW c \in Consumers, WriteFact(c), NEW n \in Consumers
  PROVE  LET f == Found(nodes, NewNode, n) IN
         /\ n \notin matched[c]["Instruction"] => nodes'[n] = nodes[n]
         /\ n \in matched[c]["Instruction"] =>
              /\ nodes'[n] \in Node
              /\ Advanced(f, nodes'[n])
              /\ msg[c].ver \in nodes'[n].has
              /\ nodes'[n].current \in {f.current, msg[c].ver}
<1> DEFINE m == msg[c]
           touched == matched[c]["Instruction"]
           kept == KeptRows(m, touched)
           f == Found(nodes, NewNode, n)
           k == n \in kept
<1>1. m \in Message /\ f \in Node
  BY HeldMessage, FoundNode DEF WriteFact
<1>2. nodes'[n] = IF n \in touched THEN FactVersion(f, m, k) ELSE nodes[n]
  BY DEF WriteFact
<1>3. n \in touched => (k \in BOOLEAN /\ (k <=> m.ver >= f.current))
  BY DEF KeptRows
<1> HIDE DEF m, f, k
<1>4. n \in touched =>
        /\ nodes'[n] \in Node /\ Advanced(f, nodes'[n]) /\ m.ver \in nodes'[n].has
        /\ nodes'[n].current \in {f.current, m.ver}
  BY <1>1, <1>2, <1>3, FactVersionNode
<1> QED BY <1>2, <1>4 DEF m, f

LEMMA WriteFactNodes ==
  ASSUME TypeOK, NEW c \in Consumers, WriteFact(c)
  PROVE  NodesAdvance /\ nodes' \in [Consumers -> Node \cup {NoNode}]
<1>1. NodesAdvance
  BY WriteFactOn DEF NodesAdvance
<1>2. nodes' = [n \in Consumers |-> nodes'[n]]
  BY DEF WriteFact
<1> QED BY <1>1, <1>2 DEF NodesAdvance, TypeOK

LEMMA WritePayFactNodes ==
  ASSUME TypeOK, NEW c \in Consumers, WritePayFact(c)
  PROVE  /\ NodesAdvance /\ nodes' \in [Consumers -> Node \cup {NoNode}]
         /\ \A n \in Consumers : nodes'[n] = nodes[n]
                                 \/ nodes'[n].current = Found(nodes, NewNode, n).current
<1>1. nodes' = [n \in Consumers |->
        IF n \notin matched[c]["Instruction"] THEN nodes[n] ELSE
          [Found(nodes, NewNode, n) EXCEPT !.paid = TRUE]]
  BY DEF WritePayFact
<1>2. ASSUME NEW f \in Node
      PROVE  LET g == [f EXCEPT !.paid = TRUE] IN
             g \in Node /\ Advanced(f, g) /\ g.current = f.current
  <2> DEFINE g == [f EXCEPT !.paid = TRUE]
  <2>1. f.current \in 0..MaxVersion
    BY DEF Node
  <2>2. g \in Node
    BY DEF Node
  <2>3. g.current = f.current /\ g.has = f.has /\ g.targets = f.targets
    BY DEF Node
  <2> HIDE DEF g
  <2>4. Advanced(f, g)
    BY <2>1, <2>3, IndexerAssumption DEF Advanced, Newest
  <2> QED BY <2>2, <2>3, <2>4 DEF g
<1>3. \A n \in Consumers :
        \/ nodes'[n] = nodes[n]
        \/ /\ nodes'[n] \in Node /\ Advanced(Found(nodes, NewNode, n), nodes'[n])
           /\ nodes'[n].current = Found(nodes, NewNode, n).current
  BY <1>1, <1>2, FoundNode
<1>4. nodes' = [n \in Consumers |-> nodes'[n]]
  BY <1>1
<1> QED BY <1>3, <1>4 DEF NodesAdvance, TypeOK

\* A Payment node after a write: it has lost no edge, and once it has had fields it has them.
PayAdvanced(f, g) ==
  /\ f.targets \subseteq g.targets /\ f.signed \subseteq g.signed
  /\ f.fact # 0 => g.fact # 0

LEMMA PayFieldsNode ==
  ASSUME NEW f \in Pay, NEW m \in Message, NEW g, g = PaymentFields(f, m)
  PROVE  /\ g \in Pay /\ PayAdvanced(f, g)
         /\ g.fact # 0 /\ SnapshotEdges(m) \subseteq g.signed
<1> DEFINE signed == f.signed \cup SnapshotEdges(m)
<1>1. g = [f EXCEPT !.ver = m.ver, !.fact = m.ver, !.signed = signed]
  BY DEF PaymentFields
<1>2. signed \subseteq {"CREATED", "APPROVED", "REJECTED"} /\ m.ver \in 0..MaxVersion /\ m.ver # 0
  BY EdgesType, IndexerAssumption DEF Pay, Message, Versions
<1> HIDE DEF signed
<1>3. g \in Pay /\ g.targets = f.targets /\ g.signed = signed /\ g.fact = m.ver
  BY <1>1, <1>2 DEF Pay
<1> QED BY <1>2, <1>3 DEF signed, PayAdvanced

LEMMA PayEventNode ==
  ASSUME NEW f \in Pay, NEW m \in Message,
         NEW g, g = [f EXCEPT !.ver = m.ver, !.targets = f.targets \cup {m.id}]
  PROVE  g \in Pay /\ PayAdvanced(f, g) /\ m.id \in g.targets
<1> DEFINE targets == f.targets \cup {m.id}
<1>1. g = [f EXCEPT !.ver = m.ver, !.targets = targets]
  OBVIOUS
<1>2. targets \subseteq Ids /\ m.ver \in 0..MaxVersion
  BY IndexerAssumption DEF Pay, Message, Versions
<1> HIDE DEF targets
<1>3. g \in Pay /\ g.targets = targets /\ g.signed = f.signed /\ g.fact = f.fact
  BY <1>1, <1>2 DEF Pay
<1> QED BY <1>3 DEF PayAdvanced, targets

LEMMA PaySignedNode ==
  ASSUME NEW f \in Pay, NEW m \in Message, NEW missed,
         NEW g, g = [f EXCEPT !.signed = f.signed \cup (SnapshotEdges(m) \ missed)]
  PROVE  g \in Pay /\ PayAdvanced(f, g)
<1> DEFINE signed == f.signed \cup (SnapshotEdges(m) \ missed)
<1>1. g = [f EXCEPT !.signed = signed]
  OBVIOUS
<1>2. signed \subseteq {"CREATED", "APPROVED", "REJECTED"} /\ f.signed \subseteq signed
  BY EdgesType DEF Pay
<1> HIDE DEF signed
<1>3. g \in Pay /\ g.targets = f.targets /\ g.signed = signed /\ g.fact = f.fact
  BY <1>1, <1>2 DEF Pay
<1> QED BY <1>2, <1>3 DEF PayAdvanced

\* Payment nodes keep their type, lose nothing and do not vanish.
LEMMA WritePays ==
  ASSUME TypeOK, NEW c \in Consumers, WritePayEvent(c) \/ WritePayFact(c)
  PROVE  /\ pays' \in [Consumers -> Pay \cup {NoNode}]
         /\ \A n \in Consumers : pays[n] # NoNode =>
              pays'[n] # NoNode /\ (pays'[n] = pays[n] \/ PayAdvanced(pays[n], pays'[n]))
<1>1. msg[c] \in Message
  BY HeldMessage DEF WritePayEvent, WritePayFact
<1>2. ASSUME NEW n \in Consumers
      PROVE  \/ pays'[n] = pays[n]
             \/ pays'[n] \in Pay /\ PayAdvanced(Found(pays, NewPay, n), pays'[n])
  <2> DEFINE f == Found(pays, NewPay, n)
  <2>1. f \in Pay
    BY FoundNode
  <2>2. \/ pays'[n] = pays[n]
        \/ pays'[n] = PaymentFields(f, msg[c])
        \/ pays'[n] = [f EXCEPT !.ver = msg[c].ver, !.targets = f.targets \cup {msg[c].id}]
        \/ \E missed \in Missed :
             pays'[n] = [f EXCEPT !.signed = f.signed \cup (SnapshotEdges(msg[c]) \ missed)]
    <3>1. CASE WritePayEvent(c)
      BY <3>1 DEF WritePayEvent
    <3>2. CASE WritePayFact(c)
      <4>1. PICK missed \in Missed :
              pays' = [x \in Consumers |->
                IF x \in matched[c]["Payment"]
                  THEN PaymentFields(Found(pays, NewPay, x), msg[c])
                ELSE IF x \in Present(pays)
                  THEN [pays[x] EXCEPT
                          !.signed = pays[x].signed \cup (SnapshotEdges(msg[c]) \ missed)]
                  ELSE NoNode]
        BY <3>2 DEF WritePayFact
      <4>2. n \in Present(pays) => f = pays[n]
        BY DEF Present, Found
      <4>3. n \notin Present(pays) => pays[n] = NoNode
        BY DEF Present
      <4> QED BY <4>1, <4>2, <4>3
    <3> QED BY <3>1, <3>2
  <2> HIDE DEF f
  <2>3. pays'[n] = pays[n] \/ (pays'[n] \in Pay /\ PayAdvanced(f, pays'[n]))
    BY <1>1, <2>1, <2>2, PayFieldsNode, PayEventNode, PaySignedNode
  <2> QED BY <2>3 DEF f
<1>3. pays' = [n \in Consumers |-> pays'[n]]
  BY DEF WritePayEvent, WritePayFact
<1>4. pays' \in [Consumers -> Pay \cup {NoNode}]
  BY <1>2, <1>3 DEF TypeOK
<1>5. ASSUME NEW n \in Consumers, pays[n] # NoNode
      PROVE  pays'[n] # NoNode /\ (pays'[n] = pays[n] \/ PayAdvanced(pays[n], pays'[n]))
  BY <1>2, <1>5, NullAssumption DEF Found
<1> QED BY <1>4, <1>5

LEMMA WriteType ==
  ASSUME TypeOK, NEW c \in Consumers, Write(c)
  PROVE  TypeOK'
<1>1. msg[c] \in Message /\ msg[c].ver \in Versions /\ msg[c].id \in Ids
  BY HeldMessage DEF Write, WriteEvent, WriteFact, WritePayEvent, WritePayFact, Message
<1>2. CASE WriteEvent(c)
  <2>1. versions' \in [Versions -> SUBSET {"events", "facts"}]
    BY <1>1, <1>2 DEF WriteEvent, TypeOK
  <2>2. SnapshotEdges(msg[c]) \cup ActorEdge(msg[c])
          \subseteq {"CREATED", "APPROVED", "REJECTED", "SUBMITTED", "MUTATED"}
    BY <1>1, EdgesType
  <2>3. edges' \in [Versions -> SUBSET {"CREATED", "APPROVED", "REJECTED", "SUBMITTED", "MUTATED"}]
    BY <1>1, <1>2, <2>2 DEF WriteEvent, TypeOK
  <2>4. recorded' \subseteq Ids
    BY <1>1, <1>2 DEF WriteEvent, TypeOK
  <2> QED BY <1>2, <2>1, <2>3, <2>4, WriteEventNodes, WroteType DEF WriteEvent, TypeOK
<1>3. CASE WriteFact(c)
  <2>1. versions' \in [Versions -> SUBSET {"events", "facts"}]
    BY <1>1, <1>3 DEF WriteFact, TypeOK
  <2>2. \A kept : FactEdges(msg[c], kept)
          \subseteq {"CREATED", "APPROVED", "REJECTED", "SUBMITTED", "MUTATED"}
    BY <1>1, EdgesType
  <2>3. edges' \in [Versions -> SUBSET {"CREATED", "APPROVED", "REJECTED", "SUBMITTED", "MUTATED"}]
    BY <1>1, <1>3, <2>2 DEF WriteFact, TypeOK
  <2> QED BY <1>3, <2>1, <2>3, WriteFactNodes, WroteType DEF WriteFact, TypeOK
<1>4. CASE WritePayEvent(c)
  <2>1. recorded' \subseteq Ids
    BY <1>1, <1>4 DEF WritePayEvent, TypeOK
  <2> QED BY <1>4, <2>1, WritePays, WroteType DEF WritePayEvent, TypeOK
<1>5. CASE WritePayFact(c)
  BY <1>5, WritePays, WritePayFactNodes, WroteType DEF WritePayFact, TypeOK
<1> QED BY <1>2, <1>3, <1>4, <1>5 DEF Write

-----------------------------------------------------------------------------
(* Qdrant, and every step.                                                 *)

LEMMA PayloadType ==
  ASSUME TypeOK, NEW m \in Message
  PROVE  StatePayload(m) \in Point /\ Patched(m) \in Point \cup {NoPoint}
<1>1. m.ver \in Versions /\ m.act \in Acts /\ m.id \in Ids
  BY DEF Message
<1>2. /\ m.approver \/ (m.act # "APPROVE" /\ state # NoPoint /\ state.approver) \in BOOLEAN
      /\ m.rejector \/ (m.act # "REJECT" /\ state # NoPoint /\ state.rejector) \in BOOLEAN
  OBVIOUS
<1>3. StatePayload(m) \in Point
  BY <1>1, <1>2 DEF StatePayload, Point
<1>4. Patched(m) \in Point \cup {NoPoint}
  BY <1>1 DEF Patched, TypeOK, Point
<1> QED BY <1>3, <1>4

LEMMA StoreType ==
  ASSUME TypeOK, NEW c \in Consumers, Store(c)
  PROVE  TypeOK'
<1>1. Indexed(c) /\ msg[c] \in Message
  BY HeldMessage DEF Store, StoreEvent, StoreFact, StorePayEvent, StorePayFact, Indexed
<1>2. UNCHANGED <<log, next, committed, msg, attempt, matched, nodes, pays, versions, edges,
                  recorded, skipped, faults>>
  BY <1>1 DEF Indexed, broker, graph
<1>3. /\ step' \in [Consumers -> {"idle", "write", "open", "merged", "embed", "commit"}]
      /\ \A u \in Consumers : (msg'[u] = NoMessage) <=> (step'[u] = "idle")
  BY <1>1, <1>2 DEF Indexed, Goto, TypeOK
<1>4. msg[c].id \in Ids /\ msg[c].ver \in 0..MaxVersion
  BY <1>1, IndexerAssumption DEF Message, Versions
<1>5. points' \subseteq Ids /\ state' \in Point \cup {NoPoint} /\ payState' \in 0..MaxVersion
  BY <1>1, <1>4, PayloadType
  DEF Store, StoreEvent, StoreFact, StorePayEvent, StorePayFact, TypeOK
<1> QED BY <1>2, <1>3, <1>5 DEF TypeOK

LEMMA NextType == TypeOK /\ [Next]_vars => TypeOK'
<1> SUFFICES ASSUME TypeOK, [Next]_vars PROVE TypeOK'
  OBVIOUS
<1>1. ASSUME NEW c \in Consumers, Work(c) \/ Retry(c) \/ Skip(c)
      PROVE  TypeOK'
  BY <1>1, DeliverType, OpenType, WriteType, StoreType, CommitType, RetryType, SkipType DEF Work
<1>2. CASE Restart
  BY <1>2, RestartType
<1>3. CASE UNCHANGED vars
  BY <1>3 DEF vars, broker, worker, graph, vector, TypeOK
<1> QED BY <1>1, <1>2, <1>3 DEF Next

\* Every reachable state of the indexer is well typed; in particular no message is tried
\* more than MaxAttempts times (the retry loop of the consumers).
THEOREM IndexerTypeCorrect == Spec => []TypeOK
<1> QED BY InitType, NextType, PTL DEF Spec

-----------------------------------------------------------------------------
(* What an open transaction has matched.                                   *)

\* The MERGE has a node to go on with, and an event's second statement finds those of the
\* first again.
MatchedOf(c) ==
  step[c] \in {"open", "merged"} =>
    /\ c \in {"events", "facts"} => matched[c]["Instruction"] # {}
    /\ c \in {"payEvents", "payFacts"} => matched[c]["Payment"] # {}
    /\ c = "events" /\ step[c] = "merged" =>
         matched[c]["Instruction"] \subseteq matched[c]["HAS_VERSION"]

MatchedInv == \A c \in Consumers : MatchedOf(c)

LEMMA OpenMatched ==
  ASSUME TypeOK, MatchedInv, NEW c \in Consumers, Open(c)
  PROVE  MatchedOf(c)'
<1>m. {"Instruction", "Payment", "HAS_VERSION"} \subseteq Merges
  BY DEF Merges
<1>1. ASSUME NEW l \in Merges, Merge(c, l)
      PROVE  matched'[c][l] # {} /\ \A k \in Merges \ {l} : matched'[c][k] = matched[c][k]
  <2> DEFINE new == IF Present(Label(l)) = {} THEN {c} ELSE Present(Label(l))
  <2>1. new # {}
    OBVIOUS
  <2>2. matched' = [matched EXCEPT ![c][l] = new]
    BY <1>1 DEF Merge
  <2> HIDE DEF new
  <2> QED BY <1>1, <2>1, <2>2 DEF TypeOK
<1>2. CASE Begin(c)
  <2>1. step'[c] = "open"
    BY <1>2 DEF Begin, Within, Goto, TypeOK
  <2> QED BY <1>m, <1>1, <1>2, <2>1 DEF Begin, MatchedOf, Consumers
<1>3. CASE MergeVersion(c)
  <2> DEFINE new == matched[c]["Instruction"] \cup Present(nodes)
  <2>1. c = "events" /\ step[c] = "open" /\ matched[c]["Instruction"] # {}
    BY <1>3 DEF MergeVersion, MatchedInv, MatchedOf
  <2>2. matched' = [matched EXCEPT ![c]["HAS_VERSION"] = new]
    BY <1>3 DEF MergeVersion
  <2>3. matched[c]["Instruction"] \subseteq new
    OBVIOUS
  <2> HIDE DEF new
  <2>4. matched'[c]["HAS_VERSION"] = new /\ matched'[c]["Instruction"] = matched[c]["Instruction"]
    BY <1>m, <2>2 DEF TypeOK
  <2> QED BY <2>1, <2>3, <2>4 DEF MatchedOf
<1>4. CASE MergeInstruction(c)
  <2>1. c = "payFacts" /\ step[c] = "open" /\ matched[c]["Payment"] # {}
    BY <1>4 DEF MergeInstruction, MatchedInv, MatchedOf
  <2>2. matched'[c]["Payment"] = matched[c]["Payment"]
    BY <1>m, <1>1, <1>4 DEF MergeInstruction
  <2> QED BY <2>1, <2>2 DEF MatchedOf
<1> QED BY <1>2, <1>3, <1>4 DEF Open

LEMMA NextMatched == TypeOK /\ MatchedInv /\ [Next]_vars => MatchedInv'
<1> SUFFICES ASSUME TypeOK, MatchedInv, [Next]_vars, NEW u \in Consumers
             PROVE  MatchedOf(u)'
  BY DEF MatchedInv
<1>1. ASSUME step'[u] = step[u], matched'[u] = matched[u]
      PROVE  MatchedOf(u)'
  BY <1>1 DEF MatchedInv, MatchedOf
<1>2. ASSUME step'[u] \notin {"open", "merged"}
      PROVE  MatchedOf(u)'
  BY <1>2 DEF MatchedOf
<1>3. ASSUME NEW c \in Consumers, Work(c) \/ Retry(c) \/ Skip(c)
      PROVE  MatchedOf(u)'
  <2>1. CASE Open(c)
    <3>1. CASE u = c
      BY <2>1, <3>1, OpenMatched
    <3>2. CASE u # c
      BY <1>1, <2>1, <3>2
      DEF Open, Begin, MergeVersion, MergeInstruction, Merge, Within, Goto, TypeOK
    <3> QED BY <3>1, <3>2
  <2>2. CASE Write(c)
    BY <1>1, <1>2, <2>2
    DEF Write, WriteEvent, WriteFact, WritePayEvent, WritePayFact, Wrote, Goto, TypeOK
  <2>3. CASE Store(c)
    BY <1>1, <1>2, <2>3
    DEF Store, StoreEvent, StoreFact, StorePayEvent, StorePayFact, Indexed, Goto, TypeOK
  <2>4. CASE Commit(c) \/ Skip(c)
    BY <1>1, <1>2, <2>4 DEF Commit, Skip, Done, Goto, TypeOK
  <2>5. CASE Deliver(c) \/ Retry(c)
    BY <1>1, <1>2, <2>5 DEF Deliver, Retry, Goto, TypeOK
  <2> QED BY <1>3, <2>1, <2>2, <2>3, <2>4, <2>5 DEF Work
<1>4. CASE Restart
  BY <1>2, <1>4 DEF Restart
<1>5. CASE UNCHANGED vars
  BY <1>1, <1>5 DEF vars, worker
<1> QED BY <1>3, <1>4, <1>5 DEF Next

LEMMA MatchedInvariant == Spec => []MatchedInv
<1>1. Init => MatchedInv
  BY DEF Init, MatchedInv, MatchedOf
<1> QED BY <1>1, NextMatched, IndexerTypeCorrect, PTL DEF Spec

-----------------------------------------------------------------------------
(* CURRENT.                                                                *)

\* No step loses the newest version of a node or moves CURRENT back.
LEMMA NextNodes ==
  ASSUME TypeOK, [Next]_vars
  PROVE  \A n \in Consumers :
           \/ nodes'[n] \in {nodes[n], NoNode}
           \/ nodes'[n] \in Node /\ Advanced(Found(nodes, NewNode, n), nodes'[n])
<1>1. ASSUME NEW c \in Consumers, Write(c)
      PROVE  NodesAdvance
  BY <1>1, WriteEventNodes, WriteFactNodes, WritePayFactNodes DEF Write, WritePayEvent, NodesAdvance
<1>2. ASSUME NEW c \in Consumers,
             Deliver(c) \/ Open(c) \/ Store(c) \/ Commit(c) \/ Retry(c) \/ Skip(c)
      PROVE  UNCHANGED nodes
  BY <1>2 DEF Deliver, Open, Begin, MergeVersion, MergeInstruction, Within, Store, StoreEvent,
              StoreFact, StorePayEvent, StorePayFact, Indexed,
              Commit, Done, Retry, Skip, graph
<1>3. CASE Restart
  <2>1. nodes \in [Consumers -> Node \cup {NoNode}] /\ nodes' \in OneOf(nodes)
    BY <1>3 DEF Restart, TypeOK
  <2> QED BY <2>1, Repaired
<1>4. CASE UNCHANGED vars
  BY <1>4 DEF vars, graph
<1> QED BY <1>1, <1>2, <1>3, <1>4 DEF Next, Work, NodesAdvance

LEMMA NewNodeNewest == Newest(NewNode)
BY DEF Newest, NewNode

\* Before the first error or restart there is none.
LEMMA FirstFault ==
  ASSUME TypeOK, [Next]_vars, faults' = 0
  PROVE  faults = 0 /\ ~Restart /\ \A d \in Consumers : ~Retry(d) /\ ~Skip(d)
<1>1. faults' = faults \/ faults' = faults + 1
  <2>1. ASSUME NEW d \in Consumers, Write(d)
        PROVE  faults' = faults
    BY <2>1 DEF Write, WriteEvent, WriteFact, WritePayEvent, WritePayFact, Wrote
  <2>2. ASSUME NEW d \in Consumers, Deliver(d) \/ Open(d) \/ Store(d) \/ Commit(d)
        PROVE  faults' = faults
    BY <2>2 DEF Deliver, Open, Begin, MergeVersion, MergeInstruction, Within,
                Store, StoreEvent, StoreFact, StorePayEvent, StorePayFact, Indexed, Commit
  <2>3. ASSUME NEW d \in Consumers, Retry(d) \/ Skip(d)
        PROVE  faults' = faults + 1
    BY <2>3 DEF Retry, Skip
  <2>4. Restart => faults' = faults + 1
    BY DEF Restart
  <2>5. UNCHANGED vars => faults' = faults
    BY DEF vars
  <2> QED BY <2>1, <2>2, <2>3, <2>4, <2>5 DEF Next, Work
<1>2. faults \in Nat
  BY IndexerAssumption DEF TypeOK
<1>3. faults = 0
  BY <1>1, <1>2
<1> QED BY <1>3 DEF Restart, Retry, Skip

\* Without errors and restarts nothing in the graph is removed.
LEMMA GraphGrows ==
  ASSUME TypeOK, [Next]_vars, faults' = 0
  PROVE  /\ \A n \in Present(nodes) : /\ n \in Present(nodes)'
                                      /\ nodes[n].has \subseteq nodes'[n].has
                                      /\ nodes[n].targets \subseteq nodes'[n].targets
         /\ \A n \in Present(pays) : /\ n \in Present(pays)'
                                     /\ pays'[n] = pays[n] \/ PayAdvanced(pays[n], pays'[n])
         /\ \A v \in Versions : edges[v] \subseteq edges'[v]
<1> DEFINE NodesGrow == \A n \in Present(nodes) : /\ n \in Present(nodes)'
                                                 /\ nodes[n].has \subseteq nodes'[n].has
                                                 /\ nodes[n].targets \subseteq nodes'[n].targets
           PaysGrow == \A n \in Present(pays) :
                         /\ n \in Present(pays)'
                         /\ pays'[n] = pays[n] \/ PayAdvanced(pays[n], pays'[n])
           EdgesGrow == \A v \in Versions : edges[v] \subseteq edges'[v]
<1>1. ASSUME NEW c \in Consumers, Write(c)
      PROVE  NodesGrow /\ PaysGrow /\ EdgesGrow
  <2>1. NodesAdvance
    BY <1>1, WriteEventNodes, WriteFactNodes, WritePayFactNodes
    DEF Write, WritePayEvent, NodesAdvance
  <2>2. NodesGrow
    BY <2>1, NullAssumption DEF NodesAdvance, Advanced, Found, Present
  <2>3. PaysGrow
    BY <1>1, WritePays DEF Write, WriteEvent, WriteFact, Present
  <2>4. msg[c] \in Message
    BY <1>1, HeldMessage DEF Write, WriteEvent, WriteFact, WritePayEvent, WritePayFact
  <2>5. edges' = edges \/ \E more :
          edges' = [edges EXCEPT ![msg[c].ver] = edges[msg[c].ver] \cup more]
    <3>1. ASSUME WriteEvent(c)
          PROVE  edges' = [edges EXCEPT ![msg[c].ver] =
                             edges[msg[c].ver] \cup (SnapshotEdges(msg[c]) \cup ActorEdge(msg[c]))]
      BY <3>1 DEF WriteEvent
    <3>2. ASSUME WriteFact(c)
          PROVE  \E more : edges' = [edges EXCEPT ![msg[c].ver] = edges[msg[c].ver] \cup more]
      BY <3>2 DEF WriteFact
    <3>3. WritePayEvent(c) \/ WritePayFact(c) => edges' = edges
      BY DEF WritePayEvent, WritePayFact
    <3> QED BY <1>1, <3>1, <3>2, <3>3 DEF Write
  <2>6. EdgesGrow
    <3> TAKE v \in Versions
    <3>1. edges = [w \in Versions |-> edges[w]] /\ msg[c].ver \in Versions
      BY <2>4 DEF TypeOK, Message
    <3>2. CASE edges' = edges
      BY <3>2
    <3>3. ASSUME NEW more, edges' = [edges EXCEPT ![msg[c].ver] = edges[msg[c].ver] \cup more]
          PROVE  edges[v] \subseteq edges'[v]
      BY <3>1, <3>3
    <3> QED BY <2>5, <3>2, <3>3
  <2> QED BY <2>2, <2>3, <2>6
<1>2. ASSUME NEW c \in Consumers, Deliver(c) \/ Open(c) \/ Store(c) \/ Commit(c)
      PROVE  UNCHANGED <<nodes, pays, edges>>
  BY <1>2 DEF Deliver, Open, Begin, MergeVersion, MergeInstruction, Within,
              Store, StoreEvent, StoreFact, StorePayEvent, StorePayFact, Indexed,
              Commit, Done, graph
<1>3. UNCHANGED vars => UNCHANGED <<nodes, pays, edges>>
  BY DEF vars, graph
<1>4. CASE UNCHANGED <<nodes, pays, edges>>
  BY <1>4 DEF Present
<1> QED BY <1>1, <1>2, <1>3, <1>4, FirstFault DEF Next, Work

\* The version that a write makes CURRENT hangs on some node of the instruction afterwards.
LEMMA WriteHangs ==
  ASSUME TypeOK, MatchedInv, NEW c \in Consumers, Write(c), NEW n \in Consumers,
         nodes'[n] # NoNode
  PROVE  \/ nodes'[n].current = Found(nodes, NewNode, n).current
         \/ \E d \in Present(nodes)' : nodes'[n].current \in nodes'[d].has
<1> DEFINE f == Found(nodes, NewNode, n)
           m == msg[c]
<1>1. nodes'[n] = nodes[n] => nodes'[n].current = f.current
  BY DEF Found
<1>2. CASE WriteEvent(c)
  <2>1. matched[c]["Instruction"] # {}
        /\ matched[c]["Instruction"] \subseteq matched[c]["HAS_VERSION"]
    BY <1>2 DEF WriteEvent, MatchedInv, MatchedOf
  <2>2. PICK d \in Consumers : d \in matched[c]["HAS_VERSION"]
    BY <2>1, MatchedIn
  <2>3. nodes'[d] \in Node /\ m.ver \in nodes'[d].has
    <3> DEFINE e == Found(nodes, NewNode, d)
               merged == d \in matched[c]["HAS_VERSION"]
               target == d \in matched[c]["Instruction"]
    <3>1. /\ nodes'[d] = EventNode(e, m, merged, target)
          /\ e \in Node /\ m \in Message /\ merged \in BOOLEAN /\ target \in BOOLEAN
      BY <1>2, <2>2, WriteEventOn
    <3>2. merged
      BY <2>2
    <3> HIDE DEF e, merged, target, m
    <3>3. nodes'[d] \in Node /\ (merged => m.ver \in nodes'[d].has)
      BY <3>1, EventNodeStep
    <3> QED BY <3>2, <3>3
  <2>4. nodes'[n].current \in {f.current, m.ver}
    <3> DEFINE merged == n \in matched[c]["HAS_VERSION"]
               target == n \in matched[c]["Instruction"]
    <3>1. /\ nodes'[n] = nodes[n] \/ nodes'[n] = EventNode(f, m, merged, target)
          /\ f \in Node /\ m \in Message /\ merged \in BOOLEAN /\ target \in BOOLEAN
      BY <1>2, WriteEventOn
    <3> HIDE DEF f, merged, target, m
    <3> QED BY <1>1, <3>1, EventNodeStep
  <2> QED BY <2>3, <2>4, NullAssumption DEF Present
<1>3. CASE WriteFact(c)
  <2>1. \/ nodes'[n] = nodes[n]
        \/ m.ver \in nodes'[n].has /\ nodes'[n].current \in {f.current, m.ver}
    BY <1>3, WriteFactOn
  <2> HIDE DEF f, m
  <2>2. n \in Present(nodes)'
    BY DEF Present
  <2> QED BY <1>1, <2>1, <2>2 DEF f
<1>4. CASE WritePayEvent(c) \/ WritePayFact(c)
  BY <1>1, <1>4, WritePayFactNodes DEF WritePayEvent
<1> QED BY <1>2, <1>3, <1>4 DEF Write

\* Whatever the partitions, the two pipelines, redelivery and duplicate nodes do, CURRENT
\* is not older than any version its node has (neo4j_client.py, the guard of CURRENT), and
\* before a restart the version it points to hangs on some node of the instruction.
THEOREM CurrentStaysNewest == Spec => []CurrentIsNewest
<1>1. Init => CurrentIsNewest
  BY DEF Init, CurrentIsNewest, Present
<1>2. TypeOK /\ MatchedInv /\ CurrentIsNewest /\ [Next]_vars => CurrentIsNewest'
  <2> SUFFICES ASSUME TypeOK, MatchedInv, CurrentIsNewest, [Next]_vars,
                      NEW n \in Consumers, nodes'[n] # NoNode
               PROVE  /\ Newest(nodes'[n])
                      /\ faults' = 0 /\ nodes'[n].current # 0 =>
                           \E d \in Present(nodes)' : nodes'[n].current \in nodes'[d].has
    BY DEF CurrentIsNewest, Present, Newest
  <2>1. Newest(nodes'[n])
    <3>1. Newest(Found(nodes, NewNode, n))
      BY NewNodeNewest DEF CurrentIsNewest, Present, Found, Newest
    <3>2. nodes'[n] = nodes[n] \/ Advanced(Found(nodes, NewNode, n), nodes'[n])
      BY NextNodes
    <3> QED BY <3>1, <3>2 DEF Found, Advanced
  <2>2. ASSUME faults' = 0, nodes'[n].current # 0
        PROVE  \E d \in Present(nodes)' : nodes'[n].current \in nodes'[d].has
    <3>1. ASSUME nodes'[n].current = Found(nodes, NewNode, n).current
          PROVE  \E d \in Present(nodes)' : nodes'[n].current \in nodes'[d].has
      <4>1. nodes[n] # NoNode /\ nodes'[n].current = nodes[n].current
        BY <2>2, <3>1 DEF Found, NewNode
      <4>2. PICK d \in Present(nodes) : nodes[n].current \in nodes[d].has
        BY <2>2, <4>1, FirstFault DEF CurrentIsNewest, Present
      <4> QED BY <2>2, <4>1, <4>2, GraphGrows
    <3>2. CASE \E c \in Consumers : Write(c)
      BY <3>1, <3>2, WriteHangs
    <3>3. CASE UNCHANGED nodes
      BY <3>1, <3>3 DEF Found
    <3>4. ASSUME NEW c \in Consumers, Deliver(c) \/ Open(c) \/ Store(c) \/ Commit(c)
          PROVE  UNCHANGED nodes
      BY <3>4 DEF Deliver, Open, Begin, MergeVersion, MergeInstruction, Within,
                  Store, StoreEvent, StoreFact, StorePayEvent, StorePayFact, Indexed,
                  Commit, Done, graph
    <3>5. UNCHANGED vars => UNCHANGED nodes
      BY DEF vars, graph
    <3> QED BY <2>2, <3>2, <3>3, <3>4, <3>5, FirstFault DEF Next, Work
  <2> QED BY <2>1, <2>2
<1> QED BY <1>1, <1>2, IndexerTypeCorrect, MatchedInvariant, PTL DEF Spec

\* No step moves the CURRENT of a node back: older facts and events, redelivered ones and
\* the repair at a restart leave it where it is.
THEOREM CurrentNeverGoesBack == Spec => CurrentOnlyAdvances
<1>1. TypeOK /\ [Next]_vars =>
        [\A c \in Consumers : nodes[c] # NoNode /\ nodes'[c] # NoNode
                                => nodes'[c].current >= nodes[c].current]_vars
  <2> SUFFICES ASSUME TypeOK, [Next]_vars, NEW n \in Consumers,
                      nodes[n] # NoNode, nodes'[n] # NoNode
               PROVE  nodes'[n].current >= nodes[n].current
    OBVIOUS
  <2>1. nodes[n] \in Node /\ nodes[n].current \in Int
    BY DEF TypeOK, Node
  <2>2. nodes'[n] = nodes[n] \/ Advanced(nodes[n], nodes'[n])
    BY NextNodes DEF Found
  <2> QED BY <2>1, <2>2 DEF Advanced
<1> QED BY <1>1, IndexerTypeCorrect, PTL DEF Spec, CurrentOnlyAdvances

-----------------------------------------------------------------------------
(* The graph before the vectors.                                           *)

\* A consumer's message has reached the graph.
InGraph(c, m) ==
  /\ c \in {"events", "payEvents"} => m.id \in recorded
  /\ c \in {"events", "facts"} => c \in versions[m.ver]
  /\ c = "payFacts" => Present(pays) # {}

\* ... and Qdrant.
InVector(c, m) ==
  /\ c \in {"events", "payEvents"} => m.id \in points
  /\ c = "facts" => state # NoPoint
  /\ c = "payFacts" => payState # 0

LEMMA AppliedInBoth ==
  ASSUME NEW c \in Consumers, NEW m
  PROVE  Applied(c, m) <=> InGraph(c, m) /\ InVector(c, m)
<1>1. CASE c = "events"
  BY <1>1 DEF Applied, InGraph, InVector
<1>2. CASE c = "facts"
  BY <1>2 DEF Applied, InGraph, InVector
<1>3. CASE c = "payEvents"
  BY <1>3 DEF Applied, InGraph, InVector
<1>4. CASE c = "payFacts"
  BY <1>4 DEF Applied, InGraph, InVector
<1> QED BY <1>1, <1>2, <1>3, <1>4 DEF Consumers

\* What has been indexed or given up stays so.
LEMMA OnlyGrows ==
  ASSUME TypeOK, [Next]_vars
  PROVE  /\ log' = log
         /\ recorded \subseteq recorded' /\ points \subseteq points' /\ skipped \subseteq skipped'
         /\ \A v \in Versions : versions[v] \subseteq versions'[v]
         /\ Present(pays) # {} => Present(pays)' # {}
         /\ state # NoPoint => state' # NoPoint
         /\ payState # 0 => payState' # 0
<1>1. ASSUME NEW c \in Consumers, Write(c)
      PROVE  /\ UNCHANGED <<log, points, skipped, state, payState>>
             /\ recorded \subseteq recorded'
             /\ \A v \in Versions : versions[v] \subseteq versions'[v]
  <2>1. UNCHANGED <<log, points, skipped, state, payState>>
    BY <1>1 DEF Write, WriteEvent, WriteFact, WritePayEvent, WritePayFact, Wrote, broker, vector
  <2>2. recorded \subseteq recorded'
    BY <1>1 DEF Write, WriteEvent, WriteFact, WritePayEvent, WritePayFact
  <2>3. versions' = versions \/ \E p \in Consumers :
          versions' = [versions EXCEPT ![msg[c].ver] = versions[msg[c].ver] \cup {p}]
    BY <1>1 DEF Write, WriteEvent, WriteFact, WritePayEvent, WritePayFact, Consumers
  <2>4. \A v \in Versions : versions[v] \subseteq versions'[v]
    <3> TAKE v \in Versions
    <3>1. versions = [w \in Versions |-> versions[w]]
      BY DEF TypeOK
    <3> QED BY <2>3, <3>1
  <2> QED BY <2>1, <2>2, <2>4
<1>2. ASSUME NEW c \in Consumers, Write(c), NEW n \in Consumers, pays[n] # NoNode
      PROVE  pays'[n] # NoNode
  BY <1>2, WritePays DEF Write, WriteEvent, WriteFact
<1>3. ASSUME NEW c \in Consumers, Store(c)
      PROVE  /\ UNCHANGED <<log, skipped, recorded, versions, pays>>
             /\ points \subseteq points'
             /\ state # NoPoint => state' # NoPoint
             /\ payState # 0 => payState' # 0
  <2>1. Indexed(c) /\ msg[c] \in Message
    BY <1>3, HeldMessage DEF Store, StoreEvent, StoreFact, StorePayEvent, StorePayFact, Indexed
  <2>2. StatePayload(msg[c]) # NoPoint /\ msg[c].ver # 0
    BY <2>1, PayloadType, NullAssumption, IndexerAssumption DEF Message, Versions
  <2>3. state # NoPoint => Patched(msg[c]) # NoPoint
    <3> SUFFICES ASSUME state # NoPoint PROVE Patched(msg[c]) \in Point
      BY NullAssumption
    <3>1. state \in Point /\ msg[c].id \in Ids
      BY <2>1 DEF TypeOK, Message
    <3> QED BY <3>1 DEF Patched, Point
  <2> QED BY <1>3, <2>1, <2>2, <2>3
          DEF Store, StoreEvent, StoreFact, StorePayEvent, StorePayFact, Indexed, broker, graph
<1>4. ASSUME NEW c \in Consumers,
             Deliver(c) \/ Open(c) \/ Commit(c) \/ Retry(c) \/ Skip(c)
      PROVE  /\ UNCHANGED <<log, recorded, versions, pays, points, state, payState>>
             /\ skipped \subseteq skipped'
  BY <1>4 DEF Deliver, Open, Begin, MergeVersion, MergeInstruction, Within, Commit, Done, Retry,
              Skip, broker, graph, vector
<1>5. CASE Restart
  BY <1>5, Repaired DEF Restart, vector, TypeOK
<1>6. CASE UNCHANGED vars
  BY <1>6 DEF vars, broker, graph, vector, Present
<1>7. ASSUME NEW c \in Consumers, Write(c), Present(pays) # {}
      PROVE  Present(pays)' # {}
  BY <1>2, <1>7 DEF Present
<1> QED BY <1>1, <1>3, <1>4, <1>5, <1>6, <1>7 DEF Next, Work, Present

\* How far the message in hand has got.
HandInv ==
  \A c \in Consumers :
    /\ step[c] \in {"embed", "commit"} => InGraph(c, msg[c])
    /\ step[c] = "commit" => InVector(c, msg[c])

VectorInv == HandInv /\ VectorAfterGraph

LEMMA StaysIndexed ==
  ASSUME TypeOK, [Next]_vars, NEW c \in Consumers, NEW m \in Message
  PROVE  (InGraph(c, m) => InGraph(c, m)') /\ (InVector(c, m) => InVector(c, m)')
<1>1. m.ver \in Versions
  BY DEF Message
<1> QED BY <1>1, OnlyGrows DEF InGraph, InVector

\* A write leaves the message in the graph, a store puts it into Qdrant.
LEMMA WriteReaches ==
  ASSUME TypeOK, MatchedInv, NEW c \in Consumers, Write(c)
  PROVE  InGraph(c, msg[c])'
<1>1. msg[c] \in Message /\ msg' = msg /\ msg[c].ver \in Versions
  BY HeldMessage DEF Write, WriteEvent, WriteFact, WritePayEvent, WritePayFact, Wrote, Message
<1>2. CASE WriteEvent(c)
  BY <1>1, <1>2 DEF WriteEvent, InGraph, TypeOK
<1>3. CASE WriteFact(c)
  BY <1>1, <1>3 DEF WriteFact, InGraph, TypeOK
<1>4. CASE WritePayEvent(c)
  BY <1>1, <1>4 DEF WritePayEvent, InGraph
<1>5. CASE WritePayFact(c)
  <2>1. PICK n \in Consumers : n \in matched[c]["Payment"]
    BY <1>5, MatchedIn DEF WritePayFact, MatchedInv, MatchedOf
  <2>2. PaymentFields(Found(pays, NewPay, n), msg[c]) \in Pay
    BY <1>1, FoundNode, PayFieldsNode
  <2>3. pays'[n] \in Pay
    BY <1>5, <2>1, <2>2 DEF WritePayFact
  <2> QED BY <1>5, <2>3, NullAssumption DEF WritePayFact, InGraph, Present
<1> QED BY <1>2, <1>3, <1>4, <1>5 DEF Write

LEMMA StoreReaches ==
  ASSUME TypeOK, NEW c \in Consumers, Store(c)
  PROVE  InVector(c, msg[c])'
<1>1. Indexed(c) /\ msg[c] \in Message /\ msg' = msg
  BY HeldMessage DEF Store, StoreEvent, StoreFact, StorePayEvent, StorePayFact, Indexed
<1>2. StatePayload(msg[c]) # NoPoint /\ msg[c].ver # 0
  BY <1>1, PayloadType, NullAssumption, IndexerAssumption DEF Message, Versions
<1> QED BY <1>1, <1>2 DEF Store, StoreEvent, StoreFact, StorePayEvent, StorePayFact, InVector

LEMMA NextHand ==
  ASSUME TypeOK, MatchedInv, HandInv, [Next]_vars
  PROVE  HandInv'
<1>1. ASSUME NEW c \in Consumers, step'[c] = step[c], msg'[c] = msg[c]
      PROVE  /\ step'[c] \in {"embed", "commit"} => InGraph(c, msg[c])'
             /\ step'[c] = "commit" => InVector(c, msg[c])'
  <2> SUFFICES ASSUME step[c] \in {"embed", "commit"}
               PROVE  InGraph(c, msg[c])' /\ (step[c] = "commit" => InVector(c, msg[c])')
    BY <1>1
  <2>1. msg[c] \in Message
    BY HeldMessage
  <2> QED BY <1>1, <2>1, StaysIndexed DEF HandInv, InGraph, InVector
<1>2. ASSUME NEW c \in Consumers, NEW u \in Consumers, u # c,
             Work(c) \/ Retry(c) \/ Skip(c)
      PROVE  step'[u] = step[u] /\ msg'[u] = msg[u]
  <2>1. CASE Write(c)
    BY <1>2, <2>1 DEF Write, WriteEvent, WriteFact, WritePayEvent, WritePayFact, Wrote, Goto, TypeOK
  <2>2. CASE Store(c)
    BY <1>2, <2>2 DEF Store, StoreEvent, StoreFact, StorePayEvent, StorePayFact, Indexed, Goto,
       TypeOK
  <2>3. CASE Commit(c) \/ Skip(c)
    BY <1>2, <2>3 DEF Commit, Skip, Done, Goto, TypeOK
  <2>4. CASE Deliver(c)
    BY <1>2, <2>4 DEF Deliver, Goto, TypeOK
  <2>5. CASE Open(c) \/ Retry(c)
    BY <1>2, <2>5 DEF Open, Begin, MergeVersion, MergeInstruction, Within, Retry, Goto, TypeOK
  <2> QED BY <1>2, <2>1, <2>2, <2>3, <2>4, <2>5 DEF Work
<1>3. ASSUME NEW c \in Consumers, Write(c)
      PROVE  HandInv'
  <2>1. step'[c] = "embed" /\ InGraph(c, msg[c])'
    BY <1>3, WriteReaches
    DEF Write, WriteEvent, WriteFact, WritePayEvent, WritePayFact, Wrote, Goto, TypeOK
  <2> QED BY <1>1, <1>2, <1>3, <2>1 DEF HandInv, Work
<1>4. ASSUME NEW c \in Consumers, Store(c)
      PROVE  HandInv'
  <2>1. step[c] = "embed" /\ step'[c] = "commit" /\ msg' = msg /\ msg[c] \in Message
    BY <1>4, HeldMessage
    DEF Store, StoreEvent, StoreFact, StorePayEvent, StorePayFact, Indexed, Goto, TypeOK
  <2>2. InGraph(c, msg[c])' /\ InVector(c, msg[c])'
    BY <1>4, <2>1, StaysIndexed, StoreReaches DEF HandInv, InGraph
  <2> QED BY <1>1, <1>2, <1>4, <2>1, <2>2 DEF HandInv, Work
<1>5. ASSUME NEW c \in Consumers, Deliver(c) \/ Open(c) \/ Commit(c) \/ Retry(c) \/ Skip(c)
      PROVE  HandInv'
  <2>1. step'[c] \in {"idle", "write", "open", "merged"}
    BY <1>5 DEF Deliver, Open, Begin, MergeVersion, MergeInstruction, Within, Commit, Retry,
                Skip, Done, Goto, TypeOK
  <2> QED BY <1>1, <1>2, <1>5, <2>1 DEF HandInv, Work
<1>6. CASE Restart
  BY <1>6 DEF Restart, HandInv
<1>7. CASE UNCHANGED vars
  BY <1>1, <1>7 DEF vars, worker, HandInv
<1> QED BY <1>3, <1>4, <1>5, <1>6, <1>7 DEF Next, Work

LEMMA NextVectorAfterGraph ==
  ASSUME TypeOK, VectorInv, [Next]_vars
  PROVE  VectorAfterGraph'
<1>1. state # NoPoint => state \in Point /\ state.ver \in Versions
  BY DEF TypeOK, Point
<1>2. CASE UNCHANGED vector
  BY <1>1, <1>2, OnlyGrows DEF VectorInv, VectorAfterGraph, vector
<1>3. ASSUME NEW c \in Consumers, Store(c)
      PROVE  VectorAfterGraph'
  <2>1. msg[c] \in Message /\ InGraph(c, msg[c]) /\ UNCHANGED <<pays, versions, recorded>>
    BY <1>3, HeldMessage
    DEF Store, StoreEvent, StoreFact, StorePayEvent, StorePayFact, Indexed, graph,
        VectorInv, HandInv
  <2>2. CASE StoreEvent(c)
    <3>1. state' # NoPoint => state # NoPoint /\ state'.ver = state.ver
      BY <1>1, <2>2 DEF StoreEvent, Patched, Point
    <3> QED BY <2>1, <2>2, <3>1 DEF StoreEvent, InGraph, VectorInv, VectorAfterGraph, Present
  <2>3. CASE StoreFact(c)
    <3>1. state'.ver = msg[c].ver
      BY <2>3 DEF StoreFact, StatePayload
    <3> QED BY <2>1, <2>3, <3>1 DEF StoreFact, InGraph, VectorInv, VectorAfterGraph, Present
  <2>4. CASE StorePayEvent(c)
    BY <2>1, <2>4 DEF StorePayEvent, InGraph, VectorInv, VectorAfterGraph, Present
  <2>5. CASE StorePayFact(c)
    BY <2>1, <2>5 DEF StorePayFact, InGraph, VectorInv, VectorAfterGraph, Present
  <2> QED BY <1>3, <2>2, <2>3, <2>4, <2>5 DEF Store
<1>4. [Next]_vars /\ ~(\E c \in Consumers : Store(c)) => UNCHANGED vector
  BY DEF Next, Work, Write, WriteEvent, WriteFact, WritePayEvent, WritePayFact, Wrote,
         Deliver, Open, Begin, MergeVersion, MergeInstruction, Within, Commit, Done, Retry, Skip,
         Restart, vars, vector
<1> QED BY <1>2, <1>3, <1>4

LEMMA VectorInvariant == Spec => []VectorInv
<1>1. Init => VectorInv
  BY DEF Init, VectorInv, HandInv, VectorAfterGraph
<1>2. TypeOK /\ MatchedInv /\ VectorInv /\ [Next]_vars => VectorInv'
  BY NextHand, NextVectorAfterGraph DEF VectorInv
<1> QED BY <1>1, <1>2, IndexerTypeCorrect, MatchedInvariant, PTL DEF Spec

\* What Qdrant shows is in the graph, through errors, retries and restarts (the order of
\* the two writes in the pipelines, which no repair at a restart undoes).
THEOREM VectorsFollowGraph == Spec => []VectorAfterGraph
<1>1. VectorInv => VectorAfterGraph
  BY DEF VectorInv
<1> QED BY <1>1, VectorInvariant, PTL

-----------------------------------------------------------------------------
(* What is committed.                                                      *)

Accounted(c, m) == m.id \in skipped \/ (InGraph(c, m) /\ InVector(c, m))

\* Positions and offsets point into the log; what has been delivered is accounted for or
\* in hand, and what has been committed is accounted for.
AccountOn(c, p) ==
  /\ committed[c][p] <= next[c][p] /\ next[c][p] <= Len(log[c][p])
  /\ \A i \in 1..next[c][p] : Accounted(c, log[c][p][i]) \/ log[c][p][i] = msg[c]
  /\ \A i \in 1..committed[c][p] : Accounted(c, log[c][p][i])

AccountOf(c) == \A p \in Partitions : AccountOn(c, p)

AccountInv == \A c \in Consumers : AccountOf(c)

LEMMA LogType ==
  ASSUME TypeOK, NEW c \in Consumers, NEW p \in Partitions
  PROVE  /\ log[c][p] \in Seq(Message) /\ Len(log[c][p]) \in Nat
         /\ next[c][p] \in Nat /\ committed[c][p] \in Nat
         /\ \A i \in 1..Len(log[c][p]) : log[c][p][i] \in Message
<1>1. log \in [Consumers -> [Partitions -> Seq(Message)]]
  BY IndexerAssumption DEF TypeOK
<1>2. log[c][p] \in Seq(Message)
  BY <1>1
<1> QED BY <1>2 DEF TypeOK

LEMMA StaysAccounted ==
  ASSUME TypeOK, [Next]_vars, NEW c \in Consumers, NEW m \in Message, Accounted(c, m)
  PROVE  Accounted(c, m)'
BY StaysIndexed, OnlyGrows DEF Accounted

\* Nothing is delivered or committed, and what is in hand stays there or is accounted for.
LEMMA KeepAccount ==
  ASSUME TypeOK, AccountInv, [Next]_vars, NEW c \in Consumers,
         next'[c] = next[c], committed'[c] = committed[c],
         \/ msg'[c] = msg[c]
         \/ \A m \in Message : m = msg[c] => Accounted(c, m)'
  PROVE  AccountOf(c)'
<1> SUFFICES ASSUME NEW p \in Partitions
             PROVE  AccountOn(c, p)'
  BY DEF AccountOf
<1>1. log' = log
  BY OnlyGrows
<1>2. \A i \in 1..next[c][p] : log[c][p][i] \in Message /\ i \in 1..Len(log[c][p])
  BY LogType DEF AccountInv, AccountOf, AccountOn
<1>3. \A i \in 1..committed[c][p] : i \in 1..next[c][p]
  BY LogType DEF AccountInv, AccountOf, AccountOn
<1>4. \A i \in 1..next[c][p] : Accounted(c, log[c][p][i]) => Accounted(c, log[c][p][i])'
  BY <1>1, <1>2, StaysAccounted DEF Accounted, InGraph, InVector
<1>5. \A i \in 1..next[c][p] : Accounted(c, log[c][p][i])' \/ log[c][p][i] = msg'[c]
  <2> TAKE i \in 1..next[c][p]
  <2>1. CASE Accounted(c, log[c][p][i])
    BY <1>4, <2>1
  <2>2. CASE log[c][p][i] = msg[c]
    BY <1>1, <1>2, <2>2 DEF Accounted, InGraph, InVector
  <2> QED BY <2>1, <2>2 DEF AccountInv, AccountOf, AccountOn
<1>6. \A i \in 1..committed[c][p] : Accounted(c, log[c][p][i])'
  BY <1>3, <1>4 DEF AccountInv, AccountOf, AccountOn
<1> QED BY <1>1, <1>5, <1>6 DEF AccountInv, AccountOf, AccountOn

\* A consumer that takes a message has accounted for all the others it has been given.
LEMMA DeliverAccount ==
  ASSUME TypeOK, AccountInv, [Next]_vars, NEW c \in Consumers, Deliver(c)
  PROVE  AccountOf(c)'
<1>1. PICK q \in Partitions :
        /\ next[c][q] < Len(log[c][q])
        /\ next' = [next EXCEPT ![c][q] = @ + 1]
        /\ msg' = [msg EXCEPT ![c] = log[c][q][next[c][q] + 1]]
  BY DEF Deliver
<1>2. step[c] = "idle" /\ msg[c] = NoMessage /\ committed' = committed /\ log' = log
  BY DEF Deliver, TypeOK
<1>3. msg'[c] = log[c][q][next[c][q] + 1]
  BY <1>1 DEF TypeOK
<1> SUFFICES ASSUME NEW p \in Partitions
             PROVE  AccountOn(c, p)'
  BY DEF AccountOf
<1>4. next'[c][p] = IF p = q THEN next[c][p] + 1 ELSE next[c][p]
  BY <1>1 DEF TypeOK
<1>5. \A i \in 1..next[c][p] : log[c][p][i] \in Message
  BY LogType DEF AccountInv, AccountOf, AccountOn
<1>6. \A i \in 1..next[c][p] : Accounted(c, log[c][p][i])'
  <2> TAKE i \in 1..next[c][p]
  <2>1. Accounted(c, log[c][p][i])
    BY <1>2, <1>5, IndexerAssumption DEF AccountInv, AccountOf, AccountOn
  <2> QED BY <1>2, <1>5, <2>1, StaysAccounted DEF Accounted, InGraph, InVector
<1>7. committed[c][p] <= next[c][p] /\ next[c][p] <= Len(log[c][p])
  BY DEF AccountInv, AccountOf, AccountOn
<1>8. \A i \in 1..next'[c][p] : Accounted(c, log[c][p][i])' \/ log[c][p][i] = msg'[c]
  BY <1>3, <1>4, <1>6, LogType
<1>9. \A i \in 1..committed[c][p] : Accounted(c, log[c][p][i])'
  BY <1>6, <1>7, LogType
<1>10. committed[c][p] <= next'[c][p] /\ next'[c][p] <= Len(log[c][p])
  BY <1>1, <1>4, <1>7, LogType
<1> QED BY <1>2, <1>8, <1>9, <1>10 DEF AccountOn

\* The message in hand is in the graph and in Qdrant when the positions are committed, so
\* are those of the other partitions or given up.
LEMMA CommitAccount ==
  ASSUME TypeOK, AccountInv, HandInv, [Next]_vars, NEW c \in Consumers, Commit(c)
  PROVE  AccountOf(c)'
<1>1. committed'[c] = next[c] /\ next' = next /\ log' = log
  BY DEF Commit, Done, TypeOK
<1>2. InGraph(c, msg[c]) /\ InVector(c, msg[c])
  BY DEF Commit, HandInv
<1> SUFFICES ASSUME NEW p \in Partitions
             PROVE  AccountOn(c, p)'
  BY DEF AccountOf
<1>3. \A i \in 1..next[c][p] : log[c][p][i] \in Message
  BY LogType DEF AccountInv, AccountOf, AccountOn
<1>4. \A i \in 1..next[c][p] : Accounted(c, log[c][p][i])'
  <2> TAKE i \in 1..next[c][p]
  <2>1. Accounted(c, log[c][p][i])
    BY <1>2 DEF AccountInv, AccountOf, AccountOn, Accounted
  <2> QED BY <1>1, <1>3, <2>1, StaysAccounted DEF Accounted, InGraph, InVector
<1> QED BY <1>1, <1>4, LogType DEF AccountInv, AccountOf, AccountOn

LEMMA RestartAccount ==
  ASSUME TypeOK, AccountInv, [Next]_vars, NEW c \in Consumers, Restart
  PROVE  AccountOf(c)'
<1>1. next' = committed /\ committed' = committed /\ log' = log
  BY DEF Restart
<1> SUFFICES ASSUME NEW p \in Partitions
             PROVE  AccountOn(c, p)'
  BY DEF AccountOf
<1>2. committed[c][p] <= next[c][p] /\ next[c][p] <= Len(log[c][p])
  BY DEF AccountInv, AccountOf, AccountOn
<1>3. \A i \in 1..committed[c][p] : log[c][p][i] \in Message
  BY <1>2, LogType
<1>4. \A i \in 1..committed[c][p] : Accounted(c, log[c][p][i])'
  BY <1>1, <1>3, StaysAccounted DEF AccountInv, AccountOf, AccountOn, Accounted, InGraph, InVector
<1> QED BY <1>1, <1>2, <1>4, LogType DEF AccountOn

LEMMA NextAccount ==
  ASSUME TypeOK, AccountInv, HandInv, [Next]_vars
  PROVE  AccountInv'
<1>1. ASSUME NEW c \in Consumers, NEW u \in Consumers, u # c,
             Work(c) \/ Retry(c) \/ Skip(c)
      PROVE  AccountOf(u)'
  <2>1. next'[u] = next[u] /\ committed'[u] = committed[u] /\ msg'[u] = msg[u]
    BY <1>1 DEF Work, Write, WriteEvent, WriteFact, WritePayEvent, WritePayFact, Wrote,
                Store, StoreEvent, StoreFact, StorePayEvent, StorePayFact, Indexed,
                Deliver, Open, Begin, MergeVersion, MergeInstruction, Within, Commit, Retry,
                Skip, Done, broker, TypeOK
  <2> QED BY <2>1, KeepAccount
<1>2. ASSUME NEW c \in Consumers, Open(c) \/ Write(c) \/ Store(c) \/ Retry(c)
      PROVE  AccountOf(c)'
  <2>1. UNCHANGED <<next, committed, msg>>
    BY <1>2 DEF Write, WriteEvent, WriteFact, WritePayEvent, WritePayFact, Wrote,
                Store, StoreEvent, StoreFact, StorePayEvent, StorePayFact, Indexed,
                Open, Begin, MergeVersion, MergeInstruction, Within, Retry, broker
  <2> QED BY <2>1, KeepAccount
<1>3. ASSUME NEW c \in Consumers, Skip(c)
      PROVE  AccountOf(c)'
  <2>1. UNCHANGED <<next, committed>>
    BY <1>3 DEF Skip, Done
  <2>2. \A m \in Message : m = msg[c] => Accounted(c, m)'
    <3> TAKE m \in Message
    <3>1. CASE step[c] = "commit"
      BY <3>1, StaysIndexed DEF HandInv, Accounted
    <3>2. CASE step[c] # "commit"
      BY <1>3, <3>2 DEF Skip, Accounted
    <3> QED BY <3>1, <3>2
  <2> QED BY <2>1, <2>2, KeepAccount
<1>4. CASE UNCHANGED vars
  BY <1>4, KeepAccount DEF vars, broker, worker, AccountInv
<1> QED BY <1>1, <1>2, <1>3, <1>4, DeliverAccount, CommitAccount, RestartAccount
        DEF Next, Work, AccountInv

\* Nothing below a committed offset has been passed over silently: it is in the graph and
\* in Qdrant, or it was given up with a line in the log (commit() of the consumers).
THEOREM CommittedIsIndexedOrGivenUp == Spec => []CommittedIsAccountedFor
<1>1. Init => AccountInv
  <2> SUFFICES ASSUME Init, NEW c \in Consumers, NEW p \in Partitions
               PROVE  AccountOn(c, p)
    BY DEF AccountInv, AccountOf
  <2>1. next[c][p] = 0 /\ committed[c][p] = 0
    BY DEF Init
  <2>2. Len(log[c][p]) \in Nat
    BY InitType, LogType
  <2> QED BY <2>1, <2>2 DEF AccountOn
<1>2. TypeOK /\ VectorInv /\ AccountInv /\ [Next]_vars => AccountInv'
  BY NextAccount DEF VectorInv
<1>3. AccountInv => CommittedIsAccountedFor
  BY AppliedInBoth DEF AccountInv, AccountOf, AccountOn, Accounted, CommittedIsAccountedFor
<1> QED BY <1>1, <1>2, <1>3, IndexerTypeCorrect, VectorInvariant, PTL DEF Spec

-----------------------------------------------------------------------------
(* The whole history.                                                      *)

HasVersion(ns, m) == \E n \in Present(ns) : m.ver \in ns[n].has

HasEvent(ns, m) == \E n \in Present(ns) : m.id \in ns[n].targets

HasPayEvent(ps, m) == \E n \in Present(ps) : m.id \in ps[n].targets

HasPayment(ps, m) ==
  \E n \in Present(ps) : ps[n].fact # 0 /\ SnapshotEdges(m) \subseteq ps[n].signed

\* What a message adds to the history the graph tells.
Told(ns, ps, es, c, m) ==
  /\ c \in {"events", "facts"} => HasVersion(ns, m)
  /\ c = "events" => HasEvent(ns, m) /\ SnapshotEdges(m) \cup ActorEdge(m) \subseteq es[m.ver]
  /\ c = "payEvents" => HasPayEvent(ps, m)
  /\ c = "payFacts" => HasPayment(ps, m)

\* What has been delivered has been told or is in hand, and told already when it has been
\* written.
ToldOf(c) ==
  /\ step[c] \in {"embed", "commit"} => Told(nodes, pays, edges, c, msg[c])
  /\ \A p \in Partitions :
       /\ next[c][p] <= Len(log[c][p])
       /\ \A i \in 1..next[c][p] :
            Told(nodes, pays, edges, c, log[c][p][i]) \/ log[c][p][i] = msg[c]

\* As long as there are no errors and restarts.
HistoryInv == faults = 0 => \A c \in Consumers : ToldOf(c)

\* What has been told stays told.
LEMMA StaysTold ==
  ASSUME TypeOK, [Next]_vars, faults' = 0, NEW c \in Consumers, NEW m \in Message,
         Told(nodes, pays, edges, c, m)
  PROVE  Told(nodes, pays, edges, c, m)'
<1>1. m.ver \in Versions
  BY DEF Message
<1>2. HasVersion(nodes, m) => HasVersion(nodes, m)'
  BY GraphGrows DEF HasVersion
<1>3. HasEvent(nodes, m) => HasEvent(nodes, m)'
  BY GraphGrows DEF HasEvent
<1>4. HasPayEvent(pays, m) => HasPayEvent(pays, m)'
  BY GraphGrows DEF HasPayEvent, PayAdvanced
<1>p. HasPayment(pays, m) => HasPayment(pays, m)'
  BY GraphGrows DEF HasPayment, PayAdvanced
<1>5. edges[m.ver] \subseteq edges'[m.ver]
  BY <1>1, GraphGrows
<1> QED BY <1>2, <1>3, <1>4, <1>p, <1>5 DEF Told

\* A write tells its message, by whatever nodes it finds or makes.
LEMMA WriteTells ==
  ASSUME TypeOK, MatchedInv, NEW c \in Consumers, Write(c)
  PROVE  Told(nodes, pays, edges, c, msg[c])'
<1> DEFINE m == msg[c]
<1>1. m \in Message /\ msg' = msg /\ m.ver \in Versions
  BY HeldMessage DEF Write, WriteEvent, WriteFact, WritePayEvent, WritePayFact, Wrote, Message
<1>2. CASE WriteEvent(c)
  <2>1. matched[c]["Instruction"] # {}
        /\ matched[c]["Instruction"] \subseteq matched[c]["HAS_VERSION"]
    BY <1>2 DEF WriteEvent, MatchedInv, MatchedOf
  <2>2. PICK n \in Consumers : n \in matched[c]["Instruction"]
    BY <2>1, MatchedIn
  <2>3. c = "events" /\ SnapshotEdges(m) \cup ActorEdge(m) \subseteq edges'[m.ver]
    BY <1>1, <1>2 DEF WriteEvent, TypeOK
  <2>4. nodes'[n] \in Node /\ m.ver \in nodes'[n].has /\ m.id \in nodes'[n].targets
    <3> DEFINE f == Found(nodes, NewNode, n)
               merged == n \in matched[c]["HAS_VERSION"]
               target == n \in matched[c]["Instruction"]
    <3>1. /\ nodes'[n] = EventNode(f, m, merged, target)
          /\ f \in Node /\ merged \in BOOLEAN /\ target \in BOOLEAN
      BY <1>2, <2>1, <2>2, WriteEventOn
    <3>2. merged /\ target
      BY <2>1, <2>2
    <3> HIDE DEF f, merged, target, m
    <3>3. /\ nodes'[n] \in Node
          /\ merged => m.ver \in nodes'[n].has
          /\ target => m.id \in nodes'[n].targets
      BY <1>1, <3>1, EventNodeStep
    <3> QED BY <3>2, <3>3
  <2>5. n \in Present(nodes)'
    BY <2>4, NullAssumption DEF Present
  <2>6. HasVersion(nodes, m)' /\ HasEvent(nodes, m)'
    BY <1>1, <2>4, <2>5 DEF HasVersion, HasEvent
  <2> QED BY <1>1, <2>3, <2>6 DEF Told
<1>3. CASE WriteFact(c)
  <2>1. PICK n \in Consumers : n \in matched[c]["Instruction"]
    BY <1>3, MatchedIn DEF WriteFact, MatchedInv, MatchedOf
  <2>2. c = "facts" /\ nodes'[n] \in Node /\ m.ver \in nodes'[n].has
    BY <1>3, <2>1, WriteFactOn DEF WriteFact
  <2>3. HasVersion(nodes, m)'
    BY <1>1, <2>2, NullAssumption DEF HasVersion, Present
  <2> QED BY <1>1, <2>2, <2>3 DEF Told
<1>4. CASE WritePayEvent(c)
  <2>1. PICK n \in Consumers : n \in matched[c]["Payment"]
    BY <1>4, MatchedIn DEF WritePayEvent, MatchedInv, MatchedOf
  <2> DEFINE f == Found(pays, NewPay, n)
             g == [f EXCEPT !.ver = m.ver, !.targets = f.targets \cup {m.id}]
  <2>2. f \in Pay
    BY FoundNode
  <2>3. pays'[n] = g /\ c = "payEvents"
    BY <1>4, <2>1 DEF WritePayEvent
  <2> HIDE DEF m, f
  <2>4. g \in Pay /\ m.id \in g.targets
    BY <1>1, <2>2, PayEventNode
  <2>5. n \in Present(pays)' /\ m.id \in pays'[n].targets
    BY <2>3, <2>4, NullAssumption DEF Present
  <2>6. HasPayEvent(pays, m)'
    BY <1>1, <2>5 DEF HasPayEvent, m
  <2> QED BY <1>1, <2>3, <2>6 DEF Told, m
<1>5. CASE WritePayFact(c)
  <2>1. PICK n \in Consumers : n \in matched[c]["Payment"]
    BY <1>5, MatchedIn DEF WritePayFact, MatchedInv, MatchedOf
  <2> DEFINE f == Found(pays, NewPay, n)
  <2>2. f \in Pay
    BY FoundNode
  <2>3. pays'[n] = PaymentFields(f, m) /\ c = "payFacts"
    BY <1>5, <2>1 DEF WritePayFact
  <2> HIDE DEF m, f
  <2>4. pays'[n] \in Pay /\ pays'[n].fact # 0 /\ SnapshotEdges(m) \subseteq pays'[n].signed
    BY <1>1, <2>2, <2>3, PayFieldsNode
  <2>5. HasPayment(pays, m)'
    BY <1>1, <2>4, NullAssumption DEF HasPayment, Present, m
  <2> QED BY <1>1, <2>3, <2>5 DEF Told, m
<1> QED BY <1>2, <1>3, <1>4, <1>5 DEF Write

\* Nothing is delivered, and what is in hand stays there or has been told.
LEMMA KeepTold ==
  ASSUME TypeOK, HistoryInv, [Next]_vars, faults = 0, faults' = 0, NEW c \in Consumers,
         next'[c] = next[c],
         step'[c] \in {"embed", "commit"} => Told(nodes, pays, edges, c, msg[c])',
         msg'[c] = msg[c] \/ Told(nodes, pays, edges, c, msg[c])
  PROVE  ToldOf(c)'
<1>1. log' = log /\ ToldOf(c)
  BY OnlyGrows DEF HistoryInv
<1>2. ASSUME NEW p \in Partitions
      PROVE  /\ next'[c][p] <= Len(log'[c][p])
             /\ \A i \in 1..next'[c][p] :
                  Told(nodes, pays, edges, c, log[c][p][i])' \/ log'[c][p][i] = msg'[c]
  <2>1. \A i \in 1..next[c][p] : log[c][p][i] \in Message
    BY <1>1, LogType DEF ToldOf
  <2>2. ASSUME NEW i \in 1..next[c][p]
        PROVE  Told(nodes, pays, edges, c, log[c][p][i])' \/ log[c][p][i] = msg'[c]
    <3> DEFINE m == log[c][p][i]
    <3>1. m \in Message /\ (Told(nodes, pays, edges, c, m) \/ m = msg[c]) /\ log'[c][p][i] = m
      BY <1>1, <2>1 DEF ToldOf
    <3> HIDE DEF m
    <3>2. Told(nodes, pays, edges, c, m) => Told(nodes', pays', edges', c, m)
      BY <3>1, StaysTold
    <3>3. Told(nodes', pays', edges', c, m) \/ m = msg'[c]
      BY <3>1, <3>2
    <3> QED BY <3>1, <3>3 DEF m
  <2>3. next[c][p] <= Len(log[c][p])
    BY <1>1 DEF ToldOf
  <2>4. log'[c][p] = log[c][p] /\ next'[c][p] = next[c][p]
    BY <1>1
  <2>5. \A i \in 1..next'[c][p] :
          Told(nodes, pays, edges, c, log[c][p][i])' \/ log'[c][p][i] = msg'[c]
    BY <1>1, <2>2, <2>4
  <2> QED BY <2>3, <2>4, <2>5
<1> QED BY <1>2 DEF ToldOf

\* A delivery: everything before it has been told, and the message is in hand.
LEMMA DeliverTold ==
  ASSUME TypeOK, HistoryInv, [Next]_vars, faults = 0, faults' = 0, NEW c \in Consumers, Deliver(c)
  PROVE  ToldOf(c)'
<1>1. log' = log /\ ToldOf(c)
  BY OnlyGrows DEF HistoryInv
<1>2. PICK q \in Partitions :
        /\ next[c][q] < Len(log[c][q])
        /\ next' = [next EXCEPT ![c][q] = @ + 1]
        /\ msg' = [msg EXCEPT ![c] = log[c][q][next[c][q] + 1]]
  BY DEF Deliver
<1>3. step'[c] = "write" /\ msg[c] = NoMessage
  BY DEF Deliver, Goto, TypeOK
<1>4. ASSUME NEW p \in Partitions
      PROVE  /\ next'[c][p] <= Len(log'[c][p])
             /\ \A i \in 1..next'[c][p] :
                  Told(nodes, pays, edges, c, log[c][p][i])' \/ log'[c][p][i] = msg'[c]
  <2>1. /\ \A i \in 1..next[c][p] : log[c][p][i] \in Message
        /\ next[c][p] \in Nat /\ Len(log[c][p]) \in Nat
    BY <1>1, LogType DEF ToldOf, TypeOK
  <2>2. next'[c][p] = IF p = q THEN next[c][p] + 1 ELSE next[c][p]
    BY <1>2 DEF TypeOK
  <2>3. msg'[c] = log[c][q][next[c][q] + 1]
    BY <1>2 DEF TypeOK
  <2>4. ASSUME NEW i \in 1..next[c][p]
        PROVE  Told(nodes, pays, edges, c, log[c][p][i])'
    <3> DEFINE m == log[c][p][i]
    <3>1. m \in Message /\ Told(nodes, pays, edges, c, m) /\ log'[c][p][i] = m
      BY <1>1, <1>3, <2>1, IndexerAssumption DEF ToldOf
    <3> HIDE DEF m
    <3>2. Told(nodes', pays', edges', c, m)
      BY <3>1, StaysTold
    <3> QED BY <3>1, <3>2
  <2>5. ASSUME NEW i \in 1..next'[c][p]
        PROVE  Told(nodes, pays, edges, c, log[c][p][i])' \/ log'[c][p][i] = msg'[c]
    <3>1. i \in 1..next[c][p] \/ (p = q /\ i = next[c][q] + 1)
      BY <2>1, <2>2
    <3> QED BY <1>1, <2>3, <2>4, <3>1
  <2> QED BY <1>1, <1>2, <2>1, <2>2, <2>5, <1>1 DEF ToldOf
<1> QED BY <1>3, <1>4 DEF ToldOf

\* The consumers go on telling the history.
LEMMA NextHistory ==
  ASSUME TypeOK, MatchedInv, HistoryInv, [Next]_vars
  PROVE  HistoryInv'
<1> SUFFICES ASSUME faults' = 0, NEW c \in Consumers PROVE ToldOf(c)'
  BY DEF HistoryInv
<1>1. faults = 0
  BY FirstFault
<1>2. ~Restart /\ \A d \in Consumers : ~Retry(d) /\ ~Skip(d)
  BY FirstFault
<1>3. ToldOf(c)
  BY <1>1 DEF HistoryInv
<1>4. ASSUME next'[c] = next[c], step'[c] = step[c], msg'[c] = msg[c]
      PROVE  ToldOf(c)'
  <2>1. step[c] \in {"embed", "commit"} => Told(nodes', pays', edges', c, msg[c])
    BY <1>1, <1>3, HeldMessage, StaysTold DEF ToldOf
  <2>2. step'[c] \in {"embed", "commit"} => Told(nodes', pays', edges', c, msg'[c])
    BY <1>4, <2>1
  <2> QED BY <1>1, <1>4, <2>2, KeepTold
<1>5. CASE Deliver(c)
  BY <1>1, <1>5, DeliverTold
<1>6. CASE Open(c)
  <2>1. next' = next /\ msg' = msg /\ step'[c] \in {"open", "merged"}
    BY <1>6 DEF Open, Begin, MergeVersion, MergeInstruction, Within, Goto, broker, TypeOK
  <2> QED BY <1>1, <2>1, KeepTold
<1>7. CASE Write(c)
  <2>1. next' = next /\ msg' = msg
    BY <1>7 DEF Write, WriteEvent, WriteFact, WritePayEvent, WritePayFact, Wrote, broker
  <2> QED BY <1>1, <1>7, <2>1, WriteTells, KeepTold
<1>8. CASE Store(c)
  <2>1. next' = next /\ msg' = msg /\ step[c] = "embed"
    BY <1>8 DEF Store, StoreEvent, StoreFact, StorePayEvent, StorePayFact, Indexed, broker
  <2>2. Told(nodes', pays', edges', c, msg[c])
    BY <1>1, <1>3, <2>1, HeldMessage, StaysTold DEF ToldOf
  <2>3. Told(nodes', pays', edges', c, msg'[c])
    BY <2>1, <2>2
  <2> QED BY <1>1, <2>1, <2>3, KeepTold
<1>9. CASE Commit(c)
  <2>1. next' = next /\ step[c] = "commit" /\ step'[c] = "idle"
    BY <1>9 DEF Commit, Done, Goto, TypeOK
  <2>2. Told(nodes, pays, edges, c, msg[c])
    BY <1>3, <2>1 DEF ToldOf
  <2> QED BY <1>1, <2>1, <2>2, KeepTold
<1>10. CASE \E d \in Consumers \ {c} : Work(d)
  <2>1. PICK d \in Consumers \ {c} : Work(d)
    BY <1>10
  <2>2. next'[c] = next[c] /\ step'[c] = step[c] /\ msg'[c] = msg[c]
    <3> USE DEF TypeOK, Goto, broker
    <3>1. CASE Deliver(d)
      <4>1. /\ \E p \in Partitions : next' = [next EXCEPT ![d][p] = @ + 1]
            /\ \E m \in Message \cup {NoMessage} : msg' = [msg EXCEPT ![d] = m]
            /\ step' = [step EXCEPT ![d] = "write"]
        BY <3>1, DeliveredMessage DEF Deliver
      <4> QED BY <4>1
    <3>2. CASE Open(d)
      BY <3>2 DEF Open, Begin, MergeVersion, MergeInstruction, Within
    <3>3. CASE Write(d)
      BY <3>3 DEF Write, WriteEvent, WriteFact, WritePayEvent, WritePayFact, Wrote
    <3>4. CASE Store(d)
      BY <3>4 DEF Store, StoreEvent, StoreFact, StorePayEvent, StorePayFact, Indexed
    <3>5. CASE Commit(d)
      BY <3>5 DEF Commit, Done
    <3> QED BY <2>1, <3>1, <3>2, <3>3, <3>4, <3>5 DEF Work
  <2> QED BY <1>4, <2>2
<1>11. CASE UNCHANGED vars
  BY <1>4, <1>11 DEF vars, broker, worker
<1> QED BY <1>2, <1>5, <1>6, <1>7, <1>8, <1>9, <1>10, <1>11 DEF Next, Work

LEMMA InitHistory == Init => HistoryInv
<1> SUFFICES ASSUME Init, NEW c \in Consumers PROVE ToldOf(c)
  BY DEF HistoryInv
<1>1. TypeOK
  BY InitType
<1>2. step[c] = "idle" /\ \A p \in Partitions : next[c][p] = 0 /\ Len(log[c][p]) \in Nat
  BY <1>1, LogType DEF Init
<1> QED BY <1>2 DEF ToldOf

\* At the end of the topics the history is there.
LEMMA HistoryImplies ==
  ASSUME TypeOK, HistoryInv, CurrentIsNewest
  PROVE  GraphIsComplete
<1> SUFFICES ASSUME Quiet, faults = 0
             PROVE  /\ \A m \in Messages("events") \cup Messages("facts") :
                         \E c \in Present(nodes) :
                           m.ver \in nodes[c].has /\ m.ver <= nodes[c].current
                    /\ \A m \in Messages("events") :
                         /\ \E c \in Present(nodes) : m.id \in nodes[c].targets
                         /\ SnapshotEdges(m) \cup ActorEdge(m) \subseteq edges[m.ver]
                    /\ \A m \in Messages("payEvents") :
                         \E c \in Present(pays) : m.id \in pays[c].targets
                    /\ \A m \in Messages("payFacts") :
                         \E c \in Present(pays) :
                           pays[c].fact # 0 /\ SnapshotEdges(m) \subseteq pays[c].signed
  BY DEF GraphIsComplete
<1>1. ASSUME NEW c \in Consumers, NEW m \in Messages(c)
      PROVE  Told(nodes, pays, edges, c, m)
  <2>p. PICK p \in Partitions : m \in {log[c][p][i] : i \in 1..Len(log[c][p])}
    BY DEF Messages
  <2>1. PICK i \in 1..Len(log[c][p]) : m = log[c][p][i]
    BY <2>p
  <2>2. next[c][p] = Len(log[c][p]) /\ msg[c] = NoMessage
    BY DEF Quiet, Delivered, TypeOK
  <2>3. log[c][p][i] \in Message
    BY LogType
  <2> QED BY <2>1, <2>2, <2>3, IndexerAssumption DEF HistoryInv, ToldOf
<1>2. \A m \in Messages("events") \cup Messages("facts") : HasVersion(nodes, m)
  BY <1>1 DEF Told, Consumers
<1>3. \A m \in Messages("events") : /\ HasEvent(nodes, m)
                                    /\ SnapshotEdges(m) \cup ActorEdge(m) \subseteq edges[m.ver]
  BY <1>1 DEF Told, Consumers
<1>4. \A m \in Messages("payEvents") : HasPayEvent(pays, m)
  BY <1>1 DEF Told, Consumers
<1>5. \A m \in Messages("payFacts") : HasPayment(pays, m)
  BY <1>1 DEF Told, Consumers
<1> QED BY <1>2, <1>3, <1>4, <1>5
        DEF CurrentIsNewest, HasVersion, HasEvent, HasPayEvent, HasPayment

\* GraphIsComplete: without errors and restarts the whole history is in the graph once the
\* topics have been read, whatever nodes were duplicated on the way.
THEOREM HistoryIsComplete == Spec => []GraphIsComplete
<1>1. Init => HistoryInv
  BY InitHistory
<1>2. TypeOK /\ MatchedInv /\ HistoryInv /\ [Next]_vars => HistoryInv'
  BY NextHistory
<1>3. TypeOK /\ HistoryInv /\ CurrentIsNewest => GraphIsComplete
  BY HistoryImplies
<1> QED BY <1>1, <1>2, <1>3, IndexerTypeCorrect, MatchedInvariant, CurrentStaysNewest, PTL
        DEF Spec
=============================================================================
