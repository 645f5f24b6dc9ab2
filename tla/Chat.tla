-------------------------------- MODULE Chat --------------------------------
(***************************************************************************)
(* ssi-chat answers "who approved ...?".  RagService.ask searches Qdrant   *)
(* by vector and by words and Neo4j by a query, all at once, while exact   *)
(* lookups by the id in the question go their own way; it merges what came *)
(* back and names an approver, or leaves the answer to the language model. *)
(* Each source may fail.  All of them are behind what has happened, and    *)
(* not by the same distance: ssi-indexer writes an event or a fact to the  *)
(* graph first and to Qdrant later, events and facts through separate      *)
(* consumers (see Indexer).                                                *)
(*                                                                         *)
(* One instruction and payments on it; one question at a time.             *)
(***************************************************************************)
EXTENDS Integers, FiniteSets, SequencesExt

CONSTANTS
  Instruction, Payments,
  Histories,      \* what may happen: [Resources -> Seq(Step)]
  Questions,      \* what is asked in each: [Histories -> SUBSET Question]
  Limit,          \* retrieval_limit, of a search
  ScrollLimit     \* the points a scroll looks at

Resources == {Instruction} \cup Payments
Nobody    == ""
Step      == [act : STRING, user : STRING \ {Nobody}, ok : BOOLEAN]
Modes     == {"events", "instructions", "payments", "all"}

\* Who approved about; through: of the instruction behind the payment; live: who can.
Question == [about : Resources, mode : Modes, asks : {"approver", "through", "live"}]

ASSUME ChatAssumption ==
  /\ Questions \in [Histories -> SUBSET Question]
  /\ \A h \in Histories : \A q \in Questions[h] :
       q.asks = "through" => q.about \in Payments
  /\ Instruction \notin Payments /\ IsFiniteSet(Payments)
  /\ Limit \in Nat /\ ScrollLimit \in Nat
  /\ \A h \in Histories : h \in [Resources -> Seq(Step)]

VARIABLES
  history,        \* what happens to each resource, one of Histories
  happened,       \* how much of it has happened
  recorded,       \* events in the graph
  points,         \* event points in Qdrant
  facts,          \* facts in the graph
  payload,        \* the fact point of each resource: its last fact (0: none), its approver
  question, pending, vector, bm25, exact, graph, answer,
  sure            \* history: what was already indexed when the question came

index == <<recorded, points, facts, payload>>
asked == <<question, pending, vector, bm25, exact, graph, answer, sure>>
vars  == <<history, happened, index, asked>>

NoQuestion == [about |-> Instruction, mode |-> "all", asks |-> "nothing"]
NoRow      == [approver |-> Nobody, summary |-> FALSE, basis |-> FALSE]
NoResult   == [row |-> NoRow, note |-> "rows", read |-> "no"]
NoAnswer   == [how |-> "none", who |-> Nobody]

Approves(r, n) == history[r][n].act = "APPROVE" /\ history[r][n].ok

\* The users who have approved a resource.
Approvers(r) == {history[r][n].user : n \in {m \in 1..happened[r] : Approves(r, m)}}

\* approved_by in the snapshot taken at step n.
ApprovedBy(r, n) ==
  LET ms == {m \in 1..n : Approves(r, m)} IN
  IF ms = {} THEN Nobody ELSE history[r][Max(ms)].user

-----------------------------------------------------------------------------
(* What is indexed.                                                        *)

\* Mutant of Kept: the payload is the fact's, nothing is taken over.
KeptNothing(r, n) == ApprovedBy(r, n)

\* process_instruction_fact keeps an approver that is there when a fact that is no
\* approval has none; the point of a payment is replaced.
Kept(r, n) ==
  IF r = Instruction /\ ApprovedBy(r, n) = Nobody /\ history[r][n].act # "APPROVE"
    THEN payload[r].approver
    ELSE ApprovedBy(r, n)

Happen(r) ==
  /\ happened[r] < Len(history[r])
  /\ happened' = [happened EXCEPT ![r] = @ + 1]
  /\ UNCHANGED <<history, index, asked>>

RecordEvent(r, n) ==
  /\ n \notin recorded[r]
  /\ recorded' = [recorded EXCEPT ![r] = @ \cup {n}]
  /\ UNCHANGED <<history, happened, points, facts, payload, asked>>

StoreEvent(r, n) ==
  /\ n \in recorded[r] \ points[r]
  /\ points' = [points EXCEPT ![r] = @ \cup {n}]
  /\ UNCHANGED <<history, happened, recorded, facts, payload, asked>>

\* Only what succeeded has a fact.
RecordFact(r, n) ==
  /\ history[r][n].ok /\ n \notin facts[r]
  /\ facts' = [facts EXCEPT ![r] = @ \cup {n}]
  /\ UNCHANGED <<history, happened, recorded, points, payload, asked>>

\* In any order, and again after a restart.
StoreFact(r, n) ==
  /\ n \in facts[r] /\ n # payload[r].fact
  /\ payload' = [payload EXCEPT ![r] = [fact |-> n, approver |-> Kept(r, n)]]
  /\ UNCHANGED <<history, happened, recorded, points, facts, asked>>

-----------------------------------------------------------------------------
(* What a search may find.                                                 *)

\* Hits are the same when their keys are: the event, or without one the instruction, which
\* all the fact points of an instruction and of its payments share.
EventHit(r, n) ==
  LET s == history[r][n] IN
  [key |-> <<r, n>>, of |-> r, event |-> TRUE, actor |-> s.user, summary |-> TRUE,
   approver |-> IF r = Instruction THEN ApprovedBy(r, n) ELSE Nobody, basis |-> s.ok]

FactHit(r) ==
  [key |-> <<Instruction, 0>>, of |-> r, event |-> FALSE, approver |-> payload[r].approver,
   actor   |-> IF r = Instruction THEN history[r][payload[r].fact].user ELSE Nobody,
   summary |-> r = Instruction, basis |-> r = Instruction]

Stored == {r \in Resources : payload[r].fact # 0}

EventHits == {EventHit(rn[1], rn[2]) : rn \in UNION {{r} \X points[r] : r \in Resources}}

\* The points a search in this mode is restricted to (_source_filter).
Searched(mode) ==
  CASE mode = "events"       -> EventHits
    [] mode = "instructions" -> {FactHit(r) : r \in Stored \cap {Instruction}}
    [] mode = "payments"     -> {FactHit(r) : r \in Stored \cap Payments}
    [] mode = "all"          -> EventHits \cup {FactHit(r) : r \in Stored}

\* The best of them, one for each key.
Found(mode) ==
  {hs \in SUBSET Searched(mode) :
     Cardinality(hs) <= Limit /\ \A g, h \in hs : g.key = h.key => g = h}

-----------------------------------------------------------------------------
(* The question and its searches.                                          *)

HasExact(q) == q.about \in Payments \/ q.mode = "instructions"

Ask(q) ==
  /\ question = NoQuestion
  /\ question' = q
  /\ pending' = IF q.asks = "live" THEN {"live"} ELSE
                  {"vector", "bm25", "graph"} \cup (IF HasExact(q) THEN {"fact"} ELSE {})
  /\ sure' = [event |-> \E n \in recorded[q.about] : Approves(q.about, n),
              state |-> payload[q.about].approver # Nobody]
  /\ UNCHANGED <<history, happened, index, vector, bm25, exact, graph, answer>>

Done(arm) == pending' = pending \ {arm}

\* A search that fails has found nothing.
SearchVector ==
  /\ "vector" \in pending /\ Done("vector")
  /\ vector' \in Found(question.mode) \cup {{}}
  /\ UNCHANGED <<history, happened, index, question, bm25, exact, graph, answer, sure>>

SearchBm25 ==
  /\ "bm25" \in pending /\ Done("bm25")
  /\ bm25' \in Found(question.mode) \cup {{}}
  /\ UNCHANGED <<history, happened, index, question, vector, exact, graph, answer, sure>>

\* plan_graph_queries has a query of its own for the question.
Planned(q) ==
  \/ q.asks = "through"
  \/ q.mode = "instructions" /\ q.about = Instruction
  \/ q.mode \in {"payments", "events"} /\ q.about \in Payments

\* CURRENT is the newest version an event or a fact has brought; the summary comes with
\* its fact.
VersionRow ==
  LET seen == recorded[Instruction] \cup facts[Instruction] IN
  IF seen = {} THEN NoRow ELSE
  LET oks == {n \in 1..Max(seen) : history[Instruction][n].ok} IN
  [approver |-> ApprovedBy(Instruction, Max(seen)), basis |-> TRUE,
   summary |-> oks \cap facts[Instruction] # {} /\ Max(oks) \in facts[Instruction]]

ApprovalRow(p) ==
  LET ns == {n \in recorded[p] : Approves(p, n)} IN
  IF ns = {} THEN NoRow ELSE
  [approver |-> history[p][Max(ns)].user, summary |-> TRUE, basis |-> TRUE]

PlannedRow(q) ==
  IF q.asks = "through" THEN IF facts[q.about] = {} THEN NoRow ELSE VersionRow
  ELSE IF q.about = Instruction THEN VersionRow ELSE ApprovalRow(q.about)

\* Mutant of Unavailable: only the rows are empty.
UnavailableUnnoted == [row |-> NoRow, note |-> "none", read |-> "no"]

\* The search failed: there are no rows, and the prompt says that the search did not work.
Unavailable == [row |-> NoRow, note |-> "unavailable", read |-> "no"]

\* _search_graph: the planned query; without one, or when it fails, the model's query,
\* which is taken to return rows without an approver; or neither.
SearchGraph ==
  /\ "graph" \in pending /\ Done("graph")
  /\ \/ /\ Planned(question)
        /\ LET row == PlannedRow(question) IN
           graph' = [row |-> row, note |-> IF row = NoRow THEN "none" ELSE "rows",
                     read |-> "planned"]
     \/ \E note \in {"rows", "none"} :
          graph' = [row |-> NoRow, note |-> note, read |-> "model"]
     \/ graph' = Unavailable
  /\ UNCHANGED <<history, happened, index, question, vector, bm25, exact, answer, sure>>

-----------------------------------------------------------------------------
(* Exact lookups.                                                          *)

Failed(arm) ==
  /\ pending' = (pending \ {arm}) \cup {"raise"}
  /\ UNCHANGED exact

\* The fact point of the id, then the approvals.
LookUpFact ==
  /\ "fact" \in pending
  /\ \/ /\ pending' = (pending \ {"fact"}) \cup {"approvals"}
        /\ exact' = IF question.about \in Stored THEN <<FactHit(question.about)>> ELSE <<>>
     \/ Failed("fact")
  /\ UNCHANGED <<history, happened, index, question, vector, bm25, graph, answer, sure>>

\* Mutant of PaymentApprovals: refused approvals too.
PaymentApprovalsTried(p, ns) == {n \in ns : history[p][n].act = "APPROVE"}

\* fetch_payment_approve_events
PaymentApprovals(p, ns) == {n \in ns : Approves(p, n)}

\* fetch_instruction_approve_events: the outcome is not asked for.
InstructionApprovals(ns) == {n \in ns : history[Instruction][n].act = "APPROVE"}

\* A scroll looks at so many points of the resource, in no particular order.
Scrolled(r) ==
  {ns \in SUBSET points[r] :
     Cardinality(ns) = IF Cardinality(points[r]) < ScrollLimit
                         THEN Cardinality(points[r]) ELSE ScrollLimit}

\* Of the payment, or of the instruction: asked about, or named by the payment's fact.
Approvals(q) ==
  IF q.about \in Payments /\ q.asks # "through"
    THEN {{EventHit(q.about, n) : n \in PaymentApprovals(q.about, ns)} :
            ns \in Scrolled(q.about)}
  ELSE IF q.about \in Payments /\ exact = <<>> THEN {{}}
  ELSE {{EventHit(Instruction, n) : n \in InstructionApprovals(ns)} :
          ns \in Scrolled(Instruction)}

LookUpApprovals ==
  /\ "approvals" \in pending
  /\ \/ /\ Done("approvals")
        /\ \E hs \in Approvals(question) : \E s \in SetToSeqs(hs) : exact' = exact \o s
     \/ Failed("approvals")
  /\ UNCHANGED <<history, happened, index, question, vector, bm25, graph, answer, sure>>

-----------------------------------------------------------------------------
(* The answer.                                                             *)

Keys(hs) == {h.key : h \in hs}

\* rrf_merge keeps, of hits with one key, the first in the order of the lists.
\* _merge_with_exact puts the exact hits first and drops what has a key of theirs.
Remainder ==
  LET found == vector \cup {h \in bm25 : h.key \notin Keys(vector)} IN
  {h \in found : h.key \notin Keys(Range(exact))}

Or(a, b) == IF a # Nobody THEN a ELSE b

\* _synthesize_instruction_approval_answer, one hit: the summary ends the search.
TakeForInstruction(acc, h) ==
  IF acc.done THEN acc ELSE
  [acc EXCEPT !.approver = Or(@, Or(h.approver, h.actor)),
              !.summary = @ \/ h.summary, !.done = acc.summary \/ h.summary]

\* _synthesize_payment_approval_answer: every security event counts as the approval.
TakeForPayment(acc, h) ==
  IF acc.done \/ h.of # question.about THEN acc ELSE
  LET who     == IF h.event THEN Or(h.actor, acc.approver) ELSE Or(acc.approver, h.approver)
      summary == acc.summary \/ (h.event /\ h.summary)
      basis   == acc.basis \/ (h.event /\ h.basis) IN
  [approver |-> who, summary |-> summary, basis |-> basis,
   done |-> who # Nobody /\ summary /\ basis]

Start == [approver |-> graph.row.approver, summary |-> graph.row.summary,
          basis |-> graph.row.basis, done |-> FALSE]

ForPayment == question.about \in Payments /\ question.asks = "approver"

\* The approver to name, with the hits in this order; Nobody leaves it to the model.  Asked
\* through a payment, only a row tells which instruction it is.
Named(hits) ==
  IF ForPayment THEN
    LET acc == FoldLeft(TakeForPayment, Start, hits) IN
    IF acc.summary \/ acc.basis THEN acc.approver ELSE Nobody
  ELSE IF question.asks = "through" /\ graph.row = NoRow THEN Nobody
  ELSE
    LET acc == FoldLeft(TakeForInstruction, Start, hits) IN
    IF acc.summary THEN acc.approver ELSE Nobody

Searching == {"vector", "bm25", "graph", "fact", "approvals"}

\* Every search has ended.  A lookup by id that failed fails the question (503); so does
\* the language model when the answer is left to it.
Answer ==
  /\ question # NoQuestion /\ answer = NoAnswer
  /\ pending \cap (Searching \cup {"live"}) = {}
  /\ IF "raise" \in pending THEN answer' = [how |-> "error", who |-> Nobody]
     ELSE \E rest \in SetToSeqs(Remainder) :
       LET who == Named(exact \o rest) IN
       IF who # Nobody THEN answer' = [how |-> "named", who |-> who]
       ELSE \E how \in {"model", "error"} : answer' = [how |-> how, who |-> Nobody]
  /\ UNCHANGED <<history, happened, index, question, pending, vector, bm25, exact, graph, sure>>

\* Who can approve it is asked of the service itself: no search.  A hint to log in or to
\* give an id, the list and a refusal are answers; a service out of reach is an error.
AnswerLive ==
  /\ "live" \in pending /\ Done("live")
  /\ \E how \in {"live", "error"} : answer' = [how |-> how, who |-> Nobody]
  /\ UNCHANGED <<history, happened, index, question, vector, bm25, exact, graph, sure>>

-----------------------------------------------------------------------------
Init ==
  /\ history \in Histories
  /\ happened = [r \in Resources |-> 0]
  /\ recorded = [r \in Resources |-> {}] /\ points = recorded /\ facts = recorded
  /\ payload = [r \in Resources |-> [fact |-> 0, approver |-> Nobody]]
  /\ question = NoQuestion /\ pending = {}
  /\ vector = {} /\ bm25 = {} /\ exact = <<>> /\ graph = NoResult /\ answer = NoAnswer
  /\ sure = [event |-> FALSE, state |-> FALSE]

IndexStep ==
  \E r \in Resources : \E n \in 1..happened[r] :
    RecordEvent(r, n) \/ StoreEvent(r, n) \/ RecordFact(r, n) \/ StoreFact(r, n)

Search == SearchVector \/ SearchBm25 \/ SearchGraph \/ LookUpFact \/ LookUpApprovals

\* What happens after the answer does not change it, and is left out.
Next ==
  \/ answer = NoAnswer /\ (IndexStep \/ \E r \in Resources : Happen(r))
  \/ \E q \in Questions[history] : Ask(q)
  \/ Search
  \/ Answer
  \/ AnswerLive

Spec == Init /\ [][Next]_vars

-----------------------------------------------------------------------------
(* Properties.                                                             *)

\* Whom a question in Payments mode is told approved the payment has approved it, however
\* far the index is behind, and whatever refused attempts and payments there are besides.
PaymentApproverIsActual ==
  answer.how = "named" /\ ForPayment /\ question.mode = "payments"
    => answer.who \in Approvers(question.about)

\* When the instruction's point showed its approver before the question came, a question
\* in Instructions mode names one who has approved it: a fact of an earlier version or a
\* suspension that is stored after it takes nothing back.
KnownApproverIsNamed ==
  (/\ answer.how = "named" /\ question.asks = "approver"
   /\ question.about = Instruction /\ question.mode = "instructions"
   /\ sure.state)
    => answer.who \in Approvers(Instruction)

\* The prompt says that the graph holds no matching record only when a query has been run,
\* and of the planned query only when the approval was not in the graph as the question
\* came.
AbsenceIsObserved ==
  graph.note = "none" =>
    /\ graph.read # "no"
    /\ graph.read = "planned" /\ ForPayment => ~sure.event

\* WHO is the approver (README of ssi-chat): a question in Instructions mode names one who
\* has approved the instruction.  One that waits for approval is answered with its
\* submitter, or with one who was refused.
WhoIsAnApprover ==
  (/\ answer.how = "named" /\ question.asks = "approver"
   /\ question.about = Instruction /\ question.mode = "instructions")
    => answer.who \in Approvers(Instruction)

=============================================================================
