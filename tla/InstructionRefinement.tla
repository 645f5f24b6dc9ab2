------------------------- MODULE InstructionRefinement -------------------------
(***************************************************************************)
(* InstructionService implements InstructionLedger: whatever the           *)
(* interleaving of handlers, transactions and failures, an outside reader  *)
(* of the two collections sees one atomic step of the ledger at a time.    *)
(***************************************************************************)
EXTENDS InstructionService

\* The refinement mapping: a document is the version it stores, known by its status and
\* by the last entry of its lifecycle_events; the log is the security_events collection.
Versions ==
  {[id |-> d.id, ver |-> d.ver, status |-> d.body.status,
    act |-> LastEntry(d.body).act, user |-> LastEntry(d.body).user] : d \in docs}

Ledger == INSTANCE InstructionLedger
            WITH ledger <- Versions, log <- events, Numbers <- 1..MaxCalls

\* A commit is one step of the ledger: the next version of its instruction, reached by a
\* transition of the life cycle, together with its event; every other step of the
\* service is a view, a refusal or invisible (service.py, repository.append_version).
ImplementsLedger == Ledger!LedgerSpec

=============================================================================
