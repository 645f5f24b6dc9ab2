--------------------------- MODULE InstructionLedger ---------------------------
(***************************************************************************)
(* What instruction-service promises, without handlers, transactions or    *)
(* tasks: a ledger of numbered versions and a log of security events.  A   *)
(* version is added in one step, as the next one of its instruction, by a  *)
(* transition of the instruction's life cycle, and a version of a recorded *)
(* user enters the log in that same step.  Nothing is ever changed.        *)
(***************************************************************************)
EXTENDS Naturals, FiniteSets

CONSTANTS
  Ids,             \* instruction ids
  Users,           \* user ids
  Unrecorded,      \* users that stay out of the log
  Numbers          \* numbers of security events

VARIABLES
  ledger,          \* stored versions
  log              \* security events

Active == {"STANDING", "SINGLE_USE"}

\* The life cycle: the status an action finds and the status it leaves.
LifeCycle ==
  {<<"none", "CREATE", "DRAFT">>, <<"DRAFT", "UPDATE", "DRAFT">>,
   <<"DRAFT", "SUBMIT", "PENDING">>, <<"PENDING", "REJECT", "REJECTED">>,
   <<"DRAFT", "DELETE", "DELETED">>, <<"PENDING", "DELETE", "DELETED">>,
   <<"SINGLE_USE", "USE", "USED">>, <<"STANDING", "USE", "STANDING">>}
  \cup {<<"PENDING", "APPROVE", s>> : s \in Active}
  \cup {<<s, "SUSPEND", "SUSPENDED">> : s \in Active}
  \cup {<<"SUSPENDED", "REACTIVATE", s>> : s \in Active}

Of(id) == {v \in ledger : v.id = id}

\* The version a transition starts from need not be the latest: a call that read an
\* earlier one may still store its outcome.
Sources(id) == IF Of(id) = {} THEN {"none"} ELSE {v.status : v \in Of(id)}

\* The numbers of an instruction's events are not given twice.
Unused(id) == Numbers \ {e.n : e \in {f \in log : f.res = id}}

LedgerInit == ledger = {} /\ log = {}

\* User takes the transition t on the instruction: its next version.
Extend(id, user, t) ==
  /\ t[1] \in Sources(id)
  /\ ledger' = ledger \cup {[id |-> id, ver |-> Cardinality(Of(id)) + 1, status |-> t[3],
                             act |-> t[2], user |-> user]}

\* The version and, for a recorded user, its event.
Store(id, user, t) ==
  /\ Extend(id, user, t)
  /\ IF user \in Unrecorded
       THEN UNCHANGED log
       ELSE \E n \in Unused(id) :
              log' = log \cup {[res |-> id, n |-> n, act |-> t[2], user |-> user,
                               outcome |-> "success", ver |-> Cardinality(Of(id)) + 1]}

\* User is shown a stored version.
View(id, user) ==
  /\ \E n \in Unused(id), v \in Of(id) :
       log' = log \cup {[res |-> id, n |-> n, act |-> "VIEW", user |-> user,
                        outcome |-> "success", ver |-> v.ver]}
  /\ UNCHANGED ledger

\* User is refused an action.
Refuse(id, user, act) ==
  /\ \E n \in Unused(id) :
       log' = log \cup {[res |-> id, n |-> n, act |-> act, user |-> user,
                        outcome |-> "failure", ver |-> 0]}
  /\ UNCHANGED ledger

\* Only a step that leaves a trace is one of the ledger's.
LedgerNext ==
  /\ <<ledger, log>>' # <<ledger, log>>
  /\ \E id \in Ids, user \in Users :
       \/ \E t \in LifeCycle : Store(id, user, t)
       \/ user \notin Unrecorded /\ View(id, user)
       \/ user \notin Unrecorded
          /\ \E act \in {t[2] : t \in LifeCycle} \cup {"VIEW"} : Refuse(id, user, act)

LedgerSpec == LedgerInit /\ [][LedgerNext]_<<ledger, log>>

=============================================================================
