----------------------------- MODULE Delegation -----------------------------
(***************************************************************************)
(* Who asks whom on whose behalf.  A user's request carries a ZITADEL      *)
(* session; payment-service and instruction-service hold sessions of their *)
(* own (service_identity.py), which they present when they call each other *)
(* or authorization-service, with the token they were called with in       *)
(* X-On-Behalf-Of.  Every token is looked up in ZITADEL where it arrives,  *)
(* one call after the other; sessions expire, ZITADEL is out of reach for  *)
(* a while, services restart and several requests log one service in.      *)
(***************************************************************************)
EXTENDS Integers, Sequences, FiniteSets

CONSTANTS
  Users,
  AuthorizedServices,             \* AUTHORIZED_SERVICE_USER_IDS of authorization-service
  Requests,                       \* requests of users, each sent once
  StartAttempts, CallAttempts,    \* of a login: 5 at the start, 3 within a request
  Kinds,                          \* what each may be: of the domain of Plan
  Metadata,                       \* what ZITADEL knows of each user and service account
  MaxUserSessions,                \* bounds: logins of users,
  MaxOutages, MaxLosses           \* outages of ZITADEL; expiries and restarts

Payment     == "svc-payment"
Instruction == "svc-instruction"
Services    == {Payment, Instruction}
Nobody      == ""

ASSUME DelegationAssumption ==
  /\ Users \cap (Services \cup {Nobody}) = {}
  /\ Metadata \in [Users \cup Services -> SUBSET {"title", "roles", "marker", "foreign lob"}]
  /\ StartAttempts \in Nat \ {0} /\ CallAttempts \in Nat \ {0}
  /\ MaxUserSessions \in Nat /\ MaxOutages \in Nat /\ MaxLosses \in Nat

VARIABLES
  owners,           \* whose the sessions are that ZITADEL has given out, in their order
  alive,            \* the sessions that have not expired
  reachable,        \* ZITADEL answers
  identity,         \* the session a service holds (_session_token, _session_id), or None
  boot,             \* attempts of the login in lifespan(), or Up
  request,
  outages, losses

vars == <<owners, alive, reachable, identity, boot, request, outages, losses>>

None == 0

Up == 99

Sessions == 1..Len(owners)

-----------------------------------------------------------------------------
(* What a request makes the services ask.                                  *)

\* decide: evaluate at authorization-service.  read and use: call instruction-service on
\* behalf of the user, which decides VIEW and USE.  context: read it as the service alone.
\* list: the eligible approvers, which authorization-service gives a service.  To submit,
\* approve or reject a payment takes the first two steps of a creation.
Plan ==
  [instruction |-> <<"decide">>,
   create      |-> <<"read", "decide", "use">>,
   approvers   |-> <<"context", "list">>]

ASSUME KindsAssumption == \A q \in Requests : Kinds[q] \subseteq DOMAIN Plan

Idle ==
  [kind |-> "instruction", user |-> Nobody, session |-> None, todo |-> <<>>, st |-> "idle",
   at |-> Instruction, bearer |-> None, onBehalfOf |-> None, subject |-> Nobody,
   tries |-> 0, service |-> None, checked |-> None, made |-> {}]

\* Every way a request ends; the client sees an answer or an error.
Ended(r, how) == [Idle EXCEPT !.kind = r.kind, !.user = r.user, !.st = how, !.made = r.made]

\* A decision: the service that asked for it, whether it was itself called on behalf of the
\* user, whose rights were decided on, in whose name the policy was told the call came, and
\* who the events are recorded for.
Decision(hop, by, delegated, principal, delegate, recorded) ==
  [hop |-> hop, by |-> by, delegated |-> delegated, principal |-> principal,
   delegate |-> delegate, recorded |-> recorded]

Decisions ==
  [hop : {"read", "decide", "use", "context", "list"}, by : Services, delegated : BOOLEAN,
   principal : Users \cup Services, delegate : Services, recorded : Users \cup Services]

-----------------------------------------------------------------------------
(* Service identity.                                                       *)

\* POST /v2/sessions by a service: the session is stored, or the attempt fails and what
\* is stored is wiped, also what another request has obtained meanwhile.
LoginSucceeds(s) ==
  /\ reachable
  /\ owners' = Append(owners, s)
  /\ alive' = alive \cup {Len(owners) + 1}
  /\ identity' = [identity EXCEPT ![s] = Len(owners) + 1]

LoginFails(s) ==
  /\ ~reachable
  /\ identity' = [identity EXCEPT ![s] = None]
  /\ UNCHANGED <<owners, alive>>

\* lifespan(): requests are served when the login has succeeded or has been given up.
Start(s) ==
  /\ boot[s] # Up
  /\ \/ LoginSucceeds(s) /\ boot' = [boot EXCEPT ![s] = Up]
     \/ /\ LoginFails(s)
        /\ boot' = [boot EXCEPT ![s] = IF @ + 1 < StartAttempts THEN @ + 1 ELSE Up]
  /\ UNCHANGED <<reachable, request, outages, losses>>

\* A user logs in (ZitadelLoginClient).
Login(u) ==
  /\ reachable
  /\ Cardinality({n \in Sessions : owners[n] \in Users}) < MaxUserSessions
  /\ owners' = Append(owners, u)
  /\ alive' = alive \cup {Len(owners) + 1}
  /\ UNCHANGED <<reachable, identity, boot, request, outages, losses>>

-----------------------------------------------------------------------------
(* A token that arrives is looked up in ZITADEL: it is no JWT and userinfo *)
(* does not know it, so its session is asked for, and then the metadata    *)
(* of the session's user.                                                  *)

SessionFound(n) == n # None /\ reachable /\ n \in alive

MetadataFound(n) == IF reachable THEN Metadata[owners[n]] ELSE {}

\* A subject has a title and at least one role ...
HasSubject(metadata) == {"title", "roles"} \subseteq metadata

\* ... and for instruction-service a line of business it knows, if any.
HasInstructionSubject(metadata) ==
  HasSubject(metadata) /\ "foreign lob" \notin metadata

\* The answer of subject_from_bearer_token is a subject and not 401.
Valid(n) == SessionFound(n) /\ HasSubject(MetadataFound(n))

ValidAt(service, n) ==
  IF service = Instruction THEN SessionFound(n) /\ HasInstructionSubject(MetadataFound(n))
                           ELSE Valid(n)

Become(q, r) ==
  /\ request' = [request EXCEPT ![q] = r]
  /\ UNCHANGED <<owners, alive, reachable, identity, boot, outages, losses>>

\* A request reaches a service's route, with or without X-On-Behalf-Of.
Arrive(r, service, bearer, onBehalfOf) ==
  IF boot[service] # Up THEN Ended(r, "failed")
  ELSE [r EXCEPT !.st = "bearer", !.at = service, !.bearer = bearer,
                 !.onBehalfOf = onBehalfOf, !.subject = Nobody, !.tries = 0]

Send(q, kind, n) ==
  LET service == IF kind = "instruction" THEN Instruction ELSE Payment
  IN  /\ request[q].st = "idle"
      /\ n \in Sessions /\ owners[n] \in Users
      /\ boot[service] = Up
      /\ Become(q, Arrive([Idle EXCEPT !.kind = kind, !.user = owners[n], !.session = n,
                                       !.todo = Plan[kind]], service, n, None))

\* Mutant of SubjectOf: the subject is the service the call comes from.
SubjectOfBearer(r) == owners[r.bearer]

\* get_subject: in a delegated call the user's, after both tokens have been looked up.
SubjectOf(r) == owners[IF r.onBehalfOf = None THEN r.bearer ELSE r.onBehalfOf]

CheckBearer(q) ==
  LET r == request[q]
  IN  /\ r.st = "bearer"
      /\ Become(q, IF ~ValidAt(r.at, r.bearer) THEN Ended(r, "failed")
                   ELSE IF r.onBehalfOf # None THEN [r EXCEPT !.st = "onBehalfOf"]
                   ELSE [r EXCEPT !.st = "work", !.subject = SubjectOf(r)])

CheckOnBehalfOf(q) ==
  LET r == request[q]
  IN  /\ r.st = "onBehalfOf"
      /\ Become(q, IF ValidAt(r.at, r.onBehalfOf)
                     THEN [r EXCEPT !.st = "work", !.subject = SubjectOf(r)]
                     ELSE Ended(r, "failed"))

-----------------------------------------------------------------------------
(* What a service asks, with the session it holds or without one.          *)

Hop(r) == Head(r.todo)

\* The evaluation of this service: its own decision, or that of a read or a use it got.
Evaluates(r) == r.at = Instruction \/ Hop(r) \in {"decide", "list"}

\* Without a session a request is forwarded with the user's own token, and an evaluation
\* names the subject in its body and carries no credentials.
Ask(r, own) ==
  IF Evaluates(r) THEN [r EXCEPT !.st = "caller", !.service = own]
  ELSE IF Hop(r) = "context" THEN Arrive(r, Instruction, own, None)
  ELSE IF own = None THEN Arrive(r, Instruction, r.session, None)
                     ELSE Arrive(r, Instruction, own, r.session)

\* Mutant of LoggedIn: the login is attempted until it succeeds.
LoggedInAtLast(q, r) ==
  \/ LoginSucceeds(r.at) /\ request' = [request EXCEPT ![q] = Ask(r, Len(owners) + 1)]
  \/ LoginFails(r.at) /\ UNCHANGED request

\* Mutant of LoggedIn: one attempt too many.
LoggedInOnceMore(q, r) ==
  \/ LoginSucceeds(r.at) /\ request' = [request EXCEPT ![q] = Ask(r, Len(owners) + 1)]
  \/ /\ LoginFails(r.at)
     /\ request' = [request EXCEPT
          ![q] = IF r.tries < CallAttempts THEN [r EXCEPT !.tries = @ + 1] ELSE Ask(r, None)]

\* ensure_logged_in without a session: an attempt, and after the last one without.
LoggedIn(q, r) ==
  \/ LoginSucceeds(r.at) /\ request' = [request EXCEPT ![q] = Ask(r, Len(owners) + 1)]
  \/ /\ LoginFails(r.at)
     /\ request' = [request EXCEPT
          ![q] = IF r.tries + 1 < CallAttempts THEN [r EXCEPT !.tries = @ + 1]
                                               ELSE Ask(r, None)]

Work(q) ==
  LET r == request[q]
  IN  /\ r.st = "work"
      /\ \/ r.tries = 0 /\ identity[r.at] # None /\ Become(q, Ask(r, identity[r.at]))
         \/ /\ r.tries > 0 \/ identity[r.at] = None
            /\ LoggedIn(q, r)
            /\ UNCHANGED <<reachable, boot, outages, losses>>

-----------------------------------------------------------------------------
(* authorization-service: get_service_caller, then the subject of the question. *)

CheckCaller(q) ==
  LET r == request[q]
  IN  /\ r.st = "caller"
      /\ Become(q, IF Valid(r.service) /\ owners[r.service] \in AuthorizedServices
                     THEN [r EXCEPT !.st = IF Hop(r) = "list" THEN "answer" ELSE "again"]
                     ELSE Ended(r, "failed"))

\* subject_from_obo_call looks the service's token up once more, and then the other one: it is
\* the token that the asking service was called with, not the one in its X-On-Behalf-Of.
CheckDelegate(q) ==
  LET r == request[q]
  IN  /\ r.st = "again"
      /\ Become(q, IF Valid(r.service)
                     THEN [r EXCEPT !.st = "principal", !.checked = r.service]
                     ELSE Ended(r, "failed"))

CheckPrincipal(q) ==
  LET r == request[q]
  IN  /\ r.st = "principal"
      /\ Become(q,
           IF Valid(r.bearer)
             THEN [r EXCEPT !.st = "answer",
                            !.made = @ \cup {Decision(Hop(r), r.at, r.onBehalfOf # None,
                                                      owners[r.bearer], owners[r.checked],
                                                      r.subject)}]
             ELSE Ended(r, "failed"))

\* The answer travels back: a refusal ends the request, otherwise the service that got
\* it from the user goes on with its plan.
Answer(q) ==
  LET r == request[q]
      rest == Tail(r.todo)
  IN  /\ r.st = "answer"
      /\ \/ Become(q, Ended(r, "refused"))
         \/ Become(q, IF rest = <<>> THEN Ended(r, "answered")
                      ELSE [r EXCEPT !.st = "work", !.todo = rest, !.at = Payment,
                                     !.bearer = r.session, !.onBehalfOf = None,
                                     !.subject = r.user, !.tries = 0,
                                     !.service = None, !.checked = None])

-----------------------------------------------------------------------------
(* What goes wrong.                                                        *)

Lose == losses < MaxLosses /\ losses' = losses + 1

Expire(n) ==
  /\ Lose /\ n \in alive
  /\ alive' = alive \ {n}
  /\ UNCHANGED <<owners, reachable, identity, boot, request, outages>>

Outage ==
  /\ reachable /\ outages < MaxOutages
  /\ reachable' = FALSE
  /\ outages' = outages + 1
  /\ UNCHANGED <<owners, alive, identity, boot, request, losses>>

Recover ==
  /\ ~reachable
  /\ reachable' = TRUE
  /\ UNCHANGED <<owners, alive, identity, boot, request, outages, losses>>

\* A service forgets its session; the requests it works on fail, and one that it has
\* passed on is carried out there and goes no further.
Restart(s) ==
  /\ Lose /\ boot[s] = Up
  /\ boot' = [boot EXCEPT ![s] = 0]
  /\ identity' = [identity EXCEPT ![s] = None]
  /\ request' = [q \in Requests |->
       LET r == request[q]
       IN  IF r.todo = <<>> THEN r
           ELSE IF r.at = s THEN Ended(r, "failed")
           ELSE IF s = Payment /\ r.kind # "instruction" THEN [r EXCEPT !.todo = <<Hop(r)>>]
           ELSE r]
  /\ UNCHANGED <<owners, alive, reachable, outages>>

-----------------------------------------------------------------------------

Init ==
  /\ owners = <<>> /\ alive = {}
  /\ reachable = TRUE
  /\ identity = [s \in Services |-> None]
  /\ boot = [s \in Services |-> 0]
  /\ request = [q \in Requests |-> Idle]
  /\ outages = 0 /\ losses = 0

Step(q) ==
  \/ CheckBearer(q) \/ CheckOnBehalfOf(q) \/ Work(q)
  \/ CheckCaller(q) \/ CheckDelegate(q) \/ CheckPrincipal(q) \/ Answer(q)

Next ==
  \/ \E s \in Services : Start(s) \/ Restart(s)
  \/ \E u \in Users : Login(u)
  \/ \E q \in Requests, n \in Sessions : \E kind \in Kinds[q] : Send(q, kind, n)
  \/ \E q \in Requests : Step(q)
  \/ \E n \in Sessions : Expire(n)
  \/ Outage \/ Recover

Spec == Init /\ [][Next]_vars

\* The event loops run every request that is ready; nothing is assumed of ZITADEL.
FairSpec == Spec /\ \A q \in Requests : WF_vars(Step(q))

-----------------------------------------------------------------------------

Ends == {"idle", "answered", "refused", "failed"}

\* owners, identity and requests keep their types; a service holds a session of its own.
TypeOK ==
  /\ owners \in Seq(Users \cup Services) /\ alive \subseteq Sessions
  /\ reachable \in BOOLEAN /\ outages \in 0..MaxOutages /\ losses \in 0..MaxLosses
  /\ \A s \in Services : /\ identity[s] # None => owners[identity[s]] = s
                         /\ boot[s] \in 0..(StartAttempts - 1) \cup {Up}
  /\ \A q \in Requests :
       /\ request[q].at \in Services /\ request[q].tries \in 0..(CallAttempts - 1)
       /\ {request[q].session, request[q].bearer, request[q].onBehalfOf,
           request[q].service, request[q].checked} \subseteq {None} \cup Sessions
       /\ request[q].made \subseteq Decisions
       /\ request[q].st \in Ends <=> request[q].todo = <<>>

\* However logins race, fail and are undone, and whichever way a hop was forwarded: a
\* decision is asked for by an authorized service in its own name and recorded for the user
\* who sent the request (for payment-service where it reads as itself).  Whose rights it is
\* about depends on the way alone: payment-service's when it called for itself or on the
\* user's behalf, the user's when it asked itself or had no session and forwarded the user's
\* token.  (service.py _evaluate_policy, ilm_client.py _auth_headers, auth.py
\* subject_from_obo_call; the texts want the user's in a delegated call too, see
\* UseIsCheckedAsWritten.)
DecisionsAreAttributed ==
  \A q \in Requests : \A d \in request[q].made :
    /\ d.delegate = d.by /\ d.by \in AuthorizedServices
    /\ d.recorded = IF d.hop = "context" THEN Payment ELSE request[q].user
    /\ d.principal = IF d.delegated \/ d.hop = "context" THEN Payment ELSE request[q].user

\* Every request that was accepted is answered, also when ZITADEL never comes back: each
\* login in its way gives up (service_identity.py login).
EveryRequestEnds ==
  \A q \in Requests : request[q].st # "idle" ~> request[q].st \in Ends

-----------------------------------------------------------------------------
(* What the repository's texts say and the code does not do.               *)

\* policies/instruction/lifecycle.rego:176-184, of USE: "Two independent checks must both
\* pass: 1. SERVICE CHECK - the calling service account must hold the INSTRUCTION_MARKER
\* role. [...] 2. USER CHECK - the human on whose behalf the service is acting must have at
\* least read access".  A use that payment-service makes on behalf of a user is put to the
\* policy as the call of an account with the role, and with the rights of that user.
UseIsCheckedAsWritten ==
  \A q \in Requests : \A d \in request[q].made :
    d.hop = "use" /\ d.delegated =>
      "marker" \in Metadata[d.delegate] /\ d.principal = request[q].user

=============================================================================
