--------------------------- MODULE Delegation_proofs ---------------------------
(***************************************************************************)
(* Theorems about Delegation, for every set of users, requests and         *)
(* authorized services, every directory and every bound: type correctness, *)
(* and the attribution of every decision.                                  *)
(***************************************************************************)
EXTENDS Delegation, TLAPS

-----------------------------------------------------------------------------
(* A request, as long as n sessions have been given out.                   *)

AllHops == {"read", "decide", "use", "context", "list"}

HopsOf(kind) ==
  IF kind = "instruction" THEN {"decide"}
  ELSE IF kind = "create" THEN {"read", "decide", "use"} ELSE {"context", "list"}

Stages == {"bearer", "onBehalfOf", "work", "caller", "again", "principal", "answer"}

Request(n) ==
  [kind : DOMAIN Plan, user : Users \cup {Nobody}, session : 0..n,
   todo : Seq(AllHops), st : Ends \cup Stages,
   at : Services, bearer : 0..n, onBehalfOf : 0..n,
   subject : Users \cup Services \cup {Nobody}, tries : 0..(CallAttempts - 1),
   service : 0..n, checked : 0..n, made : SUBSET Decisions]

\* The tokens a service has been called with.  A service that is not called by the user
\* is called by payment-service, for the user unless it only wants to know the context.
Credentials(r, O) ==
  \/ /\ r.bearer = r.session /\ r.onBehalfOf = None
     /\ \/ r.at = Payment \/ r.kind = "instruction"
        \/ Hop(r) \in {"read", "use"}
  \/ /\ r.at = Instruction /\ r.kind # "instruction" /\ Hop(r) = "context"
     /\ r.onBehalfOf = None /\ (r.bearer = None \/ O[r.bearer] = Payment)
  \/ /\ r.at = Instruction /\ r.kind # "instruction" /\ Hop(r) \in {"read", "use"}
     /\ r.onBehalfOf = r.session /\ r.bearer # None /\ O[r.bearer] = Payment

\* Whom the calls of this service are recorded for.
Recorded(r) == IF r.at = Instruction /\ Hop(r) = "context" THEN Payment ELSE r.user

\* What holds while a service works on the request.
InProgress(r, O) ==
  /\ r.session # None /\ O[r.session] = r.user /\ r.user \in Users
  /\ r.todo \in Seq(HopsOf(r.kind))
  /\ r.kind = "instruction" => Len(r.todo) = 1 /\ r.at = Instruction
  /\ Credentials(r, O)
  /\ r.st = "onBehalfOf" => r.onBehalfOf # None
  /\ r.st \notin {"bearer", "onBehalfOf"} => r.subject = Recorded(r)
  /\ r.st \in {"caller", "again", "principal", "answer"} => Evaluates(r)
  /\ r.st = "caller" => r.service = None \/ O[r.service] = r.at
  /\ r.st \in {"again", "principal"} =>
       r.service # None /\ O[r.service] = r.at /\ r.at \in AuthorizedServices
  /\ r.st = "principal" => r.checked = r.service

Attributed(r) ==
  \A d \in r.made :
    /\ d.delegate = d.by /\ d.by \in AuthorizedServices
    /\ d.recorded = IF d.hop = "context" THEN Payment ELSE r.user
    /\ d.principal = IF d.delegated \/ d.hop = "context" THEN Payment ELSE r.user

Sound(r, O) ==
  /\ r \in Request(Len(O))
  /\ r.st \in Ends <=> r.todo = <<>>
  /\ r.st \in Stages => InProgress(r, O)
  /\ Attributed(r)

\* A service holds a session of its own.
Held(O) ==
  \A s \in Services : identity[s] \in 0..Len(O) /\ (identity[s] # None => O[identity[s]] = s)

DelegationInv ==
  /\ owners \in Seq(Users \cup Services) /\ alive \subseteq Sessions
  /\ reachable \in BOOLEAN /\ outages \in 0..MaxOutages /\ losses \in 0..MaxLosses
  /\ boot \in [Services -> 0..(StartAttempts - 1) \cup {Up}]
  /\ DOMAIN identity = Services /\ Held(owners)
  /\ \A q \in Requests : Sound(request[q], owners)
  /\ DOMAIN request = Requests

-----------------------------------------------------------------------------
(* What the operators on requests keep.                                    *)

LEMMA Distinct ==
  /\ Payment # Instruction /\ Payment # Nobody /\ Instruction # Nobody
  /\ \A u \in Users : u # Payment /\ u # Instruction /\ u # Nobody
<1>1. Payment # Instruction /\ Payment # Nobody /\ Instruction # Nobody
  BY DEF Payment, Instruction, Nobody
<1>2. Users \cap (Services \cup {Nobody}) = {}
  BY DelegationAssumption
<1> QED BY <1>1, <1>2 DEF Services

LEMMA PlanDomain == DOMAIN Plan = {"instruction", "create", "approvers"}
BY DEF Plan

LEMMA Bounds ==
  /\ StartAttempts \in Nat \ {0} /\ CallAttempts \in Nat \ {0}
  /\ MaxUserSessions \in Nat /\ MaxOutages \in Nat /\ MaxLosses \in Nat
BY DelegationAssumption

LEMMA TriesType == 0 \in 0..(CallAttempts - 1)
BY Bounds

LEMMA IdleType ==
  ASSUME NEW n \in Nat
  PROVE  Idle \in Request(n)
<1>1. /\ "instruction" \in DOMAIN Plan /\ "idle" \in Ends /\ Instruction \in Services
      /\ None \in 0..n /\ 0 \in 0..(CallAttempts - 1) /\ <<>> \in Seq(AllHops)
      /\ {} \in SUBSET Decisions
  BY PlanDomain, TriesType DEF Ends, Services, None
<1> QED BY ONLY <1>1 DEF Idle, Request

LEMMA HopType ==
  ASSUME NEW r, NEW S, r.todo \in Seq(S), r.todo # <<>>
  PROVE  Hop(r) \in S
BY DEF Hop

LEMMA RestType ==
  ASSUME NEW S, NEW s \in Seq(S), s # <<>>
  PROVE  Tail(s) \in Seq(S) /\ (Len(s) = 1 => Tail(s) = <<>>)
<1>1. Tail(s) \in Seq(S) /\ Len(Tail(s)) = Len(s) - 1
  OBVIOUS
<1>2. ASSUME Len(s) = 1 PROVE Tail(s) = <<>>
  <2> DEFINE e == Tail(s)
  <2>1. e \in Seq(S) /\ Len(e) = 0
    BY <1>1, <1>2
  <2> HIDE DEF e
  <2>2. e = <<>>
    BY <2>1
  <2> QED BY <2>2 DEF e
<1> QED BY <1>1, <1>2

LEMMA HopKinds ==
  /\ HopsOf("instruction") = {"decide"}
  /\ \A kind \in DOMAIN Plan : HopsOf(kind) \subseteq AllHops
BY DEF HopsOf, AllHops, Plan

LEMMA PlanType ==
  ASSUME NEW kind \in DOMAIN Plan
  PROVE  /\ Plan[kind] \in Seq(HopsOf(kind)) /\ Plan[kind] \in Seq(AllHops)
         /\ Plan[kind] # <<>> /\ (kind = "instruction" => Len(Plan[kind]) = 1)
<1>1. CASE kind = "instruction"
  <2>1. Plan[kind] = <<"decide">> /\ HopsOf(kind) = {"decide"}
    BY <1>1 DEF Plan, HopsOf
  <2>2. <<"decide">> \in Seq({"decide"}) /\ <<"decide">> \in Seq(AllHops)
    BY DEF AllHops
  <2> QED BY <2>1, <2>2
<1>2. CASE kind = "create"
  <2>1. /\ Plan[kind] = <<"read", "decide", "use">>
        /\ HopsOf(kind) = {"read", "decide", "use"}
    BY <1>2 DEF Plan, HopsOf
  <2>2. /\ <<"read", "decide", "use">> \in Seq({"read", "decide", "use"})
        /\ <<"read", "decide", "use">> \in Seq(AllHops)
    BY DEF AllHops
  <2> QED BY <1>2, <2>1, <2>2
<1>3. CASE kind = "approvers"
  <2>1. Plan[kind] = <<"context", "list">> /\ HopsOf(kind) = {"context", "list"}
    BY <1>3 DEF Plan, HopsOf
  <2>2. <<"context", "list">> \in Seq({"context", "list"}) /\ <<"context", "list">> \in Seq(AllHops)
    BY DEF AllHops
  <2> QED BY <1>3, <2>1, <2>2
<1> QED BY <1>1, <1>2, <1>3, PlanDomain

LEMMA EndedSound ==
  ASSUME NEW O, NEW r \in Request(Len(O)), Len(O) \in Nat, Attributed(r),
         NEW how \in Ends
  PROVE  Sound(Ended(r, how), O)
<1> DEFINE e == Ended(r, how)
<1>1. /\ e \in Request(Len(O)) /\ e.st = how /\ e.todo = <<>> /\ e.made = r.made
      /\ e.user = r.user /\ e.kind = r.kind
  BY IdleType DEF Ended, Idle, Request
<1> HIDE DEF e
<1>2. how \notin Stages
  BY DEF Ends, Stages
<1>3. Sound(e, O)
  BY <1>1, <1>2 DEF Sound, Attributed
<1> QED BY <1>3 DEF e

\* More sessions change nothing about a request.
LEMMA SoundGrows ==
  ASSUME NEW S, NEW O \in Seq(S), NEW x \in S, NEW r, Sound(r, O)
  PROVE  Sound(r, Append(O, x))
<1> DEFINE P == Append(O, x)
<1>1. /\ Len(O) \in Nat /\ Len(P) = Len(O) + 1
      /\ \A k \in 1..Len(O) : P[k] = O[k]
  OBVIOUS
<1> HIDE DEF P
<1>2. r \in Request(Len(P))
  BY <1>1 DEF Sound, Request
<1>3. /\ r.session \in 0..Len(O) /\ r.bearer \in 0..Len(O) /\ r.service \in 0..Len(O)
  BY DEF Sound, Request
<1>4. Credentials(r, O) => Credentials(r, P)
  BY <1>1, <1>3 DEF Credentials, None
<1>5. InProgress(r, O) => InProgress(r, P)
  BY <1>1, <1>3, <1>4 DEF InProgress, None
<1>6. Sound(r, P)
  BY <1>2, <1>5 DEF Sound
<1> QED BY <1>6 DEF P

\* A request that arrives somewhere with the right credentials.
LEMMA ArriveSound ==
  ASSUME NEW O, Len(O) \in Nat, NEW r \in Request(Len(O)), NEW service \in Services,
         NEW bearer \in 0..Len(O), NEW onBehalfOf \in 0..Len(O), Attributed(r),
         r.session # None, O[r.session] = r.user, r.user \in Users,
         r.todo \in Seq(HopsOf(r.kind)), r.todo # <<>>,
         r.kind = "instruction" => Len(r.todo) = 1 /\ service = Instruction,
         Credentials([r EXCEPT !.at = service, !.bearer = bearer, !.onBehalfOf = onBehalfOf], O)
  PROVE  Sound(Arrive(r, service, bearer, onBehalfOf), O)
<1>1. CASE boot[service] # Up
  BY <1>1, EndedSound DEF Arrive, Ends
<1>2. CASE boot[service] = Up
  <2> DEFINE m == [r EXCEPT !.at = service, !.bearer = bearer, !.onBehalfOf = onBehalfOf]
             n == [r EXCEPT !.st = "bearer", !.at = service, !.bearer = bearer,
                            !.onBehalfOf = onBehalfOf, !.subject = Nobody, !.tries = 0]
  <2>1. Arrive(r, service, bearer, onBehalfOf) = n
    BY <1>2 DEF Arrive
  <2>2. n \in Request(Len(O))
    BY TriesType DEF Request, Stages
  <2>3. /\ n.st = "bearer" /\ n.at = service /\ n.bearer = bearer
        /\ n.onBehalfOf = onBehalfOf /\ n.session = r.session /\ n.user = r.user
        /\ n.todo = r.todo /\ n.kind = r.kind /\ n.made = r.made
    BY DEF Request
  <2>4. /\ m.at = service /\ m.bearer = bearer /\ m.onBehalfOf = onBehalfOf
        /\ m.session = r.session /\ m.todo = r.todo /\ m.kind = r.kind
    BY DEF Request
  <2>5. Credentials(m, O)
    OBVIOUS
  <2> HIDE DEF m, n
  <2>6. Credentials(n, O)
    BY <2>3, <2>4, <2>5 DEF Credentials, Hop
  <2>7. InProgress(n, O)
    BY <2>3, <2>6 DEF InProgress
  <2>8. "bearer" \in Stages /\ "bearer" \notin Ends
    BY DEF Stages, Ends
  <2> QED BY <2>1, <2>2, <2>3, <2>7, <2>8 DEF Sound, Attributed
<1> QED BY <1>1, <1>2

\* A service asks with the session it holds, or without one.
LEMMA AskSound ==
  ASSUME NEW O, Len(O) \in Nat, NEW r, Sound(r, O), r.st = "work",
         NEW own \in 0..Len(O), own # None => O[own] = r.at
  PROVE  Sound(Ask(r, own), O)
<1>1. /\ r \in Request(Len(O)) /\ InProgress(r, O) /\ Attributed(r) /\ r.todo # <<>>
  BY DEF Sound, Stages, Ends
<1>2. /\ r.kind \in DOMAIN Plan /\ r.at \in Services /\ r.session \in 0..Len(O)
      /\ r.todo \in Seq(HopsOf(r.kind)) /\ Hop(r) \in HopsOf(r.kind)
  BY <1>1, HopType DEF InProgress, Request
<1>3. CASE Evaluates(r)
  <2> DEFINE n == [r EXCEPT !.st = "caller", !.service = own]
  <2>1. Ask(r, own) = n
    BY <1>3 DEF Ask
  <2>2. n \in Request(Len(O))
    BY <1>1 DEF Request, Stages
  <2>3. /\ n.st = "caller" /\ n.service = own /\ n.at = r.at /\ n.bearer = r.bearer
        /\ n.onBehalfOf = r.onBehalfOf /\ n.session = r.session /\ n.user = r.user
        /\ n.todo = r.todo /\ n.kind = r.kind /\ n.made = r.made /\ n.subject = r.subject
    BY <1>1 DEF Request
  <2> HIDE DEF n
  <2>4. Credentials(n, O)
    BY <1>1, <2>3 DEF InProgress, Credentials, Hop
  <2>5. InProgress(n, O)
    BY <1>1, <1>3, <2>3, <2>4 DEF InProgress, Recorded, Evaluates, Hop
  <2>6. "caller" \in Stages /\ "caller" \notin Ends
    BY DEF Stages, Ends
  <2>7. Sound(n, O)
    BY <1>1, <2>2, <2>3, <2>5, <2>6 DEF Sound, Attributed
  <2> QED BY <2>1, <2>7
<1>4. CASE ~Evaluates(r)
  <2>1. /\ r.at = Payment /\ r.kind # "instruction"
        /\ Hop(r) \in {"read", "use", "context"}
    BY <1>1, <1>2, <1>4, HopKinds, Distinct DEF Evaluates, InProgress, Services, AllHops
  <2>2. Instruction \in Services /\ None \in 0..Len(O)
    BY DEF Services, None
  <2> DEFINE With(b, o) == [r EXCEPT !.at = Instruction, !.bearer = b, !.onBehalfOf = o]
  <2>3. ASSUME NEW b \in 0..Len(O), NEW o \in 0..Len(O)
        PROVE  /\ With(b, o).at = Instruction /\ With(b, o).bearer = b
               /\ With(b, o).onBehalfOf = o /\ With(b, o).session = r.session
               /\ With(b, o).todo = r.todo /\ With(b, o).kind = r.kind
    BY <1>1 DEF Request
  <2>4. ASSUME NEW b \in 0..Len(O), NEW o \in 0..Len(O), Credentials(With(b, o), O)
        PROVE  Sound(Arrive(r, Instruction, b, o), O)
    BY <1>1, <1>2, <2>1, <2>2, <2>4, ArriveSound DEF InProgress
  <2> HIDE DEF With
  <2>5. CASE Hop(r) = "context"
    <3>1. Credentials(With(own, None), O)
      BY <2>1, <2>2, <2>3, <2>5 DEF Credentials, Hop
    <3>2. Ask(r, own) = Arrive(r, Instruction, own, None)
      BY <1>4, <2>5 DEF Ask
    <3> QED BY <2>2, <2>4, <3>1, <3>2
  <2>6. CASE Hop(r) # "context" /\ own = None
    <3>1. Credentials(With(r.session, None), O)
      BY <1>2, <2>1, <2>2, <2>3, <2>6 DEF Credentials, Hop
    <3>2. Ask(r, own) = Arrive(r, Instruction, r.session, None)
      BY <1>4, <2>6 DEF Ask
    <3> QED BY <1>2, <2>2, <2>4, <3>1, <3>2
  <2>7. CASE Hop(r) # "context" /\ own # None
    <3>1. Credentials(With(own, r.session), O)
      BY <1>2, <2>1, <2>2, <2>3, <2>7 DEF Credentials, Hop
    <3>2. Ask(r, own) = Arrive(r, Instruction, own, r.session)
      BY <1>4, <2>7 DEF Ask
    <3> QED BY <1>2, <2>4, <3>1, <3>2
  <2> QED BY <2>5, <2>6, <2>7
<1> QED BY <1>3, <1>4

-----------------------------------------------------------------------------
(* Type correctness and attribution, as one inductive invariant.           *)

LEMMA SessionsAre == owners \in Seq(Users \cup Services) => Len(owners) \in Nat
OBVIOUS

\* A step that changes one request only.
LEMMA BecomeInv ==
  ASSUME DelegationInv, NEW q \in Requests, NEW r, Become(q, r), Sound(r, owners)
  PROVE  DelegationInv'
<1>1. /\ request' = [request EXCEPT ![q] = r]
      /\ UNCHANGED <<owners, alive, reachable, identity, boot, outages, losses>>
  BY DEF Become
<1>2. \A p \in Requests : Sound(request'[p], owners)
  BY <1>1 DEF DelegationInv
<1> QED BY <1>1, <1>2 DEF DelegationInv, Sessions, Held

\* A session more changes nothing about the requests and the sessions held.
LEMMA SessionInv ==
  ASSUME DelegationInv, NEW u \in Users \cup Services, owners' = Append(owners, u),
         alive' = alive \cup {Len(owners) + 1}
  PROVE  /\ owners' \in Seq(Users \cup Services) /\ alive' \subseteq 1..Len(owners')
         /\ Len(owners') = Len(owners) + 1 /\ owners'[Len(owners')] = u
         /\ Held(owners')
         /\ \A r : Sound(r, owners) => Sound(r, owners')
<1>1. owners \in Seq(Users \cup Services) /\ alive \subseteq 1..Len(owners)
  BY DEF DelegationInv, Sessions
<1>2. /\ owners' \in Seq(Users \cup Services) /\ Len(owners') = Len(owners) + 1
      /\ owners'[Len(owners')] = u /\ \A k \in 1..Len(owners) : owners'[k] = owners[k]
      /\ Len(owners) \in Nat
  BY <1>1
<1>3. alive' \subseteq 1..Len(owners')
  <2>1. 1..Len(owners) \subseteq 1..Len(owners') /\ Len(owners) + 1 \in 1..Len(owners')
    BY <1>2
  <2> QED BY <1>1, <2>1
<1>4. \A r : Sound(r, owners) => Sound(r, owners')
  BY <1>1, SoundGrows
<1>5. Held(owners')
  <2>1. ASSUME NEW s \in Services
        PROVE  /\ identity[s] \in 0..Len(owners')
               /\ identity[s] # None => owners'[identity[s]] = s
    <3>1. /\ identity[s] \in 0..Len(owners)
          /\ identity[s] # None => owners[identity[s]] = s
      BY DEF DelegationInv, Held
    <3> QED BY <1>2, <3>1 DEF None
  <2> QED BY <2>1 DEF Held
<1> QED BY <1>2, <1>3, <1>4, <1>5

LEMMA LoginInv ==
  ASSUME DelegationInv, NEW s \in Services, LoginSucceeds(s) \/ LoginFails(s)
  PROVE  /\ owners' \in Seq(Users \cup Services) /\ alive' \subseteq Sessions'
         /\ DOMAIN identity' = Services /\ Held(owners)'
         /\ \A r : Sound(r, owners) => Sound(r, owners')
<1>1. CASE LoginSucceeds(s)
  <2>1. /\ owners' \in Seq(Users \cup Services) /\ alive' \subseteq 1..Len(owners')
        /\ Len(owners') = Len(owners) + 1 /\ owners'[Len(owners')] = s
        /\ Held(owners')
        /\ \A r : Sound(r, owners) => Sound(r, owners')
    BY <1>1, SessionInv DEF LoginSucceeds
  <2>2. /\ identity' = [identity EXCEPT ![s] = Len(owners')]
        /\ Len(owners') \in 0..Len(owners')
    BY <1>1, <2>1, SessionsAre DEF LoginSucceeds, DelegationInv
  <2>3. \A v \in Services :
          /\ identity'[v] \in 0..Len(owners')
          /\ identity'[v] # None => owners'[identity'[v]] = v
    BY <2>1, <2>2 DEF DelegationInv, Held
  <2> QED BY <2>1, <2>2, <2>3 DEF Held, Sessions, DelegationInv
<1>2. CASE LoginFails(s)
  <2>1. identity' = [identity EXCEPT ![s] = None] /\ UNCHANGED <<owners, alive>>
    BY <1>2 DEF LoginFails
  <2>2. None \in 0..Len(owners)
    BY SessionsAre DEF None, DelegationInv
  <2>3. \A v \in Services :
          /\ identity'[v] \in 0..Len(owners')
          /\ identity'[v] # None => owners'[identity'[v]] = v
    BY <2>1, <2>2 DEF DelegationInv, Held
  <2> QED BY <2>1, <2>3 DEF Held, Sessions, DelegationInv
<1> QED BY <1>1, <1>2

LEMMA InitInv == Init => DelegationInv
<1> SUFFICES ASSUME Init PROVE DelegationInv
  OBVIOUS
<1>1. owners = <<>> /\ Len(owners) = 0
  BY DEF Init
<1>2. 0 \in 0..MaxOutages /\ 0 \in 0..MaxLosses /\ 0 \in 0..(StartAttempts - 1)
  BY Bounds
<1>3. Held(owners)
  BY <1>1 DEF Init, Held, None
<1>4. Sound(Idle, owners)
  <2>1. Idle \in Request(0)
    BY IdleType
  <2>2. Idle.st = "idle" /\ Idle.todo = <<>> /\ Idle.made = {}
    BY DEF Idle
  <2> QED BY <1>1, <2>1, <2>2 DEF Sound, Ends, Stages, Attributed
<1>5. \A q \in Requests : Sound(request[q], owners)
  BY <1>4 DEF Init
<1> QED BY <1>1, <1>2, <1>3, <1>5 DEF Init, DelegationInv

LEMMA StartInv ==
  ASSUME DelegationInv, NEW s \in Services, Start(s)
  PROVE  DelegationInv'
<1>1. LoginSucceeds(s) \/ LoginFails(s)
  BY DEF Start
<1>2. boot' \in [Services -> 0..(StartAttempts - 1) \cup {Up}]
  BY Bounds DEF Start, DelegationInv, Up
<1>3. UNCHANGED <<reachable, request, outages, losses>>
  BY DEF Start
<1> QED BY <1>1, <1>2, <1>3, LoginInv DEF DelegationInv

LEMMA UserLoginInv ==
  ASSUME DelegationInv, NEW u \in Users, Login(u)
  PROVE  DelegationInv'
<1>1. /\ owners' = Append(owners, u) /\ alive' = alive \cup {Len(owners) + 1}
      /\ UNCHANGED <<reachable, identity, boot, request, outages, losses>>
  BY DEF Login
<1>2. /\ owners' \in Seq(Users \cup Services) /\ alive' \subseteq 1..Len(owners')
      /\ Held(owners')
      /\ \A r : Sound(r, owners) => Sound(r, owners')
  BY <1>1, SessionInv
<1> QED BY <1>1, <1>2 DEF DelegationInv, Sessions, Held

-----------------------------------------------------------------------------
(* The steps of a request.                                                 *)

LEMMA SendInv ==
  ASSUME DelegationInv, NEW q \in Requests, NEW n \in Sessions, NEW kind \in Kinds[q],
         Send(q, kind, n)
  PROVE  DelegationInv'
<1> DEFINE service == IF kind = "instruction" THEN Instruction ELSE Payment
           r == [Idle EXCEPT !.kind = kind, !.user = owners[n], !.session = n,
                             !.todo = Plan[kind]]
<1>1. /\ owners[n] \in Users /\ boot[service] = Up
      /\ Become(q, Arrive(r, service, n, None))
  BY DEF Send
<1>2. kind \in DOMAIN Plan
  BY KindsAssumption
<1>3. Len(owners) \in Nat /\ n \in 1..Len(owners) /\ None \in 0..Len(owners)
  BY DEF DelegationInv, Sessions, None
<1>4. Idle \in Request(Len(owners))
  BY <1>3, IdleType
<1>5. r \in Request(Len(owners))
  <2>1. n \in 0..Len(owners) /\ Plan[kind] \in Seq(AllHops)
    BY <1>2, <1>3, PlanType
  <2> QED BY <1>1, <1>2, <1>4, <2>1 DEF Request
<1>6. /\ r.kind = kind /\ r.user = owners[n] /\ r.session = n /\ r.todo = Plan[kind]
      /\ r.made = {}
  BY <1>4 DEF Request, Idle
<1>7. Attributed(r)
  BY <1>6 DEF Attributed
<1> DEFINE m == [r EXCEPT !.at = service, !.bearer = n, !.onBehalfOf = None]
<1>8. /\ m.at = service /\ m.bearer = n /\ m.onBehalfOf = None /\ m.session = n
      /\ m.kind = kind /\ m.todo = Plan[kind]
  BY <1>5, <1>6 DEF Request
<1>9. service \in Services /\ (kind = "instruction" => service = Instruction)
      /\ (kind # "instruction" => service = Payment)
  BY DEF Services
<1>10. Credentials(m, owners)
  <2> HIDE DEF m, service, r
  <2> QED BY <1>8, <1>9 DEF Credentials
<1> HIDE DEF r, service
<1>11. Sound(Arrive(r, service, n, None), owners)
  <2>1. r.session # None /\ n \in 0..Len(owners)
    BY <1>3, <1>6 DEF None
  <2> QED BY <1>1, <1>2, <1>3, <1>5, <1>6, <1>7, <1>9, <1>10, <2>1, PlanType, ArriveSound
<1> QED BY <1>1, <1>11, BecomeInv

\* What is known of a request some service works on.
LEMMA Working ==
  ASSUME DelegationInv, NEW q \in Requests, request[q].st \in Stages
  PROVE  LET r == request[q]
         IN  /\ Sound(r, owners) /\ r \in Request(Len(owners)) /\ Len(owners) \in Nat
             /\ InProgress(r, owners) /\ Attributed(r) /\ r.todo # <<>>
             /\ r.st \notin Ends
BY DEF DelegationInv, Sound, Stages, Ends

LEMMA FailedInv ==
  ASSUME DelegationInv, NEW q \in Requests, request[q].st \in Stages, NEW how \in Ends,
         Become(q, Ended(request[q], how))
  PROVE  DelegationInv'
<1>1. Sound(Ended(request[q], how), owners)
  BY Working, EndedSound
<1> QED BY <1>1, BecomeInv

LEMMA StageSound ==
  ASSUME NEW O, Len(O) \in Nat, NEW r, Sound(r, O), r.st \in Stages,
         NEW n \in Request(Len(O)), n.st \in Stages,
         n.kind = r.kind, n.user = r.user, n.session = r.session, n.todo = r.todo,
         n.at = r.at, n.bearer = r.bearer, n.onBehalfOf = r.onBehalfOf, n.made = r.made,
         InProgress(r, O) => InProgress(n, O)
  PROVE  Sound(n, O)
BY DEF Sound, Attributed, Stages, Ends

LEMMA CheckBearerInv ==
  ASSUME DelegationInv, NEW q \in Requests, CheckBearer(q)
  PROVE  DelegationInv'
<1> DEFINE r == request[q]
<1>1. r.st = "bearer" /\ r.st \in Stages
  BY DEF CheckBearer, Stages
<1>2. /\ Sound(r, owners) /\ r \in Request(Len(owners)) /\ Len(owners) \in Nat
      /\ InProgress(r, owners)
  BY <1>1, Working
<1>3. CASE ~ValidAt(r.at, r.bearer)
  BY <1>1, <1>3, FailedInv DEF CheckBearer, Ends
<1>4. CASE ValidAt(r.at, r.bearer) /\ r.onBehalfOf # None
  <2> DEFINE n == [r EXCEPT !.st = "onBehalfOf"]
  <2>1. n \in Request(Len(owners)) /\ n.st \in Stages
    BY <1>2 DEF Request, Stages
  <2>2. /\ n.kind = r.kind /\ n.user = r.user /\ n.session = r.session /\ n.todo = r.todo
        /\ n.at = r.at /\ n.bearer = r.bearer /\ n.onBehalfOf = r.onBehalfOf
        /\ n.made = r.made /\ n.st = "onBehalfOf"
    BY <1>2 DEF Request
  <2>3. Become(q, n)
    BY <1>4 DEF CheckBearer
  <2> HIDE DEF n, r
  <2>4. InProgress(n, owners)
    BY <1>2, <1>4, <2>2 DEF InProgress, Credentials, Hop
  <2>5. Sound(n, owners)
    BY <1>1, <1>2, <2>1, <2>2, <2>4, StageSound
  <2> QED BY <2>3, <2>5, BecomeInv
<1>5. CASE ValidAt(r.at, r.bearer) /\ r.onBehalfOf = None
  <2> DEFINE u == SubjectOf(r)
             n == [r EXCEPT !.st = "work", !.subject = u]
  <2>1. r.bearer # None
    BY <1>5 DEF ValidAt, Valid, SessionFound
  <2>2. u = owners[r.bearer] /\ u \in Users \cup Services
    BY <1>2, <1>5, <2>1 DEF SubjectOf, Request, DelegationInv, None
  <2>3. u = Recorded(r)
    <3>1. r.kind = "instruction" => Hop(r) = "decide"
      BY <1>1, <1>2, HopType, HopKinds, Working DEF InProgress
    <3> HIDE DEF r, u
    <3> QED BY <1>2, <1>5, <2>1, <2>2, <3>1, Distinct DEF InProgress, Credentials, Recorded
  <2> HIDE DEF u
  <2>4. n \in Request(Len(owners)) /\ n.st \in Stages
    BY <1>2, <2>2 DEF Request, Stages
  <2>5. /\ n.kind = r.kind /\ n.user = r.user /\ n.session = r.session /\ n.todo = r.todo
        /\ n.at = r.at /\ n.bearer = r.bearer /\ n.onBehalfOf = r.onBehalfOf
        /\ n.made = r.made /\ n.st = "work" /\ n.subject = u
    BY <1>2 DEF Request
  <2>6. Become(q, n)
    BY <1>5 DEF CheckBearer, u
  <2> HIDE DEF n, r
  <2>7. InProgress(n, owners)
    BY <1>2, <2>3, <2>5 DEF InProgress, Credentials, Hop, Recorded
  <2>8. Sound(n, owners)
    BY <1>1, <1>2, <2>4, <2>5, <2>7, StageSound
  <2> QED BY <2>6, <2>8, BecomeInv
<1> QED BY <1>3, <1>4, <1>5

LEMMA CheckOnBehalfOfInv ==
  ASSUME DelegationInv, NEW q \in Requests, CheckOnBehalfOf(q)
  PROVE  DelegationInv'
<1> DEFINE r == request[q]
<1>1. r.st = "onBehalfOf" /\ r.st \in Stages
  BY DEF CheckOnBehalfOf, Stages
<1>2. /\ Sound(r, owners) /\ r \in Request(Len(owners)) /\ Len(owners) \in Nat
      /\ InProgress(r, owners)
  BY <1>1, Working
<1>3. CASE ~ValidAt(r.at, r.onBehalfOf)
  BY <1>1, <1>3, FailedInv DEF CheckOnBehalfOf, Ends
<1>4. CASE ValidAt(r.at, r.onBehalfOf)
  <2> DEFINE u == SubjectOf(r)
             n == [r EXCEPT !.st = "work", !.subject = u]
  <2>1. r.onBehalfOf # None
    BY <1>1, <1>2 DEF InProgress
  <2>2. u = owners[r.onBehalfOf] /\ u \in Users \cup Services
    BY <1>2, <2>1 DEF SubjectOf, Request, DelegationInv, None
  <2>3. u = Recorded(r)
    BY <1>2, <2>1, <2>2 DEF InProgress, Credentials, Recorded
  <2> HIDE DEF u
  <2>4. n \in Request(Len(owners)) /\ n.st \in Stages
    BY <1>2, <2>2 DEF Request, Stages
  <2>5. /\ n.kind = r.kind /\ n.user = r.user /\ n.session = r.session /\ n.todo = r.todo
        /\ n.at = r.at /\ n.bearer = r.bearer /\ n.onBehalfOf = r.onBehalfOf
        /\ n.made = r.made /\ n.st = "work" /\ n.subject = u
    BY <1>2 DEF Request
  <2>6. Become(q, n)
    BY <1>4 DEF CheckOnBehalfOf, u
  <2> HIDE DEF n, r
  <2>7. InProgress(n, owners)
    BY <1>2, <2>3, <2>5 DEF InProgress, Credentials, Hop, Recorded
  <2>8. Sound(n, owners)
    BY <1>1, <1>2, <2>4, <2>5, <2>7, StageSound
  <2> QED BY <2>6, <2>8, BecomeInv
<1> QED BY <1>3, <1>4

LEMMA WorkInv ==
  ASSUME DelegationInv, NEW q \in Requests, Work(q)
  PROVE  DelegationInv'
<1> DEFINE r == request[q]
<1>1. r.st = "work" /\ r.st \in Stages
  BY DEF Work, Stages
<1>2. /\ Sound(r, owners) /\ r \in Request(Len(owners)) /\ Len(owners) \in Nat
      /\ InProgress(r, owners) /\ r.at \in Services
  BY <1>1, Working DEF Request
<1>3. CASE Become(q, Ask(r, identity[r.at]))
  <2>1. /\ identity[r.at] \in 0..Len(owners)
        /\ identity[r.at] # None => owners[identity[r.at]] = r.at
    BY <1>2 DEF DelegationInv, Held
  <2>2. Sound(Ask(r, identity[r.at]), owners)
    BY <1>1, <1>2, <2>1, AskSound
  <2> QED BY <1>3, <2>2, BecomeInv
<1>4. ASSUME LoggedIn(q, r), UNCHANGED <<reachable, boot, outages, losses>>
      PROVE  DelegationInv'
  <2>1. LoginSucceeds(r.at) \/ LoginFails(r.at)
    BY <1>4 DEF LoggedIn
  <2>2. /\ owners' \in Seq(Users \cup Services) /\ alive' \subseteq Sessions'
        /\ DOMAIN identity' = Services /\ Held(owners)'
        /\ \A p : Sound(p, owners) => Sound(p, owners')
    BY <1>2, <2>1, LoginInv
  <2>3. \E n : Sound(n, owners') /\ (request' = request \/ request' = [request EXCEPT ![q] = n])
    <3>1. CASE LoginSucceeds(r.at) /\ request' = [request EXCEPT ![q] = Ask(r, Len(owners) + 1)]
      <4>1. owners' = Append(owners, r.at)
        BY <3>1 DEF LoginSucceeds
      <4>2. owners \in Seq(Users \cup Services) /\ r.at \in Users \cup Services
        BY <1>2 DEF DelegationInv
      <4>3. /\ Len(owners) + 1 \in 0..Len(owners') /\ owners'[Len(owners) + 1] = r.at
            /\ Len(owners') \in Nat
        BY <4>1, <4>2
      <4>4. Sound(r, owners')
        BY <1>2, <2>2
      <4>5. Sound(Ask(r, Len(owners) + 1), owners')
        BY <1>1, <4>3, <4>4, AskSound
      <4> QED BY <3>1, <4>5
    <3>2. CASE LoginFails(r.at) /\ r.tries + 1 < CallAttempts
               /\ request' = [request EXCEPT ![q] = [r EXCEPT !.tries = @ + 1]]
      <4> DEFINE n == [r EXCEPT !.tries = r.tries + 1]
      <4>1. r.tries + 1 \in 0..(CallAttempts - 1)
        <5>1. r.tries \in 0..(CallAttempts - 1)
          BY <1>2 DEF Request
        <5>2. r.tries + 1 < CallAttempts
          BY <3>2
        <5> HIDE DEF r
        <5> QED BY <5>1, <5>2, Bounds
      <4>2. n \in Request(Len(owners)) /\ n.st \in Stages
        BY <1>1, <1>2, <4>1 DEF Request, Stages
      <4>3. /\ n.kind = r.kind /\ n.user = r.user /\ n.session = r.session /\ n.todo = r.todo
            /\ n.at = r.at /\ n.bearer = r.bearer /\ n.onBehalfOf = r.onBehalfOf
            /\ n.made = r.made /\ n.st = r.st /\ n.subject = r.subject
        BY <1>2 DEF Request
      <4>4. request' = [request EXCEPT ![q] = n]
        BY <3>2 DEF DelegationInv
      <4> HIDE DEF n, r
      <4>5. InProgress(n, owners)
        BY <1>1, <1>2, <4>3 DEF InProgress, Credentials, Hop, Recorded
      <4>6. Sound(n, owners)
        BY <1>1, <1>2, <4>2, <4>3, <4>5, StageSound
      <4> QED BY <2>2, <4>4, <4>6
    <3>3. CASE LoginFails(r.at) /\ request' = [request EXCEPT ![q] = Ask(r, None)]
      <4>1. Sound(Ask(r, None), owners)
        <5>1. None \in 0..Len(owners)
          BY <1>2 DEF None
        <5> QED BY <1>1, <1>2, <5>1, AskSound
      <4> QED BY <2>2, <3>3, <4>1
    <3>4. \/ LoginSucceeds(r.at) /\ request' = [request EXCEPT ![q] = Ask(r, Len(owners) + 1)]
          \/ LoginFails(r.at) /\ r.tries + 1 < CallAttempts
               /\ request' = [request EXCEPT ![q] = [r EXCEPT !.tries = @ + 1]]
          \/ LoginFails(r.at) /\ request' = [request EXCEPT ![q] = Ask(r, None)]
      BY <1>4 DEF LoggedIn
    <3> HIDE DEF r
    <3> QED BY <3>1, <3>2, <3>3, <3>4
  <2>4. \A p \in Requests : Sound(request'[p], owners') /\ DOMAIN request' = Requests
    BY <2>2, <2>3 DEF DelegationInv
  <2>5. DOMAIN request' = Requests
    BY <2>3 DEF DelegationInv
  <2> QED BY <1>4, <2>2, <2>4, <2>5 DEF DelegationInv
<1>5. \/ Become(q, Ask(r, identity[r.at]))
      \/ LoggedIn(q, r) /\ UNCHANGED <<reachable, boot, outages, losses>>
  BY DEF Work
<1> QED BY <1>3, <1>4, <1>5

\* The caller is one of the authorized services, or the request fails.
LEMMA CheckCallerInv ==
  ASSUME DelegationInv, NEW q \in Requests, CheckCaller(q)
  PROVE  DelegationInv'
<1> DEFINE r == request[q]
<1>1. r.st = "caller" /\ r.st \in Stages
  BY DEF CheckCaller, Stages
<1>2. /\ Sound(r, owners) /\ r \in Request(Len(owners)) /\ Len(owners) \in Nat
      /\ InProgress(r, owners)
  BY <1>1, Working
<1>3. CASE ~(Valid(r.service) /\ owners[r.service] \in AuthorizedServices)
  BY <1>1, <1>3, FailedInv DEF CheckCaller, Ends
<1>4. CASE Valid(r.service) /\ owners[r.service] \in AuthorizedServices
  <2> DEFINE phase == IF Hop(r) = "list" THEN "answer" ELSE "again"
             n == [r EXCEPT !.st = phase]
  <2>1. r.service # None /\ owners[r.service] = r.at /\ r.at \in AuthorizedServices
    BY <1>1, <1>2, <1>4 DEF Valid, SessionFound, InProgress
  <2>2. phase \in {"answer", "again"}
    OBVIOUS
  <2>3. Become(q, n)
    BY <1>4 DEF CheckCaller
  <2> HIDE DEF phase
  <2>4. n \in Request(Len(owners)) /\ n.st \in Stages
    BY <1>2, <2>2 DEF Request, Stages
  <2>5. /\ n.kind = r.kind /\ n.user = r.user /\ n.session = r.session /\ n.todo = r.todo
        /\ n.at = r.at /\ n.bearer = r.bearer /\ n.onBehalfOf = r.onBehalfOf
        /\ n.made = r.made /\ n.st = phase /\ n.subject = r.subject /\ n.service = r.service
    BY <1>2 DEF Request
  <2> HIDE DEF n, r
  <2>6. InProgress(n, owners)
    BY <1>1, <1>2, <2>1, <2>2, <2>5 DEF InProgress, Credentials, Hop, Recorded, Evaluates
  <2>7. Sound(n, owners)
    BY <1>1, <1>2, <2>4, <2>5, <2>6, StageSound
  <2> QED BY <2>3, <2>7, BecomeInv
<1> QED BY <1>3, <1>4

LEMMA CheckDelegateInv ==
  ASSUME DelegationInv, NEW q \in Requests, CheckDelegate(q)
  PROVE  DelegationInv'
<1> DEFINE r == request[q]
<1>1. r.st = "again" /\ r.st \in Stages
  BY DEF CheckDelegate, Stages
<1>2. /\ Sound(r, owners) /\ r \in Request(Len(owners)) /\ Len(owners) \in Nat
      /\ InProgress(r, owners)
  BY <1>1, Working
<1>3. CASE ~Valid(r.service)
  BY <1>1, <1>3, FailedInv DEF CheckDelegate, Ends
<1>4. CASE Valid(r.service)
  <2> DEFINE n == [r EXCEPT !.st = "principal", !.checked = r.service]
  <2>1. Become(q, n)
    BY <1>4 DEF CheckDelegate
  <2>2. n \in Request(Len(owners)) /\ n.st \in Stages
    BY <1>2 DEF Request, Stages
  <2>3. /\ n.kind = r.kind /\ n.user = r.user /\ n.session = r.session /\ n.todo = r.todo
        /\ n.at = r.at /\ n.bearer = r.bearer /\ n.onBehalfOf = r.onBehalfOf
        /\ n.made = r.made /\ n.st = "principal" /\ n.subject = r.subject
        /\ n.service = r.service /\ n.checked = r.service
    BY <1>2 DEF Request
  <2> HIDE DEF n, r
  <2>4. InProgress(n, owners)
    BY <1>1, <1>2, <2>3 DEF InProgress, Credentials, Hop, Recorded, Evaluates
  <2>5. Sound(n, owners)
    BY <1>1, <1>2, <2>2, <2>3, <2>4, StageSound
  <2> QED BY <2>1, <2>5, BecomeInv
<1> QED BY <1>3, <1>4

\* Where a decision is made: its fields are those of the credentials the service was
\* called with.
LEMMA CheckPrincipalInv ==
  ASSUME DelegationInv, NEW q \in Requests, CheckPrincipal(q)
  PROVE  DelegationInv'
<1> DEFINE r == request[q]
<1>1. r.st = "principal" /\ r.st \in Stages
  BY DEF CheckPrincipal, Stages
<1>2. /\ Sound(r, owners) /\ r \in Request(Len(owners)) /\ Len(owners) \in Nat
      /\ InProgress(r, owners) /\ Attributed(r) /\ r.todo # <<>>
  BY <1>1, Working
<1>3. CASE ~Valid(r.bearer)
  BY <1>1, <1>3, FailedInv DEF CheckPrincipal, Ends
<1>4. CASE Valid(r.bearer)
  <2> DEFINE d == Decision(Hop(r), r.at, r.onBehalfOf # None, owners[r.bearer],
                           owners[r.checked], r.subject)
             n == [r EXCEPT !.st = "answer", !.made = r.made \cup {d}]
  <2>1. Become(q, n)
    BY <1>4 DEF CheckPrincipal
  <2>2. /\ d.hop = Hop(r) /\ d.by = r.at /\ d.principal = owners[r.bearer]
        /\ d.delegate = owners[r.checked] /\ d.recorded = r.subject
        /\ d.delegated = (r.onBehalfOf # None) /\ d.delegated \in BOOLEAN
    BY DEF Decision
  <2>3. /\ r.at \in Services /\ r.bearer \in 0..Len(owners) /\ r.user \in Users
        /\ r.kind \in DOMAIN Plan /\ r.todo \in Seq(HopsOf(r.kind))
    BY <1>2 DEF Request, InProgress
  <2>4. r.bearer # None
    BY <1>4 DEF Valid, SessionFound
  <2>5. /\ d.delegate = d.by /\ d.by \in AuthorizedServices
    BY <1>1, <1>2, <2>2 DEF InProgress
  <2>6. Hop(r) \in HopsOf(r.kind) /\ Hop(r) \in AllHops
        /\ (r.kind = "instruction" => Hop(r) = "decide")
    BY <1>2, <2>3, HopType, HopKinds
  <2>7. owners[r.bearer] = IF r.onBehalfOf # None \/ Hop(r) = "context" THEN Payment ELSE r.user
    <3>1. InProgress(r, owners) /\ Credentials(r, owners) /\ Evaluates(r)
      BY <1>1, <1>2 DEF InProgress
    <3> HIDE DEF r
    <3>2. CASE r.bearer = r.session /\ r.onBehalfOf = None
               /\ (r.at = Payment \/ r.kind = "instruction" \/ Hop(r) \in {"read", "use"})
      <4>1. Hop(r) # "context"
        BY <2>6, <3>1, <3>2, Distinct DEF Evaluates
      <4> QED BY <3>1, <3>2, <4>1 DEF InProgress
    <3>3. CASE /\ r.at = Instruction /\ r.kind # "instruction" /\ Hop(r) = "context"
               /\ r.onBehalfOf = None /\ (r.bearer = None \/ owners[r.bearer] = Payment)
      BY <2>4, <3>3
    <3>4. CASE /\ r.at = Instruction /\ r.kind # "instruction" /\ Hop(r) \in {"read", "use"}
               /\ r.onBehalfOf = r.session /\ r.bearer # None /\ owners[r.bearer] = Payment
      BY <3>1, <3>4 DEF InProgress
    <3> QED BY <3>1, <3>2, <3>3, <3>4 DEF Credentials
  <2>8. r.subject = IF Hop(r) = "context" THEN Payment ELSE r.user
    <3>1. r.subject = Recorded(r) /\ Evaluates(r)
      BY <1>1, <1>2 DEF InProgress
    <3> HIDE DEF r
    <3> QED BY <2>3, <3>1, Distinct DEF Recorded, Evaluates, Services
  <2>9. d \in Decisions
    <3>1. owners[r.bearer] \in Users \cup Services /\ r.subject \in Users \cup Services
      BY <2>3, <2>7, <2>8 DEF Services
    <3> HIDE DEF r
    <3> QED BY <2>2, <2>3, <2>5, <2>6, <3>1 DEF Decisions, Decision, AllHops
  <2> HIDE DEF d
  <2>10. n \in Request(Len(owners)) /\ n.st \in Stages
    BY <1>2, <2>9 DEF Request, Stages
  <2>11. /\ n.kind = r.kind /\ n.user = r.user /\ n.session = r.session /\ n.todo = r.todo
         /\ n.at = r.at /\ n.bearer = r.bearer /\ n.onBehalfOf = r.onBehalfOf
         /\ n.made = r.made \cup {d} /\ n.st = "answer" /\ n.subject = r.subject
    BY <1>2 DEF Request
  <2> HIDE DEF n, r
  <2>12. InProgress(n, owners)
    BY <1>1, <1>2, <2>11 DEF InProgress, Credentials, Hop, Recorded, Evaluates
  <2>13. Attributed(n)
    BY <1>2, <2>2, <2>5, <2>7, <2>8, <2>11 DEF Attributed
  <2>14. "answer" \in Stages /\ "answer" \notin Ends
    BY DEF Stages, Ends
  <2>15. Sound(n, owners)
    BY <1>2, <2>10, <2>11, <2>12, <2>13, <2>14 DEF Sound
  <2> QED BY <2>1, <2>15, BecomeInv
<1> QED BY <1>3, <1>4

\* The service that got the request from the user goes on.
LEMMA AnswerInv ==
  ASSUME DelegationInv, NEW q \in Requests, Answer(q)
  PROVE  DelegationInv'
<1> DEFINE r == request[q]
           rest == Tail(r.todo)
<1>1. r.st = "answer" /\ r.st \in Stages
  BY DEF Answer, Stages
<1>2. /\ Sound(r, owners) /\ r \in Request(Len(owners)) /\ Len(owners) \in Nat
      /\ InProgress(r, owners) /\ Attributed(r) /\ r.todo # <<>>
  BY <1>1, Working
<1>3. CASE Become(q, Ended(r, "refused")) \/ Become(q, Ended(r, "answered"))
  BY <1>1, <1>3, FailedInv DEF Ends
<1>4. CASE rest # <<>> /\ ~Become(q, Ended(r, "refused"))
  <2> DEFINE n == [r EXCEPT !.st = "work", !.todo = rest, !.at = Payment,
                            !.bearer = r.session, !.onBehalfOf = None,
                            !.subject = r.user, !.tries = 0,
                            !.service = None, !.checked = None]
  <2>1. Become(q, n)
    BY <1>4 DEF Answer
  <2>2. /\ r.todo \in Seq(HopsOf(r.kind)) /\ r.todo \in Seq(AllHops)
        /\ (r.kind = "instruction" => Len(r.todo) = 1)
        /\ r.session \in 0..Len(owners) /\ r.user \in Users
    BY <1>2 DEF InProgress, Request
  <2>3. /\ rest \in Seq(HopsOf(r.kind)) /\ rest \in Seq(AllHops)
        /\ Len(r.todo) = 1 => rest = <<>>
    BY <1>2, <2>2, RestType
  <2>4. r.kind # "instruction"
    BY <1>4, <2>2, <2>3
  <2>5. None \in 0..Len(owners) /\ Payment \in Services
    BY <1>2 DEF None, Services
  <2>6. rest # <<>>
    BY <1>4
  <2> HIDE DEF rest
  <2>7. n \in Request(Len(owners)) /\ n.st \in Stages
    BY <1>2, <2>2, <2>3, <2>5, TriesType DEF Request, Stages
  <2>8. /\ n.kind = r.kind /\ n.user = r.user /\ n.session = r.session /\ n.todo = rest
        /\ n.at = Payment /\ n.bearer = r.session /\ n.onBehalfOf = None
        /\ n.made = r.made /\ n.st = "work" /\ n.subject = r.user
    BY <1>2 DEF Request
  <2> HIDE DEF n, r
  <2>9. InProgress(n, owners)
    BY <1>2, <2>3, <2>4, <2>8, Distinct DEF InProgress, Credentials, Recorded
  <2>10. "work" \in Stages /\ "work" \notin Ends
    BY DEF Stages, Ends
  <2>11. Sound(n, owners)
    BY <1>2, <2>6, <2>7, <2>8, <2>9, <2>10 DEF Sound, Attributed
  <2> QED BY <2>1, <2>11, BecomeInv
<1> QED BY <1>3, <1>4 DEF Answer

\* A restart ends the requests the service works on and cuts short those it passed on.
LEMMA RestartInv ==
  ASSUME DelegationInv, NEW s \in Services, Restart(s)
  PROVE  DelegationInv'
<1>1. /\ boot' = [boot EXCEPT ![s] = 0] /\ identity' = [identity EXCEPT ![s] = None]
      /\ losses < MaxLosses /\ losses' = losses + 1
      /\ UNCHANGED <<owners, alive, reachable, outages>>
  BY DEF Restart, Lose
<1>2. boot' \in [Services -> 0..(StartAttempts - 1) \cup {Up}] /\ losses' \in 0..MaxLosses
  BY <1>1, Bounds DEF DelegationInv
<1>3. DOMAIN identity' = Services /\ Held(owners)'
  BY <1>1, SessionsAre DEF DelegationInv, Held, None
<1>4. ASSUME NEW q \in Requests PROVE Sound(request'[q], owners')
  <2> DEFINE r == request[q]
  <2>1. Sound(r, owners) /\ Len(owners) \in Nat
    BY SessionsAre DEF DelegationInv
  <2>2. \/ request'[q] = r
        \/ r.todo # <<>> /\ request'[q] = Ended(r, "failed")
        \/ r.todo # <<>> /\ r.kind # "instruction"
           /\ request'[q] = [r EXCEPT !.todo = <<Hop(r)>>]
    BY DEF Restart
  <2>3. r \in Request(Len(owners)) /\ Attributed(r)
    BY <2>1 DEF Sound
  <2>4. CASE request'[q] = Ended(r, "failed")
    BY <1>1, <2>1, <2>3, <2>4, EndedSound DEF Ends
  <2>5. CASE r.todo # <<>> /\ r.kind # "instruction"
             /\ request'[q] = [r EXCEPT !.todo = <<Hop(r)>>]
    <3> DEFINE n == [r EXCEPT !.todo = <<Hop(r)>>]
    <3>1. r.st \in Stages /\ r.st \notin Ends /\ InProgress(r, owners)
      BY <2>1, <2>3, <2>5 DEF Sound, Request
    <3>2. /\ r.todo \in Seq(HopsOf(r.kind)) /\ r.todo \in Seq(AllHops)
      BY <2>3, <3>1 DEF InProgress, Request
    <3>3. Hop(r) \in HopsOf(r.kind) /\ Hop(r) \in AllHops
      BY <2>5, <3>2, HopType
    <3> DEFINE cut == <<Hop(r)>>
    <3>4. cut \in Seq(HopsOf(r.kind)) /\ cut \in Seq(AllHops) /\ cut # <<>> /\ Head(cut) = Hop(r)
      BY <3>3
    <3> HIDE DEF cut
    <3>5. n \in Request(Len(owners))
      BY <2>3, <3>4 DEF Request, cut
    <3>6. /\ n.kind = r.kind /\ n.user = r.user /\ n.session = r.session /\ n.todo = cut
          /\ n.at = r.at /\ n.bearer = r.bearer /\ n.onBehalfOf = r.onBehalfOf
          /\ n.made = r.made /\ n.st = r.st /\ n.subject = r.subject
          /\ n.service = r.service /\ n.checked = r.checked
      BY <2>3 DEF Request, cut
    <3>7. request'[q] = n
      BY <2>5
    <3>8. Hop(n) = Hop(r)
      BY <3>4, <3>6 DEF Hop
    <3>9. r.kind # "instruction"
      BY <2>5
    <3> HIDE DEF n, r
    <3>10. InProgress(n, owners)
      BY <3>1, <3>4, <3>6, <3>8, <3>9 DEF InProgress, Credentials, Recorded, Evaluates
    <3>11. Sound(n, owners)
      BY <2>3, <3>1, <3>4, <3>5, <3>6, <3>10 DEF Sound, Attributed
    <3> QED BY <1>1, <3>7, <3>11
  <2> QED BY <1>1, <2>1, <2>2, <2>4, <2>5
<1>5. DOMAIN request' = Requests
  BY DEF Restart
<1> QED BY <1>1, <1>2, <1>3, <1>4, <1>5 DEF DelegationInv, Sessions

LEMMA NextInv == DelegationInv /\ [Next]_vars => DelegationInv'
<1> SUFFICES ASSUME DelegationInv, [Next]_vars PROVE DelegationInv'
  OBVIOUS
<1>1. ASSUME NEW q \in Requests, Step(q) PROVE DelegationInv'
  BY <1>1, CheckBearerInv, CheckOnBehalfOfInv, WorkInv, CheckCallerInv, CheckDelegateInv,
     CheckPrincipalInv, AnswerInv DEF Step
<1>2. ASSUME NEW n \in Sessions, Expire(n) PROVE DelegationInv'
  <2>1. losses' \in 0..MaxLosses /\ alive' \subseteq Sessions
    BY <1>2, Bounds DEF Expire, Lose, DelegationInv
  <2> QED BY <1>2, <2>1 DEF Expire, DelegationInv, Sessions, Held
<1>3. CASE Outage \/ Recover
  <2>1. outages' \in 0..MaxOutages
    BY <1>3, Bounds DEF Outage, Recover, DelegationInv
  <2>2. reachable' \in BOOLEAN
    BY <1>3 DEF Outage, Recover
  <2> QED BY <1>3, <2>1, <2>2 DEF Outage, Recover, DelegationInv, Sessions, Held
<1>4. CASE UNCHANGED vars
  BY <1>4 DEF vars, DelegationInv, Sessions, Held
<1> QED BY <1>1, <1>2, <1>3, <1>4, StartInv, RestartInv, UserLoginInv, SendInv DEF Next

LEMMA DelegationInvariant == Spec => []DelegationInv
BY InitInv, NextInv, PTL DEF Spec

\* Every reachable state of the delegated calls is well typed: a service holds only a
\* session of its own, and a request is over exactly when there is nothing left to ask.
THEOREM DelegationTypeCorrect == Spec => []TypeOK
<1>1. ASSUME DelegationInv PROVE TypeOK
  <2>1. \A s \in Services : /\ identity[s] # None => owners[identity[s]] = s
                            /\ boot[s] \in 0..(StartAttempts - 1) \cup {Up}
    BY <1>1 DEF DelegationInv, Held
  <2>2. ASSUME NEW q \in Requests
        PROVE  /\ request[q].at \in Services /\ request[q].tries \in 0..(CallAttempts - 1)
               /\ {request[q].session, request[q].bearer, request[q].onBehalfOf,
                   request[q].service, request[q].checked} \subseteq {None} \cup Sessions
               /\ request[q].made \subseteq Decisions
               /\ request[q].st \in Ends <=> request[q].todo = <<>>
    <3> DEFINE r == request[q]
    <3>1. Sound(r, owners) /\ Len(owners) \in Nat
      BY <1>1, SessionsAre DEF DelegationInv
    <3>2. 0..Len(owners) = {None} \cup Sessions
      BY <3>1 DEF None, Sessions
    <3> HIDE DEF r
    <3>3. /\ r.at \in Services /\ r.tries \in 0..(CallAttempts - 1)
          /\ {r.session, r.bearer, r.onBehalfOf, r.service, r.checked} \subseteq 0..Len(owners)
          /\ r.made \subseteq Decisions
          /\ r.st \in Ends <=> r.todo = <<>>
      BY <3>1 DEF Sound, Request
    <3> QED BY <3>2, <3>3 DEF r
  <2> QED BY <1>1, <2>1, <2>2 DEF DelegationInv, TypeOK
<1> QED BY <1>1, DelegationInvariant, PTL

\* However logins race, fail and are undone, a decision is asked for by an authorized
\* service in its own name and recorded for the one it is due to; it is about the rights of
\* payment-service when that called instruction-service for itself or on the user's behalf,
\* and of the user who sent the request in every other case.
THEOREM EveryDecisionIsAttributed == Spec => []DecisionsAreAttributed
<1>1. DelegationInv => DecisionsAreAttributed
  BY DEF DelegationInv, Sound, Attributed, DecisionsAreAttributed
<1> QED BY <1>1, DelegationInvariant, PTL

=============================================================================
