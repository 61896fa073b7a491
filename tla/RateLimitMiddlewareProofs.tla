---------------------- MODULE RateLimitMiddlewareProofs ----------------------
(***************************************************************************)
(* What the middleware keeps for any number of request handlers, whatever  *)
(* an administrator changes, whichever queries fail, and however often the *)
(* process stops and starts: TypeCorrect, RequestsAccounted, EventsKept,   *)
(* RevokedKept and PolicyKept, from the inductive invariant IInv.          *)
(***************************************************************************)
EXTENDS RateLimitMiddleware, FiniteSetTheorems, TLAPS

\* A request that was late is one with the revoked key, and still at the query
\* that will not find it.
LateOnesAreKnown ==
  \A w \in Worker : late[w] => pc[w] = "identify" /\ by[w] = "key" /\ revoked

\* The policies of this moment are among those of the time of every request.
CurrentInForce ==
  \A w \in Worker : pc[w] # "idle" => CurrentPolicies \subseteq inForce[w]

\* The inductive invariant.
IInv ==
  /\ TypeOK
  /\ Accounted
  /\ EventLedger
  /\ LateOnesAreKnown
  /\ PolicyInForce
  /\ CurrentInForce

Places == {"idle", "identify", "route", "limit", "serve", "bypass"}

-----------------------------------------------------------------------------
(* The parts of the invariant, by the variables they are about *)

EnvironmentOK ==
  /\ failureMode \in {"open", "closed"}
  /\ zeroWindow \in BOOLEAN
  /\ keyPolicy \in Policy
  /\ revoked \in BOOLEAN
  /\ routePolicy \in Policy \cup {NoPolicy}
  /\ changes \in 0..MaxChanges
  /\ phase \in {"up", "redisClosed", "dbClosed", "down"}
  /\ starts \in 1..MaxStarts

RequestsOK ==
  /\ pc \in [Worker -> Places]
  /\ by \in [Worker -> Callers]
  /\ policy \in [Worker -> Policy \cup {Default}]
  /\ late \in [Worker -> BOOLEAN]
  /\ inForce \in [Worker -> SUBSET Policy]
  /\ ~Running => \A w \in Worker : pc[w] = "idle"
  /\ LateOnesAreKnown
  /\ PolicyInForce
  /\ CurrentInForce

CountsOK ==
  /\ count \in [requests : 0..MaxRequests, allowed : Nat, rejected : Nat, errors : Nat]
  /\ uncounted \in Nat
  /\ Accounted

EventsOK ==
  /\ stored \in [Kinds -> Nat]
  /\ pending \in [Kinds -> Nat]
  /\ decided \in [Kinds -> Nat]
  /\ lost \in [Kinds -> Nat]
  /\ EventLedger

LEMMA InvariantParts == IInv <=> EnvironmentOK /\ RequestsOK /\ CountsOK /\ EventsOK
BY DEF IInv, TypeOK, EnvironmentOK, RequestsOK, CountsOK, EventsOK, Places

-----------------------------------------------------------------------------
(* How many requests are in some places *)

In(places) == {w \in Worker : pc[w] \in places}

LEMMA UndecidedIn ==
  /\ Undecided = In({"identify", "route", "limit"})
  /\ Undecided' = In({"identify", "route", "limit"})'
BY DEF Undecided, In

LEMMA ServingIn == Serving = In({"serve"}) /\ Serving' = In({"serve"})'
BY DEF Serving, In

\* A request that moves is one more where it goes and one less where it was.
LEMMA Moves ==
  ASSUME RequestsOK, NEW places, NEW w \in Worker, NEW to, pc' = [pc EXCEPT ![w] = to]
  PROVE  /\ Cardinality(In(places)) \in Nat
         /\ Cardinality(In(places))' = Cardinality(In(places))
              + (IF to \in places THEN 1 ELSE 0) - (IF pc[w] \in places THEN 1 ELSE 0)
<1> DEFINE S == In(places)
           O == S \ {w}
<1>1. \A u \in Worker : pc'[u] = IF u = w THEN to ELSE pc[u]
  BY DEF RequestsOK
<1>2. IsFiniteSet(S) /\ IsFiniteSet(O)
  BY WorkersAreFinite, FS_Subset DEF In
<1>3. Cardinality(S) \in Nat /\ Cardinality(O) \in Nat
  BY <1>2, FS_CardinalityType
<1>4. Cardinality(O) = Cardinality(S) - (IF pc[w] \in places THEN 1 ELSE 0)
  <2>1. w \in S <=> pc[w] \in places
    BY DEF In
  <2> HIDE DEF S
  <2> QED
    BY <1>2, <1>3, <2>1, FS_RemoveElement
<1>5. In(places)' = IF to \in places THEN O \cup {w} ELSE O
  BY <1>1 DEF In
<1>6. Cardinality(O \cup {w}) = Cardinality(O) + 1
  <2> HIDE DEF S
  <2> QED
    BY <1>2, FS_AddElement
<1> QED
  BY <1>3, <1>4, <1>5, <1>6

\* Requests that stay count as before.
LEMMA Stays ==
  ASSUME UNCHANGED pc, NEW places
  PROVE  Cardinality(In(places))' = Cardinality(In(places))
BY DEF In

LEMMA NoneIn ==
  ASSUME NEW places, \A w \in Worker : pc[w] \notin places
  PROVE  Cardinality(In(places)) = 0
BY FS_EmptySet DEF In

LEMMA InvariantInitially == Init => IInv
<1> SUFFICES ASSUME Init PROVE EnvironmentOK /\ RequestsOK /\ CountsOK /\ EventsOK
  BY InvariantParts
<1>1. Cardinality(Undecided) = 0 /\ Cardinality(Serving) = 0
  BY UndecidedIn, ServingIn, NoneIn DEF Init
<1>2. EnvironmentOK
  <2>1. 0 \in 0..MaxChanges /\ 1 \in 1..MaxStarts
    BY MiddlewareBounds
  <2> QED
    BY <2>1, Zenon DEF Init, EnvironmentOK
<1>3. RequestsOK
  BY DEF Init, RequestsOK, Places, Callers, LateOnesAreKnown, PolicyInForce, CurrentInForce, Running
<1>4. CountsOK
  BY <1>1, MiddlewareBounds DEF Init, CountsOK, Accounted, NoCounts
<1>5. EventsOK
  BY <1>1 DEF Init, EventsOK, EventLedger, NoEvents, Kinds
<1> QED
  BY <1>2, <1>3, <1>4, <1>5

-----------------------------------------------------------------------------
(* Steps of a request *)

\* A request in one place leaves the counts alone when it goes to a place on
\* the same side of its decision.
LEMMA CountsKeptByMove ==
  ASSUME RequestsOK, CountsOK, NEW w \in Worker, NEW to, pc' = [pc EXCEPT ![w] = to],
         UNCHANGED <<count, uncounted>>,
         (to \in {"identify", "route", "limit"}) <=> (pc[w] \in {"identify", "route", "limit"})
  PROVE  CountsOK'
<1>1. Cardinality(Undecided)' = Cardinality(Undecided)
  <2> DEFINE places == {"identify", "route", "limit"}
  <2>1. /\ Cardinality(In(places)) \in Nat
        /\ Cardinality(In(places))' = Cardinality(In(places))
              + (IF to \in places THEN 1 ELSE 0) - (IF pc[w] \in places THEN 1 ELSE 0)
    BY Moves
  <2> QED
    BY <2>1, UndecidedIn
<1> QED
  BY <1>1 DEF CountsOK, Accounted

\* A request that is over, or decided, is counted elsewhere from then on.
LEMMA CountsKeptByEnd ==
  ASSUME RequestsOK, CountsOK, NEW w \in Worker, NEW to, pc' = [pc EXCEPT ![w] = to],
         pc[w] \in {"identify", "route", "limit"}, to \in {"idle", "serve", "bypass"},
         \/ count' = [count EXCEPT !.allowed = @ + 1] /\ UNCHANGED uncounted
         \/ count' = [count EXCEPT !.rejected = @ + 1] /\ UNCHANGED uncounted
         \/ count' = [count EXCEPT !.errors = @ + 1] /\ UNCHANGED uncounted
         \/ uncounted' = uncounted + 1 /\ UNCHANGED count
  PROVE  CountsOK'
<1>1. Cardinality(Undecided) \in Nat /\ Cardinality(Undecided)' = Cardinality(Undecided) - 1
  <2> DEFINE places == {"identify", "route", "limit"}
  <2>1. /\ Cardinality(In(places)) \in Nat
        /\ Cardinality(In(places))' = Cardinality(In(places))
              + (IF to \in places THEN 1 ELSE 0) - (IF pc[w] \in places THEN 1 ELSE 0)
    BY Moves
  <2> QED
    BY <2>1, UndecidedIn
<1>2. /\ count' \in [requests : 0..MaxRequests, allowed : Nat, rejected : Nat, errors : Nat]
      /\ uncounted' \in Nat
  BY DEF CountsOK
<1>3. count'.requests = count.requests
  BY DEF CountsOK
<1>4. count'.allowed + count'.rejected + count'.errors + uncounted'
        = count.allowed + count.rejected + count.errors + uncounted + 1
  BY DEF CountsOK
<1> QED
  BY <1>1, <1>2, <1>3, <1>4 DEF CountsOK, Accounted

\* Events stay as they are, and so do the requests that will record one.
LEMMA EventsKeptByMove ==
  ASSUME RequestsOK, EventsOK, NEW w \in Worker, NEW to, pc' = [pc EXCEPT ![w] = to],
         UNCHANGED events, to = "serve" <=> pc[w] = "serve"
  PROVE  EventsOK'
<1>1. Cardinality(Serving)' = Cardinality(Serving)
  <2> DEFINE places == {"serve"}
  <2>1. /\ Cardinality(In(places)) \in Nat
        /\ Cardinality(In(places))' = Cardinality(In(places))
              + (IF to \in places THEN 1 ELSE 0) - (IF pc[w] \in places THEN 1 ELSE 0)
    BY Moves
  <2> QED
    BY <2>1, ServingIn
<1> QED
  BY <1>1 DEF EventsOK, EventLedger, events

\* The handler returns: what is left of the request says nothing any more.
LEMMA EndKeepsRequests ==
  ASSUME RequestsOK, NEW w \in Worker, End(w), UNCHANGED <<config, database, process>>
  PROVE  RequestsOK' /\ pc' = [pc EXCEPT ![w] = "idle"]
<1> USE DEF End, RequestsOK
<1>1. /\ pc' \in [Worker -> Places]
      /\ by' \in [Worker -> Callers]
      /\ policy' \in [Worker -> Policy \cup {Default}]
      /\ late' \in [Worker -> BOOLEAN]
      /\ inForce' \in [Worker -> SUBSET Policy]
  BY DEF Places, Callers
<1>2. (~Running => \A u \in Worker : pc[u] = "idle")'
  BY DEF Running, process
<1>3. LateOnesAreKnown'
  BY DEF LateOnesAreKnown, database
<1>4. PolicyInForce'
  BY DEF PolicyInForce
<1>5. CurrentInForce'
  BY DEF CurrentInForce, CurrentPolicies, database
<1> QED
  BY <1>1, <1>2, <1>3, <1>4, <1>5

\* A request that goes on under a policy of its time.
LEMMA AdvanceKeepsRequests ==
  ASSUME RequestsOK, NEW w \in Worker, pc[w] # "idle", NEW to \in Places \ {"idle"}, ~late[w],
         pc' = [pc EXCEPT ![w] = to], UNCHANGED <<config, database, process, by, late, inForce>>,
         NEW p \in inForce[w] \cup (IF by[w] = "ip" THEN {Default} ELSE {}),
         policy' = [policy EXCEPT ![w] = p]
  PROVE  RequestsOK'
<1> USE DEF RequestsOK
<1>1. /\ pc' \in [Worker -> Places]
      /\ policy' \in [Worker -> Policy \cup {Default}]
  BY DEF Places
<1>2. (~Running => \A u \in Worker : pc[u] = "idle")'
  BY DEF Running, process
<1>3. LateOnesAreKnown'
  BY DEF LateOnesAreKnown, database
<1>4. PolicyInForce'
  BY DEF PolicyInForce
<1>5. CurrentInForce'
  BY DEF CurrentInForce, CurrentPolicies, database
<1> QED
  BY <1>1, <1>2, <1>3, <1>4, <1>5

\* A request with a policy goes on with it.
LEMMA GoingOnKeepsRequests ==
  ASSUME RequestsOK, NEW w \in Worker, pc[w] \in {"route", "limit", "serve"},
         NEW to \in {"limit", "serve", "bypass"},
         pc' = [pc EXCEPT ![w] = to],
         UNCHANGED <<config, database, process, by, policy, late, inForce>>
  PROVE  RequestsOK'
<1>1. policy[w] \in inForce[w] \cup (IF by[w] = "ip" THEN {Default} ELSE {})
  BY DEF RequestsOK, PolicyInForce
<1>2. policy' = [policy EXCEPT ![w] = policy[w]]
  BY DEF RequestsOK
<1>3. ~late[w]
  BY DEF RequestsOK, LateOnesAreKnown
<1>4. to \in Places \ {"idle"} /\ pc[w] # "idle"
  BY DEF Places
<1> QED
  BY <1>1, <1>2, <1>3, <1>4, AdvanceKeepsRequests

-----------------------------------------------------------------------------
(* The whole *)

\* An administrator's change of a policy is known to the requests under way.
LEMMA ChangeKeepsRequests ==
  ASSUME RequestsOK, UNCHANGED <<config, process, pc, by, policy, late>>,
         NEW p, InForceToo(p), CurrentPolicies' \subseteq CurrentPolicies \cup ({p} \cap Policy),
         UNCHANGED revoked
  PROVE  RequestsOK'
<1> USE DEF RequestsOK
<1>1. \A w \in Worker : inForce'[w] = IF pc[w] = "idle" THEN {} ELSE inForce[w] \cup ({p} \cap Policy)
  BY DEF InForceToo
<1>2. inForce' \in [Worker -> SUBSET Policy]
  BY DEF InForceToo
<1>3. (~Running => \A u \in Worker : pc[u] = "idle")'
  BY DEF Running, process
<1>4. LateOnesAreKnown'
  BY DEF LateOnesAreKnown
<1>5. PolicyInForce'
  BY <1>1 DEF PolicyInForce
<1>6. CurrentInForce'
  BY <1>1 DEF CurrentInForce
<1> QED
  BY <1>2, <1>3, <1>4, <1>5, <1>6

\* Steps that move no request.
LEMMA NothingMoves ==
  ASSUME UNCHANGED pc
  PROVE  /\ (CountsOK /\ UNCHANGED <<count, uncounted>>) => CountsOK'
         /\ (EventsOK /\ UNCHANGED events) => EventsOK'
<1>1. Undecided' = Undecided /\ Serving' = Serving
  BY DEF Undecided, Serving
<1> QED
  BY <1>1 DEF CountsOK, EventsOK, Accounted, EventLedger, events

\* Every step keeps the invariant: one step of the proof for each action.
LEMMA InvariantKept == IInv /\ [Next]_vars => IInv'
<1> SUFFICES ASSUME IInv, [Next]_vars
             PROVE  EnvironmentOK' /\ RequestsOK' /\ CountsOK' /\ EventsOK'
  BY DEF IInv, TypeOK, EnvironmentOK, RequestsOK, CountsOK, EventsOK, Places
<1> DEFINE Kept == EnvironmentOK' /\ RequestsOK' /\ CountsOK' /\ EventsOK'
<1>a. EnvironmentOK /\ RequestsOK /\ CountsOK /\ EventsOK
  BY InvariantParts
<1>b. ASSUME UNCHANGED <<config, database, process>>
      PROVE  EnvironmentOK'
  BY <1>a, <1>b DEF EnvironmentOK, config, database, process
<1>1. ASSUME NEW w \in Worker, Arrive(w)
      PROVE  Kept
  <2>1. RequestsOK'
    <3> USE <1>a, <1>1 DEF Arrive, RequestsOK
    <3>1. /\ pc' \in [Worker -> Places]
          /\ by' \in [Worker -> Callers]
          /\ UNCHANGED policy
          /\ inForce' = [inForce EXCEPT ![w] = CurrentPolicies]
      BY DEF Places
    <3>2. late' \in [Worker -> BOOLEAN]
      BY DEF EnvironmentOK
    <3>3. inForce' \in [Worker -> SUBSET Policy]
      BY DEF CurrentPolicies
    <3>4. (~Running => \A u \in Worker : pc[u] = "idle")'
      BY DEF Running, process
    <3>5. LateOnesAreKnown'
      BY DEF LateOnesAreKnown, database
    <3>6. PolicyInForce'
      BY DEF PolicyInForce
    <3>7. CurrentInForce'
      BY DEF CurrentInForce, CurrentPolicies, database
    <3> QED
      BY <3>1, <3>2, <3>3, <3>4, <3>5, <3>6, <3>7
  <2>2. CountsOK'
    <3> DEFINE places == {"identify", "route", "limit"}
    <3>1. /\ Cardinality(In(places)) \in Nat
          /\ Cardinality(In(places))' = Cardinality(In(places))
                + (IF "identify" \in places THEN 1 ELSE 0) - (IF pc[w] \in places THEN 1 ELSE 0)
      BY <1>a, <1>1, Moves DEF Arrive
    <3>2. /\ Cardinality(Undecided) \in Nat
          /\ Cardinality(Undecided)' = Cardinality(Undecided) + 1
      BY <1>1, <3>1, UndecidedIn DEF Arrive
    <3>3. /\ count' \in [requests : 0..MaxRequests, allowed : Nat, rejected : Nat, errors : Nat]
          /\ count'.requests = count.requests + 1 /\ count'.allowed = count.allowed
          /\ count'.rejected = count.rejected /\ count'.errors = count.errors
          /\ UNCHANGED uncounted
      BY <1>a, <1>1, MiddlewareBounds DEF Arrive, CountsOK
    <3> QED
      BY <1>a, <3>2, <3>3 DEF CountsOK, Accounted
  <2> QED
    BY <1>a, <1>b, <1>1, <2>1, <2>2, EventsKeptByMove DEF Arrive
<1>2. ASSUME NEW w \in Worker, Identify(w)
      PROVE  Kept
  <2>1. ~late[w]
    BY <1>a, <1>2 DEF Identify, RequestsOK, LateOnesAreKnown, KnowsKey
  <2>2. PolicyOf(w) \in inForce[w] \cup (IF by[w] = "ip" THEN {Default} ELSE {})
    BY <1>a, <1>2 DEF Identify, RequestsOK, EnvironmentOK, CurrentInForce, CurrentPolicies, PolicyOf, KnowsKey
  <2>3. RequestsOK'
    BY <1>a, <1>2, <2>1, <2>2, AdvanceKeepsRequests DEF Identify, Places
  <2>4. CountsOK'
    BY <1>a, <1>2, CountsKeptByMove DEF Identify
  <2> QED
    BY <1>a, <1>b, <1>2, <2>3, <2>4, EventsKeptByMove DEF Identify
<1>3. ASSUME NEW w \in Worker, TurnAway(w)
      PROVE  Kept
  <2>1. RequestsOK' /\ pc' = [pc EXCEPT ![w] = "idle"]
    BY <1>a, <1>3, EndKeepsRequests DEF TurnAway
  <2>2. CountsOK'
    BY <1>a, <1>3, <2>1, CountsKeptByEnd DEF TurnAway
  <2> QED
    BY <1>a, <1>b, <1>3, <2>1, <2>2, EventsKeptByMove DEF TurnAway
<1>4. ASSUME NEW w \in Worker, Override(w)
      PROVE  Kept
  <2>1. ~late[w] /\ routePolicy \in inForce[w]
    BY <1>a, <1>4 DEF Override, RequestsOK, EnvironmentOK, LateOnesAreKnown, CurrentInForce,
                      CurrentPolicies, FindsRoute
  <2>2. RequestsOK'
    BY <1>a, <1>4, <2>1, AdvanceKeepsRequests DEF Override, Places
  <2>3. CountsOK'
    BY <1>a, <1>4, CountsKeptByMove DEF Override
  <2> QED
    BY <1>a, <1>b, <1>4, <2>2, <2>3, EventsKeptByMove DEF Override
<1>5. ASSUME NEW w \in Worker, KeepPolicy(w)
      PROVE  Kept
  <2>1. RequestsOK'
    BY <1>a, <1>5, GoingOnKeepsRequests DEF KeepPolicy
  <2>2. CountsOK'
    BY <1>a, <1>5, CountsKeptByMove DEF KeepPolicy
  <2> QED
    BY <1>a, <1>b, <1>5, <2>1, <2>2, EventsKeptByMove DEF KeepPolicy
<1>6. ASSUME NEW w \in Worker, Allow(w)
      PROVE  Kept
  <2>1. RequestsOK'
    BY <1>a, <1>6, GoingOnKeepsRequests DEF Allow, Decides
  <2>2. CountsOK'
    BY <1>a, <1>6, CountsKeptByEnd DEF Allow, Decides, Counted
  <2>3. EventsOK'
    <3> DEFINE places == {"serve"}
    <3>1. /\ Cardinality(In(places)) \in Nat
          /\ Cardinality(In(places))' = Cardinality(In(places))
                + (IF "serve" \in places THEN 1 ELSE 0) - (IF pc[w] \in places THEN 1 ELSE 0)
      BY <1>a, <1>6, Moves DEF Allow
    <3>2. /\ Cardinality(Serving) \in Nat
          /\ Cardinality(Serving)' = Cardinality(Serving) + 1
      BY <1>6, <3>1, ServingIn DEF Allow, Decides
    <3>3. /\ UNCHANGED <<pending, stored, lost>>
          /\ decided' = [decided EXCEPT !["allowed"] = @ + 1]
      BY <1>6 DEF Allow
    <3>4. /\ decided \in [Kinds -> Nat]
          /\ {stored, pending, lost} \subseteq [Kinds -> Nat]
      BY <1>a DEF EventsOK
    <3>5. decided' \in [Kinds -> Nat]
      BY <3>3, <3>4 DEF Kinds
    <3>6. EventLedger'
      BY <1>a, <3>2, <3>3, <3>4 DEF EventsOK, EventLedger, Kinds
    <3> QED
      BY <3>3, <3>4, <3>5, <3>6 DEF EventsOK
  <2> QED
    BY <1>a, <1>b, <1>6, <2>1, <2>2, <2>3 DEF Allow
<1>7. ASSUME NEW w \in Worker, Reject(w)
      PROVE  Kept
  <2>1. RequestsOK' /\ pc' = [pc EXCEPT ![w] = "idle"]
    BY <1>a, <1>7, EndKeepsRequests DEF Reject
  <2>2. CountsOK'
    BY <1>a, <1>7, <2>1, CountsKeptByEnd DEF Reject, Decides
  <2>3. EventsOK'
    <3> DEFINE places == {"serve"}
    <3>1. /\ Cardinality(In(places)) \in Nat
          /\ Cardinality(In(places))' = Cardinality(In(places))
                + (IF "idle" \in places THEN 1 ELSE 0) - (IF pc[w] \in places THEN 1 ELSE 0)
      BY <1>a, <2>1, Moves
    <3>2. /\ Cardinality(Serving) \in Nat
          /\ Cardinality(Serving)' = Cardinality(Serving)
      BY <1>7, <3>1, ServingIn DEF Reject, Decides
    <3> QED
      BY <1>a, <1>7, <3>2 DEF Reject, Record, EventsOK, EventLedger, Kinds
  <2> QED
    BY <1>a, <1>b, <1>7, <2>1, <2>2, <2>3 DEF Reject
<1>8. ASSUME NEW w \in Worker, FailOpen(w)
      PROVE  Kept
  <2>1. RequestsOK'
    BY <1>a, <1>8, GoingOnKeepsRequests DEF FailOpen
  <2>2. CountsOK'
    BY <1>a, <1>8, CountsKeptByEnd DEF FailOpen
  <2> QED
    BY <1>a, <1>b, <1>8, <2>1, <2>2, EventsKeptByMove DEF FailOpen
<1>9. ASSUME NEW w \in Worker, FailClosed(w) \/ Panic(w)
      PROVE  Kept
  <2>1. RequestsOK' /\ pc' = [pc EXCEPT ![w] = "idle"]
    BY <1>a, <1>9, EndKeepsRequests DEF FailClosed, Panic
  <2>2. CountsOK'
    BY <1>a, <1>9, <2>1, CountsKeptByEnd DEF FailClosed, Panic
  <2> QED
    BY <1>a, <1>b, <1>9, <2>1, <2>2, EventsKeptByMove DEF FailClosed, Panic
<1>10. ASSUME NEW w \in Worker, Serve(w)
       PROVE  Kept
  <2>1. RequestsOK' /\ pc' = [pc EXCEPT ![w] = "idle"]
    BY <1>a, <1>10, EndKeepsRequests DEF Serve
  <2>2. CountsOK'
    BY <1>a, <1>10, <2>1, CountsKeptByMove DEF Serve
  <2>3. EventsOK'
    <3> DEFINE places == {"serve"}
    <3>1. /\ Cardinality(In(places)) \in Nat
          /\ Cardinality(In(places))' = Cardinality(In(places))
                + (IF "idle" \in places THEN 1 ELSE 0) - (IF pc[w] \in places THEN 1 ELSE 0)
      BY <1>a, <2>1, Moves
    <3>2. /\ Cardinality(Serving) \in Nat
          /\ Cardinality(Serving)' = Cardinality(Serving) - 1
      BY <1>10, <3>1, ServingIn DEF Serve
    <3>3. /\ UNCHANGED <<decided, stored, lost>>
          /\ pending' = [pending EXCEPT !["allowed"] = @ + 1]
      BY <1>10 DEF Serve, Record
    <3>4. /\ pending \in [Kinds -> Nat]
          /\ stored \in [Kinds -> Nat] /\ decided \in [Kinds -> Nat] /\ lost \in [Kinds -> Nat]
      BY <1>a DEF EventsOK
    <3>5. pending' \in [Kinds -> Nat]
      BY <3>3, <3>4 DEF Kinds
    <3>6. EventLedger'
      <4>1. decided["allowed"] = stored["allowed"] + pending["allowed"] + lost["allowed"] + Cardinality(Serving)
            /\ decided["rejected"] = stored["rejected"] + pending["rejected"] + lost["rejected"] + 0
        BY <1>a DEF EventsOK, EventLedger, Kinds
      <4>2. /\ pending'["allowed"] = pending["allowed"] + 1
            /\ pending'["rejected"] = pending["rejected"]
        BY <3>3, <3>4 DEF Kinds
      <4> QED
        BY <3>2, <3>3, <3>4, <4>1, <4>2 DEF EventLedger, Kinds
    <3> QED
      BY <3>3, <3>4, <3>5, <3>6 DEF EventsOK
  <2> QED
    BY <1>a, <1>b, <1>10, <2>1, <2>2, <2>3 DEF Serve
<1>11. ASSUME NEW w \in Worker, ServeUnlimited(w)
       PROVE  Kept
  <2>1. RequestsOK' /\ pc' = [pc EXCEPT ![w] = "idle"]
    BY <1>a, <1>11, EndKeepsRequests DEF ServeUnlimited, BypassLeaves
  <2>2. CountsOK'
    BY <1>a, <1>11, <2>1, CountsKeptByMove DEF ServeUnlimited
  <2> QED
    BY <1>a, <1>b, <1>11, <2>1, <2>2, EventsKeptByMove DEF ServeUnlimited, BypassLeaves
<1>12. ASSUME NEW kind \in Kinds, Settle(kind)
       PROVE  Kept
  <2>1. UNCHANGED <<config, database, process, count, uncounted, pc, by, policy, late, inForce>>
    BY <1>12 DEF Settle, Insert, GiveUp, request
  <2>2. RequestsOK'
    BY <1>a, <2>1 DEF RequestsOK, LateOnesAreKnown, PolicyInForce, CurrentInForce, CurrentPolicies,
                      Running, database, process
  <2>3. EventsOK'
    <3>1. Serving' = Serving
      BY <2>1 DEF Serving
    <3> QED
      BY <1>a, <1>12, <3>1 DEF Settle, Insert, GiveUp, EventsOK, EventLedger, Kinds
  <2> QED
    BY <1>a, <1>b, <2>1, <2>2, <2>3, NothingMoves
<1>13. CASE Revoke
  <2>1. EnvironmentOK'
    BY <1>a, <1>13, MiddlewareBounds DEF Revoke, Change, EnvironmentOK, config, process
  <2>2. RequestsOK'
    BY <1>a, <1>13 DEF Revoke, Change, RequestsOK, LateOnesAreKnown, PolicyInForce,
                       CurrentInForce, CurrentPolicies, Running, process
  <2> QED
    BY <1>a, <1>13, <2>1, <2>2, NothingMoves DEF Revoke, Change
<1>14. CASE EditKeyPolicy \/ SetRoutePolicy
  <2>1. EnvironmentOK'
    BY <1>a, <1>14, MiddlewareBounds DEF EditKeyPolicy, SetRoutePolicy, Change, EnvironmentOK, config, process
  <2>2. RequestsOK'
    BY <1>a, <1>14, ChangeKeepsRequests DEF EditKeyPolicy, SetRoutePolicy, Change, CurrentPolicies
  <2> QED
    BY <1>a, <1>14, <2>1, <2>2, NothingMoves DEF EditKeyPolicy, SetRoutePolicy, Change
<1>15. CASE Shutdown
  <2>1. EnvironmentOK'
    BY <1>a, <1>15 DEF Shutdown, EnvironmentOK, config, database
  <2>2. RequestsOK'
    BY <1>a, <1>15 DEF Shutdown, RequestsOK, LateOnesAreKnown, PolicyInForce, CurrentInForce,
                       CurrentPolicies, Running, database, request
  <2> QED
    BY <1>a, <1>15, <2>1, <2>2, NothingMoves DEF Shutdown, request
<1>16. CASE Stop
  <2>1. EnvironmentOK'
    BY <1>a, <1>16 DEF Stop, EnvironmentOK, config, database
  <2>2. RequestsOK'
    BY <1>a, <1>16 DEF Stop, RequestsOK, Places, Callers, LateOnesAreKnown, PolicyInForce, CurrentInForce
  <2>3. Cardinality(Undecided)' = 0 /\ Cardinality(Serving)' = 0
    BY <1>16, FS_EmptySet DEF Stop, Undecided, Serving
  <2>4. CountsOK'
    BY <1>16, <2>3, MiddlewareBounds DEF Stop, CountsOK, Accounted, NoCounts
  <2>5. Cardinality(Serving) \in Nat
    BY WorkersAreFinite, FS_Subset, FS_CardinalityType DEF Serving
  <2>6. EventsOK'
    BY <1>a, <1>16, <2>3, <2>5 DEF Stop, EventsOK, EventLedger, NoEvents, Kinds
  <2> QED
    BY <2>1, <2>2, <2>4, <2>6
<1>17. CASE Start
  <2>1. EnvironmentOK'
    BY <1>a, <1>17, MiddlewareBounds DEF Start, EnvironmentOK, config, database
  <2>2. RequestsOK'
    BY <1>a, <1>17 DEF Start, RequestsOK, LateOnesAreKnown, PolicyInForce, CurrentInForce,
                       CurrentPolicies, Running, database, request
  <2> QED
    BY <1>a, <1>17, <2>1, <2>2, NothingMoves DEF Start, request
<1>18. CASE UNCHANGED vars
  <2>1. RequestsOK'
    BY <1>a, <1>18 DEF vars, RequestsOK, LateOnesAreKnown, PolicyInForce, CurrentInForce,
                       CurrentPolicies, Running, database, request, process
  <2> QED
    BY <1>a, <1>b, <1>18, <2>1, NothingMoves DEF vars, request
<1> QED
  BY <1>1, <1>2, <1>3, <1>4, <1>5, <1>6, <1>7, <1>8, <1>9, <1>10, <1>11, <1>12, <1>13, <1>14,
     <1>15, <1>16, <1>17, <1>18 DEF Next, Advance

\* The inductive invariant holds of every behaviour.
THEOREM Invariance == Spec => []IInv
BY InvariantInitially, InvariantKept, PTL DEF Spec

\* The variables keep their types, and a process that is down serves nobody.
THEOREM TypeCorrect == Spec => []TypeOK
BY Invariance, PTL DEF IInv

\* However many handlers there are, every request counted is allowed, rejected,
\* an error, turned away, a panic, or on its way, exactly once.
THEOREM RequestsAccounted == Spec => []Accounted
BY Invariance, PTL DEF IInv

\* Every decision leaves one event, stored once or lost with its goroutine or
\* its process, over all lives of the process.
THEOREM EventsKept == Spec => []EventLedger
BY Invariance, PTL DEF IInv

\* A request that arrives with a revoked key gets no further than the query
\* for the key.
THEOREM RevokedKept == Spec => []RevokedStaysOut
<1>1. IInv => RevokedStaysOut
  BY DEF IInv, LateOnesAreKnown, RevokedStaysOut
<1> QED
  BY <1>1, Invariance, PTL

\* A request is limited under a policy of its own time, whatever is edited
\* while it is on its way, and whichever requests its handler served before.
THEOREM PolicyKept == Spec => []PolicyInForce
BY Invariance, PTL DEF IInv
=============================================================================
