------------------------- MODULE RateLimitMiddleware -------------------------
(***************************************************************************)
(* RateLimitWithTelemetry (middleware/rate_limit.go): what one API         *)
(* instance does with a request for a protected route, from the first      *)
(* counter to the event it leaves in the database, while an administrator  *)
(* changes policies and revokes the key, and while main                    *)
(* (cmd/server/main.go) shuts down.                                        *)
(*                                                                         *)
(* A request reads the database twice (its key with the key's policy, then *)
(* the route's policy) and asks a limiter: three moments between which     *)
(* anything may change, and each of which may fail.  What a limiter        *)
(* answers is left open here: TokenBucket, SlidingWindow, FixedWindow and  *)
(* LimiterFactory say that.                                                *)
(*                                                                         *)
(* The requests are those of one API key and of callers without a key, who *)
(* are identified by their address if they have one: the header            *)
(* X-Forwarded-For may leave it empty.                                     *)
(***************************************************************************)
EXTENDS Integers, FiniteSets

CONSTANTS
  Worker,       \* request handlers of the instance
  Policy,       \* parameters a policy may have
  Default,      \* stands for the default limiter
  NoPolicy,     \* the route has no enabled policy
  MaxRequests,  \* bound: requests in one life of the process
  MaxChanges,   \* bound: changes an administrator makes
  MaxStarts     \* bound: times the process starts

ASSUME MiddlewareBounds ==
  MaxRequests \in Nat /\ MaxChanges \in Nat /\ MaxStarts \in Nat \ {0}
ASSUME WorkersAreFinite == IsFiniteSet(Worker)
ASSUME DefaultIsNoPolicy == Default \notin Policy /\ NoPolicy \notin Policy

VARIABLES
  failureMode,  \* configuration: "open" or "closed"
  zeroWindow,   \* configuration: the default limiter divides by zero
  keyPolicy,    \* database: the policy of the key
  revoked,      \* database: the key is revoked
  routePolicy,  \* database: the policy of the route
  changes,      \* changes so far
  stored,       \* database: request events, by kind
  phase,        \* of the process
  starts,       \* starts so far
  count,        \* the Prometheus counters, in the memory of the process
  pending,      \* goroutines about to store an event, by kind
  pc,           \* where each request is
  by,           \* "key", "ip" or "nobody": who each request comes from
  policy,       \* the policy each request is limited under, or Default
  late,         \* history: the key was revoked before the request arrived
  inForce,      \* history: policies of key and route since the request arrived
  uncounted,    \* history: requests of this life that only `requests` counts
  decided,      \* history: decisions of limiters, by kind
  lost          \* history: events never stored, by kind

config == <<failureMode, zeroWindow>>
database == <<keyPolicy, revoked, routePolicy, changes>>
process == <<phase, starts>>
events == <<pending, stored, decided, lost>>
request == <<pc, by, policy, late, inForce>>
vars == <<config, database, process, count, events, request, uncounted>>

Callers == {"key", "ip", "nobody"}
Kinds == {"allowed", "rejected"}
NoEvents == [k \in Kinds |-> 0]
NoCounts == [requests |-> 0, allowed |-> 0, rejected |-> 0, errors |-> 0]

Running == phase # "down"
RedisOpen == phase = "up"
DatabaseOpen == phase \in {"up", "redisClosed"}

CurrentPolicies == {keyPolicy, routePolicy} \cap Policy

-----------------------------------------------------------------------------
(* A request *)

\* The listener is never closed: requests come in until the process is gone.
Arrive(w) ==
  /\ Running
  /\ pc[w] = "idle"
  /\ count.requests < MaxRequests
  /\ count' = [count EXCEPT !.requests = @ + 1]
  /\ pc' = [pc EXCEPT ![w] = "identify"]
  /\ \E who \in Callers :
       /\ by' = [by EXCEPT ![w] = who]
       /\ late' = [late EXCEPT ![w] = who = "key" /\ revoked]
  /\ inForce' = [inForce EXCEPT ![w] = CurrentPolicies]
  /\ UNCHANGED <<config, database, process, events, policy, uncounted>>

\* The handler returns.
End(w) ==
  /\ pc' = [pc EXCEPT ![w] = "idle"]
  /\ by' = [by EXCEPT ![w] = "ip"]
  /\ policy' = [policy EXCEPT ![w] = Default]
  /\ late' = [late EXCEPT ![w] = FALSE]
  /\ inForce' = [inForce EXCEPT ![w] = {}]

\* Mutant: the query does not ask for revoked_at.
KnowsKeyRevokedToo(w) == by[w] = "key" /\ DatabaseOpen

KnowsKey(w) == by[w] = "key" /\ DatabaseOpen /\ ~revoked

\* Mutant: the policy found with the key is not used.
PolicyOfNobody(w) == Default

PolicyOf(w) == IF by[w] = "key" THEN keyPolicy ELSE Default

\* The key is found with its policy; a caller without a key is its address.
Identify(w) ==
  /\ pc[w] = "identify"
  /\ by[w] = "ip" \/ KnowsKey(w)
  /\ policy' = [policy EXCEPT ![w] = PolicyOf(w)]
  /\ pc' = [pc EXCEPT ![w] = "route"]
  /\ UNCHANGED <<config, database, process, count, events>>
  /\ UNCHANGED <<by, late, inForce, uncounted>>

\* A key that is not found, every failure of the query, and a caller with
\* neither a key nor an address: 401, not counted.
TurnAway(w) ==
  /\ pc[w] = "identify"
  /\ by[w] \in {"key", "nobody"}
  /\ End(w)
  /\ uncounted' = uncounted + 1
  /\ UNCHANGED <<config, database, process, count, events>>

\* Mutant: that no policy was found is not noticed.
FindsRouteAlways == DatabaseOpen

FindsRoute == DatabaseOpen /\ routePolicy # NoPolicy

\* The route's policy takes the place of the key's.
Override(w) ==
  /\ pc[w] = "route"
  /\ FindsRoute
  /\ policy' = [policy EXCEPT ![w] = routePolicy]
  /\ pc' = [pc EXCEPT ![w] = "limit"]
  /\ UNCHANGED <<config, database, process, count, events>>
  /\ UNCHANGED <<by, late, inForce, uncounted>>

\* The route has none, or the query fails (which it may do at any moment): the
\* error is ignored.
KeepPolicy(w) ==
  /\ pc[w] = "route"
  /\ pc' = [pc EXCEPT ![w] = "limit"]
  /\ UNCHANGED <<config, database, process, count, events>>
  /\ UNCHANGED <<by, policy, late, inForce, uncounted>>

Panics(w) == policy[w] = Default /\ zeroWindow

Decides(w) == pc[w] = "limit" /\ RedisOpen /\ ~Panics(w)

\* Mutant: a request that is let through is counted twice.
CountedTwice == [count EXCEPT !.allowed = @ + 2]

Counted == [count EXCEPT !.allowed = @ + 1]

Allow(w) ==
  /\ Decides(w)
  /\ count' = Counted
  /\ decided' = [decided EXCEPT !["allowed"] = @ + 1]
  /\ pc' = [pc EXCEPT ![w] = "serve"]
  /\ UNCHANGED <<config, database, process, pending, stored, lost>>
  /\ UNCHANGED <<by, policy, late, inForce, uncounted>>

Record(kind) == pending' = [pending EXCEPT ![kind] = @ + 1]

Reject(w) ==
  /\ Decides(w)
  /\ count' = [count EXCEPT !.rejected = @ + 1]
  /\ decided' = [decided EXCEPT !["rejected"] = @ + 1]
  /\ Record("rejected")
  /\ End(w)
  /\ UNCHANGED <<config, database, process, stored, lost, uncounted>>

\* The limiter's error, a cancelled request's included.  Failing open, the
\* request is served without a limit.
FailOpen(w) ==
  /\ pc[w] = "limit"
  /\ ~Panics(w)
  /\ failureMode = "open"
  /\ count' = [count EXCEPT !.errors = @ + 1]
  /\ pc' = [pc EXCEPT ![w] = "bypass"]
  /\ UNCHANGED <<config, database, process, events>>
  /\ UNCHANGED <<by, policy, late, inForce, uncounted>>

FailClosed(w) ==
  /\ pc[w] = "limit"
  /\ ~Panics(w)
  /\ failureMode # "open"
  /\ count' = [count EXCEPT !.errors = @ + 1]
  /\ End(w)
  /\ UNCHANGED <<config, database, process, events, uncounted>>

\* The recovery middleware answers 500.
Panic(w) ==
  /\ pc[w] = "limit"
  /\ Panics(w)
  /\ End(w)
  /\ uncounted' = uncounted + 1
  /\ UNCHANGED <<config, database, process, count, events>>

\* The handler of the route answers, and the event is recorded.
Serve(w) ==
  /\ pc[w] = "serve"
  /\ Record("allowed")
  /\ End(w)
  /\ UNCHANGED <<config, database, process, count, stored, decided, lost, uncounted>>

\* Mutant: a request that was never decided leaves an event, too.
BypassRecorded == Record("allowed") /\ UNCHANGED <<stored, decided, lost>>

BypassLeaves == UNCHANGED events

ServeUnlimited(w) ==
  /\ pc[w] = "bypass"
  /\ BypassLeaves
  /\ End(w)
  /\ UNCHANGED <<config, database, process, count, uncounted>>

Advance(w) ==
  \/ Identify(w)
  \/ TurnAway(w)
  \/ Override(w)
  \/ KeepPolicy(w)
  \/ Allow(w)
  \/ Reject(w)
  \/ FailOpen(w)
  \/ FailClosed(w)
  \/ Panic(w)
  \/ Serve(w)
  \/ ServeUnlimited(w)

-----------------------------------------------------------------------------
(* Events: each is stored by a goroutine of its own, which gives up after  *)
(* two seconds.                                                            *)

Insert(kind) ==
  /\ pending[kind] > 0
  /\ DatabaseOpen
  /\ pending' = [pending EXCEPT ![kind] = @ - 1]
  /\ stored' = [stored EXCEPT ![kind] = @ + 1]
  /\ UNCHANGED <<config, database, process, count, decided, lost>>
  /\ UNCHANGED <<request, uncounted>>

GiveUp(kind) ==
  /\ pending[kind] > 0
  /\ pending' = [pending EXCEPT ![kind] = @ - 1]
  /\ lost' = [lost EXCEPT ![kind] = @ + 1]
  /\ UNCHANGED <<config, database, process, count, decided, stored>>
  /\ UNCHANGED <<request, uncounted>>

Settle(kind) == Insert(kind) \/ GiveUp(kind)

-----------------------------------------------------------------------------
(* The administrator, in any instance *)

Change ==
  /\ changes < MaxChanges
  /\ changes' = changes + 1
  /\ UNCHANGED <<config, process, count, events, uncounted>>
  /\ UNCHANGED <<pc, by, policy, late>>

InForceToo(p) ==
  inForce' = [w \in Worker |->
                IF pc[w] = "idle" THEN {} ELSE inForce[w] \cup ({p} \cap Policy)]

Revoke ==
  /\ Change
  /\ ~revoked
  /\ revoked' = TRUE
  /\ UNCHANGED <<keyPolicy, routePolicy, inForce>>

EditKeyPolicy ==
  /\ Change
  /\ \E p \in Policy \ {keyPolicy} : keyPolicy' = p /\ InForceToo(p)
  /\ UNCHANGED <<revoked, routePolicy>>

SetRoutePolicy ==
  /\ Change
  /\ \E p \in (Policy \cup {NoPolicy}) \ {routePolicy} : routePolicy' = p /\ InForceToo(p)
  /\ UNCHANGED <<revoked, keyPolicy>>

-----------------------------------------------------------------------------
(* The process *)

\* On a signal main returns, and its deferred calls run, last one first: the
\* Redis client is closed, then the pool, with requests still coming in.
Shutdown ==
  /\ phase \in {"up", "redisClosed"}
  /\ phase' = IF phase = "up" THEN "redisClosed" ELSE "dbClosed"
  /\ UNCHANGED <<config, database, starts, count, events, request, uncounted>>

Serving == {w \in Worker : pc[w] = "serve"}

\* The process is gone, at the end of a shutdown or at any other moment:
\* requests in flight are dropped, goroutines and counters vanish.
Stop ==
  /\ Running
  /\ phase' = "down"
  /\ pc' = [w \in Worker |-> "idle"]
  /\ by' = [w \in Worker |-> "ip"]
  /\ policy' = [w \in Worker |-> Default]
  /\ late' = [w \in Worker |-> FALSE]
  /\ inForce' = [w \in Worker |-> {}]
  /\ count' = NoCounts
  /\ uncounted' = 0
  /\ pending' = NoEvents
  /\ lost' = [k \in Kinds |->
               lost[k] + pending[k] + IF k = "allowed" THEN Cardinality(Serving) ELSE 0]
  /\ UNCHANGED <<config, database, starts, stored, decided>>

Start ==
  /\ phase = "down"
  /\ starts < MaxStarts
  /\ starts' = starts + 1
  /\ phase' = "up"
  /\ UNCHANGED <<config, database, count, events, request, uncounted>>

-----------------------------------------------------------------------------
Init ==
  /\ failureMode \in {"open", "closed"}
  /\ zeroWindow \in BOOLEAN
  /\ keyPolicy \in Policy
  /\ revoked = FALSE
  /\ routePolicy \in Policy \cup {NoPolicy}
  /\ changes = 0
  /\ stored = NoEvents
  /\ phase = "up"
  /\ starts = 1
  /\ count = NoCounts
  /\ pending = NoEvents
  /\ pc = [w \in Worker |-> "idle"]
  /\ by = [w \in Worker |-> "ip"]
  /\ policy = [w \in Worker |-> Default]
  /\ late = [w \in Worker |-> FALSE]
  /\ inForce = [w \in Worker |-> {}]
  /\ uncounted = 0
  /\ decided = NoEvents
  /\ lost = NoEvents

Next ==
  \/ \E w \in Worker : Arrive(w) \/ Advance(w)
  \/ \E kind \in Kinds : Settle(kind)
  \/ Revoke
  \/ EditKeyPolicy
  \/ SetRoutePolicy
  \/ Shutdown
  \/ Stop
  \/ Start

Spec == Init /\ [][Next]_vars

-----------------------------------------------------------------------------
(* Properties *)

\* The values the variables take; a process that is down does nothing.
TypeOK ==
  /\ failureMode \in {"open", "closed"}
  /\ zeroWindow \in BOOLEAN
  /\ keyPolicy \in Policy
  /\ revoked \in BOOLEAN
  /\ routePolicy \in Policy \cup {NoPolicy}
  /\ changes \in 0..MaxChanges
  /\ {stored, pending, decided, lost} \subseteq [Kinds -> Nat]
  /\ phase \in {"up", "redisClosed", "dbClosed", "down"}
  /\ starts \in 1..MaxStarts
  /\ count \in [requests : 0..MaxRequests, allowed : Nat, rejected : Nat, errors : Nat]
  /\ pc \in [Worker -> {"idle", "identify", "route", "limit", "serve", "bypass"}]
  /\ by \in [Worker -> Callers]
  /\ policy \in [Worker -> Policy \cup {Default}]
  /\ late \in [Worker -> BOOLEAN]
  /\ inForce \in [Worker -> SUBSET Policy]
  /\ uncounted \in Nat
  /\ ~Running => \A w \in Worker : pc[w] = "idle"

Undecided == {w \in Worker : pc[w] \in {"identify", "route", "limit"}}

\* Every request that was counted is allowed, rejected or an error of the
\* limiter, exactly once, but for those turned away with 401, those that
\* panicked and those still on their way.
Accounted ==
  count.requests =
    count.allowed + count.rejected + count.errors + uncounted + Cardinality(Undecided)

\* Every decision of a limiter, and nothing else, leaves one event, which is
\* stored once or lost with its goroutine or its process, over all the lives
\* of the process: requests served unlimited leave none.
EventLedger ==
  \A k \in Kinds :
    decided[k] = stored[k] + pending[k] + lost[k]
                   + IF k = "allowed" THEN Cardinality(Serving) ELSE 0

\* Once a key is revoked, no request that arrives with it gets any further, at
\* any instance; only requests on their way may still be served.
RevokedStaysOut ==
  \A w \in Worker : late[w] => pc[w] = "identify"

\* A request is limited under a policy that was its key's or its route's at
\* some moment since it arrived, and only a caller without a key is ever
\* limited by default: never under the policy of an earlier request.
PolicyInForce ==
  \A w \in Worker :
    pc[w] \in {"route", "limit", "serve", "bypass"} =>
      policy[w] \in inForce[w] \cup (IF by[w] = "ip" THEN {Default} ELSE {})
=============================================================================
