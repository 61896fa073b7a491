--------------------------- MODULE LimiterFactory ---------------------------
(***************************************************************************)
(* LimiterFactory.FromPolicy (middleware/rate_limit.go) on the memory      *)
(* backend: one API instance that keeps a limiter for each combination of  *)
(* policy parameters, looks it up under a lock, and creates it outside the *)
(* lock when it is missing.  A memory limiter holds the buckets, so which  *)
(* limiter a request ends up with matters.  (A Redis limiter holds nothing *)
(* but its parameters: there the same race is harmless.)                   *)
(*                                                                         *)
(* The requests are those of one identity on one route: an API key, which  *)
(* always has a policy, or an address, which has one only while a route    *)
(* policy applies, and otherwise uses the default limiter that the server  *)
(* made when it started.  An administrator may change the policy between   *)
(* the requests.                                                           *)
(***************************************************************************)
EXTENDS MemoryTokenBucket, Sequences, FiniteSetsExt

CONSTANTS
  Worker,       \* request handlers of the instance
  Policies,     \* the database's: [request_limit, window_seconds, burst_capacity]
  Defaults,     \* default policies that the environment may configure
  MaxTime,      \* bound: the clock stops here
  MaxRequests,  \* bound: requests in a behaviour
  MaxEdits      \* bound: edits of the policy

\* The database checks its columns; nothing checks the environment.  (A default
\* window below zero is left out: amounts are in grains of a window.)
ASSUME PoliciesArePositive ==
  \A p \in Policies : p.request_limit > 0 /\ p.window_seconds > 0 /\ p.burst_capacity > 0

ASSUME PoliciesAreNumbers ==
  \A p \in Policies \cup Defaults :
    p.request_limit \in Int /\ p.window_seconds \in Nat /\ p.burst_capacity \in Int

ASSUME WorkersAreFinite == IsFiniteSet(Worker) /\ Worker # {}

ASSUME FactoryBounds == MaxTime \in Nat /\ MaxRequests \in Nat /\ MaxEdits \in Nat

VARIABLES
  time,      \* the instance's clock, in ticks
  fallback,  \* the default policy; its limiter is the first one made
  policy,    \* the identity's policy in the database now, or Unset
  edits,     \* edits so far
  requests,  \* requests so far
  cache,     \* the factory's map: the index of a limiter, or Missing
  limiters,  \* every limiter ever made: [policy, bucket, born, taken]
  pc,        \* where each request is
  found,     \* the policy each request was identified with
  holds,     \* the limiter each request got
  retryAfter \* the seconds the last rejection told the client to wait

request == <<pc, found, holds, retryAfter>>
vars == <<time, fallback, policy, edits, requests, cache, limiters, request>>

Missing == 0
Unset == [request_limit |-> 0, window_seconds |-> 0, burst_capacity |-> 0]

\* Mutant: the policy's burst is left out of the cache's key.
CacheKeyWithoutBurst(p) == [p EXCEPT !.burst_capacity = 0]

\* The key of the cache: every parameter that tells two limiters apart.  (The
\* algorithm and the backend are the same for all policies here.)
CacheKey(p) == p

CacheKeys == {CacheKey(p) : p \in Policies \cup Defaults}

\* A policy without a burst has its request limit for capacity.
Config(p) ==
  [capacity |-> IF p.burst_capacity <= 0 THEN p.request_limit ELSE p.burst_capacity,
   window |-> p.window_seconds]

\* The bucket of an identity that a limiter has not seen.
NoBucket == [tokens |-> 0, lastRefill |-> 0, nan |-> FALSE]

NewLimiter(p) == [policy |-> p, used |-> FALSE, bucket |-> NoBucket, born |-> 0, taken |-> 0]

-----------------------------------------------------------------------------
(* A request *)

\* The policy is read from the database; without one the request takes the
\* default limiter, and does not ask the factory.
Identify(w) ==
  /\ pc[w] = "done"
  /\ requests < MaxRequests
  /\ requests' = requests + 1
  /\ IF policy # Unset
     THEN /\ found' = [found EXCEPT ![w] = policy]
          /\ pc' = [pc EXCEPT ![w] = "lookup"]
          /\ UNCHANGED holds
     ELSE /\ found' = [found EXCEPT ![w] = fallback]
          /\ pc' = [pc EXCEPT ![w] = "allow"]
          /\ holds' = [holds EXCEPT ![w] = 1]
  /\ UNCHANGED <<time, fallback, policy, edits, cache, limiters, retryAfter>>

\* Mutant: the cache is not consulted.
IsCachedNever(p) == FALSE

IsCached(p) == cache[CacheKey(p)] # Missing

\* The map is read under the lock.
Hit(w) ==
  /\ pc[w] = "lookup"
  /\ IsCached(found[w])
  /\ holds' = [holds EXCEPT ![w] = cache[CacheKey(found[w])]]
  /\ pc' = [pc EXCEPT ![w] = "allow"]
  /\ UNCHANGED <<time, fallback, policy, edits, requests, cache, limiters, found, retryAfter>>

Miss(w) ==
  /\ pc[w] = "lookup"
  /\ ~IsCached(found[w])
  /\ pc' = [pc EXCEPT ![w] = "create"]
  /\ UNCHANGED <<time, fallback, policy, edits, requests, cache, limiters, found, holds, retryAfter>>

\* The lock was released in between: what another request stored is replaced.
Create(w) ==
  /\ pc[w] = "create"
  /\ limiters' = Append(limiters, NewLimiter(found[w]))
  /\ cache' = [cache EXCEPT ![CacheKey(found[w])] = Len(limiters')]
  /\ holds' = [holds EXCEPT ![w] = Len(limiters')]
  /\ pc' = [pc EXCEPT ![w] = "allow"]
  /\ UNCHANGED <<time, fallback, policy, edits, requests, found, retryAfter>>

\* The bucket a request finds in the limiter it holds, refilled.
Find(w) ==
  LET l == limiters[holds[w]]
      c == Config(l.policy)
  IN  Refilled(c, IF l.used THEN l.bucket ELSE Fresh(c, time), time)

\* A limiter once it has stored the identity's bucket.
Served(l, bucket, took) ==
  [policy |-> l.policy, used |-> TRUE, bucket |-> bucket,
   born |-> IF l.used THEN l.born ELSE time, taken |-> l.taken + took]

Finish(w, bucket, took, wait) ==
  /\ limiters' = [limiters EXCEPT ![holds[w]] = Served(@, bucket, took)]
  /\ pc' = [pc EXCEPT ![w] = "done"]
  /\ holds' = [holds EXCEPT ![w] = Missing]
  /\ retryAfter' = [retryAfter EXCEPT ![w] = wait]
  /\ UNCHANGED <<time, fallback, policy, edits, requests, cache, found>>

Admit(w) ==
  /\ pc[w] = "allow"
  /\ HasToken(Config(limiters[holds[w]].policy), Find(w))
  /\ Finish(w, Spent(Config(limiters[holds[w]].policy), Find(w)), 1, 0)

Reject(w) ==
  /\ pc[w] = "allow"
  /\ ~HasToken(Config(limiters[holds[w]].policy), Find(w))
  /\ \E wait \in Waits(Config(limiters[holds[w]].policy), Find(w)) :
       Finish(w, Find(w), 0, wait)

-----------------------------------------------------------------------------
(* The environment *)

\* An administrator changes the policy, assigns another, or takes it away.
EditPolicy ==
  /\ edits < MaxEdits
  /\ edits' = edits + 1
  /\ \E p \in (Policies \cup {Unset}) \ {policy} : policy' = p
  /\ UNCHANGED <<time, fallback, requests, cache, limiters, request>>

Tick ==
  /\ time < MaxTime
  /\ time' = time + 1
  /\ UNCHANGED <<fallback, policy, edits, requests, cache, limiters, request>>

Init ==
  /\ time = 0
  /\ fallback \in Defaults
  /\ policy \in Policies \cup {Unset}
  /\ edits = 0
  /\ requests = 0
  /\ cache = [k \in CacheKeys |-> IF k = CacheKey(fallback) THEN 1 ELSE Missing]
  /\ limiters = <<NewLimiter(fallback)>>
  /\ pc = [w \in Worker |-> "done"]
  /\ found = [w \in Worker |-> fallback]
  /\ holds = [w \in Worker |-> Missing]
  /\ retryAfter = [w \in Worker |-> 0]

Next ==
  \/ Tick
  \/ EditPolicy
  \/ \E w \in Worker :
       \/ Identify(w)
       \/ Hit(w)
       \/ Miss(w)
       \/ Create(w)
       \/ Admit(w)
       \/ Reject(w)

Spec == Init /\ [][Next]_vars

-----------------------------------------------------------------------------
(* Properties *)

\* The values the variables take; a request that has its limiter holds one
\* made for the policy it was identified with.
TypeOK ==
  /\ time \in 0..MaxTime
  /\ fallback \in Defaults
  /\ policy \in Policies \cup {Unset}
  /\ edits \in 0..MaxEdits
  /\ requests \in 0..MaxRequests
  /\ cache \in [CacheKeys -> 0..Len(limiters)]
  /\ pc \in [Worker -> {"done", "lookup", "create", "allow"}]
  /\ found \in [Worker -> Policies \cup {fallback}]
  /\ holds \in [Worker -> 0..Len(limiters)]
  /\ \A w \in Worker : pc[w] = "allow" => limiters[holds[w]].policy = found[w]
  /\ retryAfter \in [Worker -> Nat]

Paying(l) == Config(l.policy).capacity > 0 /\ Config(l.policy).window > 0

\* Each limiter, taken by itself, keeps its budget: what it gave out is paid
\* for by its burst and by the time since it was first used, however its
\* requests interleave and whichever policies come and go in between.
LimiterLedger ==
  \A i \in 1..Len(limiters) :
    LET l == limiters[i]
        c == Config(l.policy)
    IN  (Paying(l) /\ l.used) =>
          l.taken * Token(c) + l.bucket.tokens
            <= Full(c) + c.capacity * (time - l.born)

Indices(p) == {i \in 1..Len(limiters) : limiters[i].policy = p}

\* The check and the store are not one step, so first requests that overlap
\* each make a limiter.  But only they do: however long the instance runs and
\* however often the policy is edited and edited back, no policy ever gets more
\* limiters than there are handlers.
RaceIsBounded ==
  \A p \in Policies \cup {fallback} : Cardinality(Indices(p)) <= Cardinality(Worker)

\* A rejected client that waits Retry-After and one second more finds a token,
\* if nobody else took it.  (Retry-After itself is truncated, and may be short.)
RetryWithinASecond ==
  [][\A w \in Worker :
       (Reject(w) /\ Paying(limiters[holds[w]])) =>
         LET l == limiters'[holds[w]]
             c == Config(l.policy)
             back == time + (retryAfter'[w] + 1) * TicksPerSecond
         IN  HasToken(c, Refilled(c, l.bucket, back))]_vars

\* All requests under one policy together keep the policy's budget.
PolicyBudget ==
  \A p \in Policies :
    (Config(p).capacity > 0 /\ Config(p).window > 0) =>
      MapThenSumSet(LAMBDA i : limiters[i].taken, Indices(p)) * Token(Config(p))
        <= Full(Config(p)) + Config(p).capacity * time
=============================================================================
