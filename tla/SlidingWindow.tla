---------------------------- MODULE SlidingWindow ----------------------------
(***************************************************************************)
(* The Redis sliding window log: SlidingWindow.Allow                       *)
(* (limiter/sliding_window.go) and its Lua script (redis/scripts.go), for  *)
(* one key that all the API instances share.                               *)
(*                                                                         *)
(* The key holds a sorted set with one member for each admitted call,      *)
(* scored with the reading of the caller's clock.  The member is a uuid    *)
(* made once per call, so a retried command adds nothing twice.  As in     *)
(* TokenBucket, readings are old or skewed when the script uses them.      *)
(***************************************************************************)
EXTENDS RedisCall, FiniteSets

CONSTANTS
  Limiters,  \* configurations [limit, window (seconds)] to try
  MaxCalls   \* bound: calls in a behaviour

ASSUME MaxCallsAssumption == MaxCalls \in Nat
ASSUME LimitersAssumption == \A l \in Limiters : l.limit \in Int /\ l.window \in Int

VARIABLES
  lim,      \* the limiter's configuration
  log,      \* the sorted set: [id, score], id standing for the member's uuid
  expires,  \* the key's expiry
  calls,    \* calls so far, and the id of the newest
  id,       \* the id of each worker's call
  charged   \* history: [id, at], the recent calls the script let through and
            \* Redis's time when it last did

config == <<lim, skew>>
store == <<log, expires, charged>>
vars == <<config, time, store, calls, id, call>>

Window == lim.window * TicksPerSecond

\* Mutant: the key is dropped while its members still count.
TtlTooShort == Window \div 3

Ttl == 2 * Window

Absent == -1

-----------------------------------------------------------------------------
(* The script *)

Live == IF time <= expires THEN log ELSE {}

\* Mutant: members are never removed.
UpToDateNever(n) == Live

\* The members ZREMRANGEBYSCORE leaves at reading n.
UpToDate(n) == {e \in Live : e.score > n - Window}

\* Mutant: one call too many.
HasRoomOffByOne(n) == Cardinality(UpToDate(n)) <= lim.limit

HasRoom(n) == Cardinality(UpToDate(n)) < lim.limit

\* PEXPIRE with a time that is not positive deletes the key.
Store(members) ==
  /\ log' = IF Ttl > 0 THEN members ELSE {}
  /\ expires' = IF Ttl > 0 THEN time + Ttl ELSE Absent

CeilDiv(a, b) == (a + b - 1) \div b

\* Mutant: the client waits for the newest member to leave the window.
WaitForNewest(n) ==
  IF UpToDate(n) = {} THEN 1
  ELSE LET newest == CHOOSE e \in UpToDate(n) : \A f \in UpToDate(n) : f.score <= e.score
       IN  CeilDiv(newest.score + Window - n, TicksPerSecond)

\* The whole seconds until the oldest member leaves the window, 1 at least.
Wait(n) ==
  IF UpToDate(n) = {} THEN 1
  ELSE LET oldest == CHOOSE e \in UpToDate(n) : \A f \in UpToDate(n) : e.score <= f.score
           wait   == CeilDiv(oldest.score + Window - n, TicksPerSecond)
       IN  IF wait < 1 THEN 1 ELSE wait

\* What the properties look back on.
Horizon == Window + MaxLag + MaxSkew

Let(w) ==
  /\ HasRoom(now[w])
  /\ Store(UpToDate(now[w]) \cup {[id |-> id[w], score |-> now[w]]})
  /\ charged' = {c \in charged : c.id # id[w]} \cup {[id |-> id[w], at |-> time]}

Deny(w) ==
  /\ ~HasRoom(now[w])
  /\ Store(UpToDate(now[w]))
  /\ UNCHANGED charged

-----------------------------------------------------------------------------
(* The call *)

Arrive(w) ==
  /\ calls < MaxCalls
  /\ calls' = calls + 1
  /\ id' = [id EXCEPT ![w] = calls + 1]
  /\ Send(w)
  /\ UNCHANGED <<config, time, store>>

\* The script runs and its reply arrives.
Admit(w) ==
  /\ Calling(w)
  /\ Let(w)
  /\ End(w, "allowed", 0)
  /\ UNCHANGED <<config, time, calls, id>>

Reject(w) ==
  /\ Calling(w)
  /\ Deny(w)
  /\ End(w, "rejected", Wait(now[w]))
  /\ UNCHANGED <<config, time, calls, id>>

\* The script ran, but its reply is lost.
LoseReply(w) ==
  /\ Calling(w)
  /\ Let(w) \/ Deny(w)
  /\ FailAttempt(w)
  /\ UNCHANGED <<config, time, calls, id>>

\* The attempt never reached Redis.
Unreachable(w) ==
  /\ Calling(w)
  /\ FailAttempt(w)
  /\ UNCHANGED <<config, time, store, calls, id>>

Cancel(w) ==
  /\ Abandon(w)
  /\ UNCHANGED <<config, time, store, calls, id>>

\* Time passes; the history forgets what no property looks back on.
Tick ==
  /\ TimePasses
  /\ charged' = {c \in charged : c.at > time' - Horizon}
  /\ UNCHANGED <<config, log, expires, calls, id, call>>

-----------------------------------------------------------------------------
Init ==
  /\ lim \in Limiters
  /\ CallInit
  /\ log = {}
  /\ expires = Absent
  /\ calls = 0
  /\ id = [w \in Worker |-> 0]
  /\ charged = {}

Next ==
  \/ Tick
  \/ \E w \in Worker :
       \/ Arrive(w)
       \/ Admit(w)
       \/ Reject(w)
       \/ LoseReply(w)
       \/ Unreachable(w)
       \/ Cancel(w)

Spec == Init /\ [][Next]_vars

-----------------------------------------------------------------------------
(* Properties *)

\* A limit below one (nothing checks the configured default) lets nobody through.
Room == IF lim.limit > 0 THEN lim.limit ELSE 0

\* The values the variables take; the sorted set never outgrows the limit.
TypeOK ==
  /\ CallTypeOK
  /\ lim \in Limiters
  /\ log \subseteq [id : 1..MaxCalls, score : Nat]
  /\ Cardinality(log) <= Room
  /\ expires \in Nat \cup {Absent}
  /\ calls \in 0..MaxCalls
  /\ id \in [Worker -> 0..MaxCalls]
  /\ charged \subseteq [id : 1..MaxCalls, at : Nat]

ChargedSince(t) == {c \in charged : c.at > t}

\* No interval shorter than the window by the delays and skews that readings
\* suffer sees more than `limit` calls let through, over all the instances:
\* with one clock and no delay, no interval as long as the window does.
SlidingLimit ==
  lim.window > 0 =>
    Cardinality(ChargedSince(time - (Window - MaxLag - MaxSkew))) <= Room

\* A call is refused only when `limit` calls were let through within the
\* window, give or take the same delays and skews: neither the trimming nor
\* a retried command takes room from other clients.
RefusesOnlyWhenFull ==
  [][\A w \in Worker :
       (Calling(w) /\ verdict'[w] = "rejected" /\ lim.window > 0) =>
         Cardinality(ChargedSince(time - Horizon)) >= lim.limit]_vars

\* Retry-After is the exact number of seconds: the same client, returning
\* then and undisturbed, finds room, and one second earlier it does not.
RetryIsExact ==
  [][\A w \in Worker :
       (Calling(w) /\ verdict'[w] = "rejected" /\ lim.limit > 0) =>
         LET LeftAfter(s) == {e \in log' : e.score > now[w] + s * TicksPerSecond - Window}
         IN  /\ Cardinality(LeftAfter(retryAfter'[w])) < lim.limit
             /\ Cardinality(LeftAfter(retryAfter'[w] - 1)) >= lim.limit]_vars
=============================================================================
