----------------------------- MODULE TokenBucket -----------------------------
(***************************************************************************)
(* The Redis token bucket: TokenBucket.Allow (limiter/token_bucket.go) and *)
(* the Lua script it sends (redis/scripts.go), for ONE bucket key that all *)
(* the API instances share.                                                *)
(*                                                                         *)
(* Redis runs the script atomically, but the caller reads its own clock    *)
(* BEFORE the command travels: `now` is sampled once, the go-redis client  *)
(* reuses the same arguments when it retries, and the clocks of the        *)
(* instances differ.  Scripts therefore run in an order that is not the    *)
(* order of their readings.                                                *)
(*                                                                         *)
(* Time is in ticks of 1/TicksPerSecond seconds.  Token amounts are exact: *)
(* a token is Token grains, one for each tick of the refill window, so one *)
(* tick refills `capacity` grains.  (The code uses float64.)               *)
(***************************************************************************)
EXTENDS RedisCall

CONSTANTS
  Limiters,       \* configurations [capacity, window (seconds)] to try
  MaxExecutions   \* bound: no call arrives after so many script executions

ASSUME MaxExecutionsAssumption == MaxExecutions \in Nat
ASSUME LimitersAssumption == \A l \in Limiters : l.capacity \in Int /\ l.window \in Int

\* A reading is younger than the window (the client gives up after seconds, a
\* window is normally a minute): the key's life of two windows relies on it.
ASSUME LagBelowWindow ==
  \A l \in Limiters : l.window > 0 => MaxLag + MaxSkew <= l.window * TicksPerSecond

VARIABLES
  lim,        \* the limiter's configuration
  bucket,     \* the hash at the key: tokens (grains), last_refill, expires
  taken,      \* history: tokens the script has given out
  refused,    \* history: executions that found no token
  regress     \* history: how far last_refill has been moved back, in all

config == <<lim, skew>>
history == <<taken, refused, regress>>
vars == <<config, time, bucket, call, history>>

Positive(x) == IF x > 0 THEN x ELSE 0
AtMost(a, b) == IF a <= b THEN a ELSE b

\* Allow falls back to a window of 60 s for the refill rate ...
RefillWindow == IF lim.window <= 0 THEN 60 ELSE lim.window
Token == RefillWindow * TicksPerSecond
Full == lim.capacity * Token

\* Mutant: the key is dropped before the bucket has refilled.
TtlTooShort == (lim.window * TicksPerSecond) \div 2

\* ... but not for the key's time to live.
Ttl == 2 * lim.window * TicksPerSecond

-----------------------------------------------------------------------------
(* The script *)

Absent == -1

\* The key is there until its expiry has passed; -1 is a key never written
\* or deleted.
Present == bucket.expires # Absent /\ time <= bucket.expires

\* Mutant: a stale reading is not clamped with math.max(0, ...).
ElapsedUnclamped(n) == n - bucket.last_refill

Elapsed(n) == Positive(n - bucket.last_refill)

\* Mutant: the bucket is not capped with math.min(capacity, ...).
RefilledUncapped(n) ==
  IF Present THEN bucket.tokens + Elapsed(n) * lim.capacity ELSE Full

\* The tokens the script finds at reading n: a missing key is a full bucket.
Refilled(n) ==
  IF Present THEN AtMost(Full, bucket.tokens + Elapsed(n) * lim.capacity) ELSE Full

\* Mutant: the wait is truncated to whole seconds, as memory.go does.
WaitTruncated(tokens) == (Token - tokens) \div (lim.capacity * TicksPerSecond)

\* The seconds until a whole token: math.ceil(missing / refill_rate).
Wait(tokens) ==
  LET perSecond == lim.capacity * TicksPerSecond
  IN  (Token - tokens + perSecond - 1) \div perSecond

\* PEXPIRE with a time that is not positive deletes the key.
ExpiryAt(t) == IF Ttl > 0 THEN t + Ttl ELSE Absent

\* Mutant: HSET writes the tokens and leaves last_refill.
WrittenWithoutRefill(tokens, n) ==
  [tokens |-> tokens, last_refill |-> bucket.last_refill, expires |-> ExpiryAt(time)]

Written(tokens, n) == [tokens |-> tokens, last_refill |-> n, expires |-> ExpiryAt(time)]

\* How far an execution at reading n moves last_refill back.
MovedBack(n) == IF Present THEN Positive(bucket.last_refill - n) ELSE 0

\* The script with a token to give, and without one.
Give(n) ==
  /\ Refilled(n) >= Token
  /\ bucket' = Written(Refilled(n) - Token, n)
  /\ taken' = taken + 1
  /\ regress' = regress + MovedBack(n)
  /\ UNCHANGED refused

Withhold(n) ==
  /\ Refilled(n) < Token
  /\ bucket' = Written(Refilled(n), n)
  /\ refused' = refused + 1
  /\ regress' = regress + MovedBack(n)
  /\ UNCHANGED taken

-----------------------------------------------------------------------------
(* The call *)

Arrive(w) ==
  /\ lim.capacity > 0
  /\ taken + refused < MaxExecutions
  /\ Send(w)
  /\ UNCHANGED <<config, time, bucket, history>>

\* A limiter without capacity refuses before it reads the clock.
RefuseNoCapacity(w) ==
  /\ ~Calling(w)
  /\ lim.capacity <= 0
  /\ verdict' = [verdict EXCEPT ![w] = "rejected"]
  /\ retryAfter' = [retryAfter EXCEPT ![w] = 1]
  /\ UNCHANGED <<config, time, bucket, now, tries, history>>

\* The script runs and its reply arrives.
Admit(w) ==
  /\ Calling(w)
  /\ Give(now[w])
  /\ End(w, "allowed", 0)
  /\ UNCHANGED <<config, time>>

Reject(w) ==
  /\ Calling(w)
  /\ Withhold(now[w])
  /\ End(w, "rejected", Wait(Refilled(now[w])))
  /\ UNCHANGED <<config, time>>

\* The script ran, but its reply is lost.
LoseReply(w) ==
  /\ Calling(w)
  /\ Give(now[w]) \/ Withhold(now[w])
  /\ FailAttempt(w)
  /\ UNCHANGED <<config, time>>

\* The attempt never reached Redis.
Unreachable(w) ==
  /\ Calling(w)
  /\ FailAttempt(w)
  /\ UNCHANGED <<config, time, bucket, history>>

Cancel(w) ==
  /\ Abandon(w)
  /\ UNCHANGED <<config, time, bucket, history>>

Tick ==
  /\ TimePasses
  /\ UNCHANGED <<config, bucket, call, history>>

-----------------------------------------------------------------------------
Init ==
  /\ lim \in Limiters
  /\ CallInit
  /\ bucket = [tokens |-> 0, last_refill |-> 0, expires |-> Absent]
  /\ taken = 0
  /\ refused = 0
  /\ regress = 0

\* What the client library does for a call in flight; its timeouts end every
\* attempt, so it does not stop in the middle of one.
Attempt(w) == Admit(w) \/ Reject(w) \/ LoseReply(w) \/ Unreachable(w) \/ Cancel(w)

Next ==
  \/ Tick
  \/ \E w \in Worker :
       \/ Arrive(w)
       \/ RefuseNoCapacity(w)
       \/ Attempt(w)

Spec == Init /\ [][Next]_vars

FairSpec == Spec /\ \A w \in Worker : WF_vars(Attempt(w))

-----------------------------------------------------------------------------
(* Properties *)

\* The values the variables take.
TypeOK ==
  /\ CallTypeOK
  /\ lim \in Limiters
  /\ bucket \in [tokens : Nat, last_refill : Nat, expires : Nat \cup {Absent}]
  /\ taken \in Nat
  /\ refused \in Nat
  /\ regress \in Nat

\* Every token the script gives out, to whichever instance and however often
\* a command was retried, is paid for by the initial burst, by time up to the
\* newest refill, or by a backward move of last_refill (a stale or skewed
\* reading refills the same interval again): nothing else over-admits, not
\* even the expiry of the key.
Ledger ==
  (lim.capacity > 0 /\ lim.window > 0) =>
    taken * Token + bucket.tokens <= Full + lim.capacity * (bucket.last_refill + regress)

\* The budget of the bucket: burst plus rate times elapsed time, for all the
\* instances together.
Budget ==
  (lim.capacity > 0 /\ lim.window > 0) => taken * Token <= Full + lim.capacity * time

\* When Redis expires an idle key, the bucket it forgets had refilled: the
\* fresh full bucket that follows gives nothing away.
ExpiryIsFree ==
  (lim.window > 0 /\ bucket.expires # Absent /\ ~Present) =>
    bucket.tokens + (time - bucket.last_refill) * lim.capacity >= Full

\* Retry-After is the exact number of seconds: the same client, returning
\* then and undisturbed, finds a token, and one second earlier it does not.
RetryIsExact ==
  [][\A w \in Worker :
       (Calling(w) /\ verdict'[w] = "rejected") =>
         LET LevelIn(s) == bucket'.tokens + s * TicksPerSecond * lim.capacity
         IN  /\ LevelIn(retryAfter'[w]) >= Token
             /\ LevelIn(retryAfter'[w] - 1) < Token]_vars

-----------------------------------------------------------------------------
(* Why Ledger and ExpiryIsFree hold: the inductive invariant *)

ReadingsAreRecent ==
  \A w \in Worker : Calling(w) => lim.capacity > 0 /\ ReadingIsRecent(w)

\* A key that was written will live, or lived, two windows from its last write.
KeyLives ==
  bucket.expires # Absent =>
    /\ lim.capacity > 0
    /\ lim.window > 0
    /\ bucket.tokens <= Full
    /\ bucket.expires <= time + Ttl
    /\ bucket.last_refill <= bucket.expires - Ttl + MaxSkew

NothingBeforeTheFirstWrite ==
  (lim.window > 0 /\ bucket.expires = Absent) => taken = 0 /\ bucket.tokens = 0

IInv == TypeOK /\ ReadingsAreRecent /\ KeyLives /\ NothingBeforeTheFirstWrite /\ Ledger

-----------------------------------------------------------------------------
(* With one clock and no delay, the shared bucket is the ideal bucket. *)

Level == Refilled(time)

Ideal == INSTANCE IdealBucket WITH
  capacity <- lim.capacity, grain <- Token,
  level <- Level, passed <- taken, refused <- refused, clock <- time

Synchronous ==
  MaxLag = 0 /\ MaxSkew = 0 /\ \A l \in Limiters : l.capacity > 0 /\ l.window > 0

ImplementsIdeal == Ideal!Spec
=============================================================================
