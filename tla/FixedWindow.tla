----------------------------- MODULE FixedWindow -----------------------------
(***************************************************************************)
(* The Redis fixed window counter: FixedWindow.Allow                       *)
(* (limiter/fixed_window.go), for one identity that all the API instances  *)
(* share.                                                                  *)
(*                                                                         *)
(* Unlike the other two limiters it is not a script: a call is up to three *)
(* commands, INCR, EXPIRE and TTL, that interleave with those of other     *)
(* calls, and each can be lost or retried by itself.  There is one key per *)
(* window, named by the caller's clock; its expiry is set by the call that *)
(* finds the count at one.                                                 *)
(***************************************************************************)
EXTENDS RedisCall, FiniteSets

CONSTANTS
  Limiters,  \* configurations [limit, window (seconds)] to try
  MaxCalls   \* bound: calls in a behaviour

ASSUME MaxCallsAssumption == MaxCalls \in Nat
ASSUME LimitersAssumption == \A l \in Limiters : l.limit \in Int /\ l.window \in Nat

VARIABLES
  lim,      \* the limiter's configuration
  keys,     \* the counter of each window: [count, expires]
  calls,    \* calls so far
  step,     \* the command each call is at
  got,      \* the count INCR returned to each call
  inTime,   \* history: admissions of each window made before it was over
  admitted, \* history: all admissions of each window
  orphans   \* history: windows whose EXPIRE went missing

config == <<lim, skew>>
admissions == <<inTime, admitted>>
history == <<admissions, orphans>>
vars == <<config, time, keys, calls, step, got, call, history>>

Window == lim.window * TicksPerSecond

\* The window a reading falls in.
WindowOf(n) == n \div Window

WindowIds == 0..((MaxTime + MaxSkew) \div TicksPerSecond)

\* The window of the key a call works on.
Key(w) == WindowOf(now[w])

Forever == -1
NoKey == [count |-> 0, expires |-> Forever]

\* The key as Redis shows it: nothing is left of it after its expiry.
Shown(k) ==
  IF keys[k].expires # Forever /\ time > keys[k].expires THEN NoKey ELSE keys[k]

-----------------------------------------------------------------------------
(* The commands *)

Increment(k) == keys' = [keys EXCEPT ![k] = [Shown(k) EXCEPT !.count = @ + 1]]

\* Mutant: the expiry is set one second short.
ExpireTooShort(k) ==
  keys' = [keys EXCEPT ![k] =
             IF Shown(k).count = 0 THEN NoKey
             ELSE [Shown(k) EXCEPT !.expires = time + Window - TicksPerSecond]]

\* EXPIRE does nothing to a key that is gone.
SetExpiry(k) ==
  keys' = [keys EXCEPT ![k] =
             IF Shown(k).count = 0 THEN NoKey
             ELSE [Shown(k) EXCEPT !.expires = time + Window]]

\* TTL in seconds, rounded to the nearest.  The client turns the replies -1
\* (no expiry) and -2 (no key) into that many nanoseconds, which are 0 s: the
\* code's `resetAfter < 0` never holds.
ResetAfter(k) ==
  LET left == Shown(k).expires - time
  IN  IF Shown(k).expires = Forever THEN 0
      ELSE (left + TicksPerSecond \div 2) \div TicksPerSecond

-----------------------------------------------------------------------------
(* The call *)

\* A window of zero seconds divides by zero: the handler panics.
Panic(w) ==
  /\ ~Calling(w)
  /\ lim.window = 0
  /\ verdict' = [verdict EXCEPT ![w] = "error"]
  /\ UNCHANGED <<config, time, keys, calls, step, got, now, tries, retryAfter, history>>

Arrive(w) ==
  /\ lim.window > 0
  /\ calls < MaxCalls
  /\ calls' = calls + 1
  /\ step' = [step EXCEPT ![w] = "incr"]
  /\ Send(w)
  /\ UNCHANGED <<config, time, keys, got, history>>

At(w, s) == Calling(w) /\ step[w] = s

Proceed(w, s) ==
  /\ step' = [step EXCEPT ![w] = s]
  /\ tries' = [tries EXCEPT ![w] = 0]
  /\ UNCHANGED <<verdict, now, retryAfter>>

\* Mutant: only a call beyond the limit sets the expiry.
SetsExpiryLate(count) == count = lim.limit + 1

\* The call that finds the count at one sets the expiry.
SetsExpiry(count) == count = 1

\* Mutant: one call too many.
PassesOffByOne(count) == count <= lim.limit + 1

Passes(count) == count <= lim.limit

\* The window has not ended on any clock.
StillOpen(k) == time <= (k + 1) * Window - MaxSkew

Incr(w) ==
  LET k == Key(w)
      count == Shown(k).count + 1
  IN  /\ At(w, "incr")
      /\ Increment(k)
      /\ got' = [got EXCEPT ![w] = count]
      /\ Proceed(w, IF SetsExpiry(count) THEN "expire" ELSE "ttl")
      /\ inTime' = IF Passes(count) /\ StillOpen(k)
                   THEN [inTime EXCEPT ![k] = @ + 1] ELSE inTime
      /\ admitted' = IF Passes(count) THEN [admitted EXCEPT ![k] = @ + 1] ELSE admitted
      /\ UNCHANGED <<config, time, calls, orphans>>

Expire(w) ==
  /\ At(w, "expire")
  /\ SetExpiry(Key(w))
  /\ Proceed(w, "ttl")
  /\ UNCHANGED <<config, time, calls, got, history>>

\* A command runs, but its reply is lost.  An INCR that is sent again counts
\* twice, and finds a count other than one.
LoseIncr(w) ==
  /\ At(w, "incr")
  /\ Increment(Key(w))
  /\ FailAttempt(w)
  /\ orphans' = IF Shown(Key(w)).count = 0 THEN orphans \cup {Key(w)} ELSE orphans
  /\ UNCHANGED <<config, time, calls, step, got, admissions>>

LoseExpire(w) ==
  /\ At(w, "expire")
  /\ SetExpiry(Key(w))
  /\ FailAttempt(w)
  /\ UNCHANGED <<config, time, calls, step, got, history>>

\* INCR or EXPIRE does not reach Redis, or the request is cancelled between
\* two attempts: in the end Allow returns the error.
Orphaned(w) == IF step[w] = "expire" THEN orphans \cup {Key(w)} ELSE orphans

Unreachable(w) ==
  /\ At(w, "incr") \/ At(w, "expire")
  /\ FailAttempt(w)
  /\ orphans' = IF tries[w] < MaxRetries THEN orphans ELSE Orphaned(w)
  /\ UNCHANGED <<config, time, keys, calls, step, got, admissions>>

Cancel(w) ==
  /\ At(w, "incr") \/ At(w, "expire")
  /\ Abandon(w)
  /\ orphans' = Orphaned(w)
  /\ UNCHANGED <<config, time, keys, calls, step, got, admissions>>

\* RetryAfter is filled in for admitted calls too, but only a rejection's is
\* sent to the client.
Answer(w, reset) ==
  /\ IF Passes(got[w]) THEN End(w, "allowed", 0) ELSE End(w, "rejected", reset)
  /\ got' = [got EXCEPT ![w] = 0]
  /\ step' = [step EXCEPT ![w] = "incr"]

Ttl(w) ==
  /\ At(w, "ttl")
  /\ Answer(w, ResetAfter(Key(w)))
  /\ UNCHANGED <<config, time, keys, calls, history>>

\* The error of TTL is ignored: its value is then zero.
TtlFails(w) ==
  /\ At(w, "ttl")
  /\ Answer(w, 0)
  /\ UNCHANGED <<config, time, keys, calls, history>>

Tick ==
  /\ TimePasses
  /\ UNCHANGED <<config, keys, calls, step, got, call, history>>

-----------------------------------------------------------------------------
Init ==
  /\ lim \in Limiters
  /\ CallInit
  /\ keys = [k \in WindowIds |-> NoKey]
  /\ calls = 0
  /\ step = [w \in Worker |-> "incr"]
  /\ got = [w \in Worker |-> 0]
  /\ inTime = [k \in WindowIds |-> 0]
  /\ admitted = [k \in WindowIds |-> 0]
  /\ orphans = {}

Command(w) ==
  \/ Incr(w)
  \/ LoseIncr(w)
  \/ Expire(w)
  \/ LoseExpire(w)
  \/ Unreachable(w)
  \/ Cancel(w)
  \/ Ttl(w)
  \/ TtlFails(w)

Next ==
  \/ Tick
  \/ \E w \in Worker :
       \/ Panic(w)
       \/ Arrive(w)
       \/ Command(w)

Spec == Init /\ [][Next]_vars

-----------------------------------------------------------------------------
(* Properties *)

\* The values the variables take; a call about to set an expiry counted one.
TypeOK ==
  /\ CallTypeOK
  /\ lim \in Limiters
  /\ keys \in [WindowIds -> [count : Nat, expires : Nat \cup {Forever}]]
  /\ calls \in 0..MaxCalls
  /\ step \in [Worker -> {"incr", "expire", "ttl"}]
  /\ got \in [Worker -> Nat]
  /\ \A w \in Worker : At(w, "expire") => got[w] = 1
  /\ {inTime, admitted} \subseteq [WindowIds -> Nat]
  /\ orphans \subseteq WindowIds

\* While a window lasts (on the slowest clock) it admits `limit` calls at
\* most, whatever commands are delayed, lost or sent twice.  An INCR delayed
\* past the key's expiry starts the count again: it is not counted here, but
\* in TwiceAtMost.  A limit below one (nothing checks the configured default)
\* admits none.
InTimeLimit == \A k \in WindowIds : inTime[k] > 0 => inTime[k] <= lim.limit

\* INCRs that are delayed past the expiry of their key start the count of a
\* window that is over again, but only once: as long as delays and skews are
\* no longer than the window, a window admits twice its limit at most, however
\* many calls are late, and whatever is lost or sent twice (fixed_window.go:27).
TwiceAtMost ==
  MaxLag + MaxSkew <= Window =>
    \A k \in WindowIds : admitted[k] > 0 => admitted[k] <= 2 * lim.limit

\* A rejected client that returns Retry-After seconds later, and half a second
\* for the rounding and the largest skew more, finds the next window, unless
\* the key had no expiry or its TTL could not be read (then it is told to retry
\* at once).
RetryReachesNextWindow ==
  [][\A w \in Worker :
       (Ttl(w) /\ verdict'[w] = "rejected" /\ Shown(Key(w)).expires # Forever) =>
         LET return == time + skew[w] + retryAfter'[w] * TicksPerSecond
         IN  WindowOf(return + TicksPerSecond \div 2 + MaxSkew) > Key(w)]_vars

\* A counter is left without an expiry only where a first INCR's reply or its
\* EXPIRE went missing: otherwise the call that will set it is in flight.
LeaksOnlyByLoss ==
  \A k \in WindowIds :
    (Shown(k).count > 0 /\ Shown(k).expires = Forever) =>
      k \in orphans \/ \E w \in Worker : At(w, "expire") /\ Key(w) = k
=============================================================================
