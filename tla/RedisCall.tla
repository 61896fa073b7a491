------------------------------ MODULE RedisCall ------------------------------
(***************************************************************************)
(* A limiter's call to Redis, as the handlers of all the API instances     *)
(* make it: the handler reads its own clock, builds the command once, and  *)
(* the go-redis client sends it, again after a failure, until a reply      *)
(* comes or the attempts are used up.  Modules that say what a command     *)
(* does to a key extend this one.                                          *)
(*                                                                         *)
(* Time is in ticks of 1/TicksPerSecond seconds.                           *)
(***************************************************************************)
EXTENDS Integers

CONSTANTS
  Worker,         \* request handlers, over all API instances
  TicksPerSecond,
  MaxSkew,        \* largest difference between two instances' clocks
  MaxLag,         \* longest life of a reading: delays and retries included
  MaxRetries,     \* retries of a failed command (go-redis's default is 3)
  MaxTime         \* bound: the clock stops here

ASSUME TicksAssumption == TicksPerSecond \in Nat \ {0}
ASSUME DelayAssumption == MaxSkew \in Nat /\ MaxLag \in Nat /\ MaxRetries \in Nat
ASSUME MaxTimeAssumption == MaxTime \in Nat

VARIABLES
  skew,      \* how far each worker's clock is ahead of Redis's
  time,      \* Redis's clock
  verdict,   \* each worker's call: in flight, or how the last one ended
  now,       \* the reading in flight (0 when none)
  tries,     \* failed attempts of the call in flight
  retryAfter \* the seconds the last rejection told the client to wait

call == <<verdict, now, tries, retryAfter>>

Calling(w) == verdict[w] = "calling"

\* The handler reads its clock and sends the command.
Send(w) ==
  /\ ~Calling(w)
  /\ verdict' = [verdict EXCEPT ![w] = "calling"]
  /\ now' = [now EXCEPT ![w] = time + skew[w]]
  /\ retryAfter' = [retryAfter EXCEPT ![w] = 0]
  /\ UNCHANGED tries

End(w, outcome, wait) ==
  /\ verdict' = [verdict EXCEPT ![w] = outcome]
  /\ now' = [now EXCEPT ![w] = 0]
  /\ tries' = [tries EXCEPT ![w] = 0]
  /\ retryAfter' = [retryAfter EXCEPT ![w] = wait]

\* Mutant: the count of attempts starts over.
FailAttemptForever(w) ==
  /\ tries' = [tries EXCEPT ![w] = IF @ < MaxRetries THEN @ + 1 ELSE 0]
  /\ UNCHANGED <<verdict, now, retryAfter>>

\* An attempt failed: the client sends the same arguments again, MaxRetries
\* times at most, and then reports the error.
FailAttempt(w) ==
  IF tries[w] < MaxRetries
  THEN tries' = [tries EXCEPT ![w] = @ + 1] /\ UNCHANGED <<verdict, now, retryAfter>>
  ELSE End(w, "error", 0)

\* The request's context ends while the client waits to try again.
Abandon(w) ==
  /\ Calling(w)
  /\ tries[w] > 0
  /\ End(w, "error", 0)

\* Time passes, but no reading grows older than MaxLag.
TimePasses ==
  /\ time < MaxTime
  /\ \A w \in Worker : Calling(w) => time - (now[w] - skew[w]) < MaxLag
  /\ time' = time + 1

CallInit ==
  /\ skew \in [Worker -> 0..MaxSkew]
  /\ time = 0
  /\ verdict = [w \in Worker |-> "idle"]
  /\ now = [w \in Worker |-> 0]
  /\ tries = [w \in Worker |-> 0]
  /\ retryAfter = [w \in Worker |-> 0]

Verdicts == {"idle", "calling", "allowed", "rejected", "error"}

CallTypeOK ==
  /\ skew \in [Worker -> 0..MaxSkew]
  /\ time \in Nat
  /\ verdict \in [Worker -> Verdicts]
  /\ now \in [Worker -> Nat]
  /\ tries \in [Worker -> 0..MaxRetries]
  /\ retryAfter \in [Worker -> Nat]

\* A reading in flight is at most MaxLag old on the clock it was read from.
ReadingIsRecent(w) ==
  /\ now[w] - skew[w] <= time
  /\ time - (now[w] - skew[w]) <= MaxLag

\* Every call ends, because the client library bounds its attempts.
Answered == \A w \in Worker : Calling(w) ~> ~Calling(w)
=============================================================================
