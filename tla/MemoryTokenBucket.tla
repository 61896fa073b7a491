-------------------------- MODULE MemoryTokenBucket --------------------------
(***************************************************************************)
(* The in-process token bucket (limiter/memory.go): what                   *)
(* MemoryTokenBucket.Allow does to the bucket of one identity.  Allow holds*)
(* the limiter's mutex from before it reads the clock until the bucket is  *)
(* stored, so it is one step, and a bucket is never refilled twice for the *)
(* same time.                                                              *)
(*                                                                         *)
(* Amounts are exact, as in TokenBucket: a token is one grain per tick of  *)
(* the window, and a tick refills `capacity` grains.  The two places where *)
(* float64 behaves unlike a number are kept: a window of zero makes the    *)
(* rate infinite and the first refill 0 * Inf = NaN, and a capacity of     *)
(* zero makes the wait 1 / 0 = +Inf.                                       *)
(***************************************************************************)
EXTENDS Integers

CONSTANT TicksPerSecond

ASSUME TicksAssumption == TicksPerSecond \in Nat \ {0}

AtMost(a, b) == IF a <= b THEN a ELSE b

\* A limiter l is a record with its capacity and its window in seconds.
Token(l) == l.window * TicksPerSecond
Full(l) == l.capacity * Token(l)

\* The bucket an identity starts with.
Fresh(l, t) == [tokens |-> Full(l), lastRefill |-> t, nan |-> FALSE]

\* Mutant: the bucket is refilled without moving lastRefill.
RefilledTwice(l, b, t) ==
  [tokens |-> AtMost(Full(l), b.tokens + (t - b.lastRefill) * l.capacity),
   lastRefill |-> b.lastRefill,
   nan |-> b.nan \/ l.window = 0]

Refilled(l, b, t) ==
  [tokens |-> AtMost(Full(l), b.tokens + (t - b.lastRefill) * l.capacity),
   lastRefill |-> t,
   nan |-> b.nan \/ l.window = 0]

\* A comparison with NaN is false.
HasToken(l, b) == ~b.nan /\ b.tokens >= Token(l)

Spent(l, b) == [b EXCEPT !.tokens = @ - Token(l)]

\* The conversion of +Inf to int is up to the platform: it may be the least
\* int, which is then raised to 1, or the largest.
HugeWait == 1000000

\* Mutant: every rejected client is told to wait one second.
WaitsOneSecond(l, b) == {1}

\* The seconds a rejected client is told to wait: truncated, and 1 at least.
Waits(l, b) ==
  IF b.nan \/ l.capacity < 0 THEN {1}
  ELSE IF l.capacity = 0 THEN {1, HugeWait}
  ELSE LET wait == (Token(l) - b.tokens) \div (l.capacity * TicksPerSecond)
       IN  {IF wait < 1 THEN 1 ELSE wait}
=============================================================================
