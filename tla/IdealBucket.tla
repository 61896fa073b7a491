----------------------------- MODULE IdealBucket -----------------------------
(***************************************************************************)
(* What RateX's token bucket promises, with no store and no stale clock:   *)
(* one bucket that starts full, gains Capacity tokens per window at a      *)
(* steady rate, never holds more than Capacity, gives one token to each    *)
(* request it passes and refuses a request exactly when it holds less than *)
(* one token.                                                              *)
(*                                                                         *)
(* Amounts are integers.  A token is cut into grain "grains", as many as   *)
(* there are clock ticks in the window, so that one tick refills exactly   *)
(* Capacity grains and nothing is ever rounded.                            *)
(***************************************************************************)
EXTENDS Integers

VARIABLES
  capacity, \* tokens in a full bucket; never changes
  grain,    \* ticks in a window, and so grains in a token; never changes
  level,    \* grains in the bucket now
  passed,   \* requests passed so far
  refused,  \* requests refused so far
  clock     \* ticks so far

size == <<capacity, grain>>
vars == <<size, level, passed, refused, clock>>

Full == capacity * grain

AtMost(a, b) == IF a <= b THEN a ELSE b

Init ==
  /\ capacity \in Nat \ {0}
  /\ grain \in Nat \ {0}
  /\ level = Full
  /\ passed = 0
  /\ refused = 0
  /\ clock = 0

\* A tick refills one grain for each token of capacity.
Drip ==
  /\ clock' = clock + 1
  /\ level' = AtMost(Full, level + capacity)
  /\ UNCHANGED <<size, passed, refused>>

Pass ==
  /\ level >= grain
  /\ level' = level - grain
  /\ passed' = passed + 1
  /\ UNCHANGED <<size, refused, clock>>

Refuse ==
  /\ level < grain
  /\ refused' = refused + 1
  /\ UNCHANGED <<size, level, passed, clock>>

Next == Drip \/ Pass \/ Refuse

Spec == Init /\ [][Next]_vars

\* The values the variables take.
TypeOK ==
  /\ capacity \in Nat \ {0}
  /\ grain \in Nat \ {0}
  /\ level \in 0..Full
  /\ passed \in Nat
  /\ refused \in Nat
  /\ clock \in Nat

\* The promise of the algorithm: up to any moment the requests passed are
\* paid for by the initial burst and the refill of the elapsed time.
Budget == passed * grain + level <= Full + capacity * clock
=============================================================================
