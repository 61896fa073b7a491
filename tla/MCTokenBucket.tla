---------------------------- MODULE MCTokenBucket ----------------------------
(* TokenBucket for TLC: configurations with a window of a few ticks, and the *)
(* degenerate ones that a configuration lets through.                     *)
EXTENDS TokenBucket

MCLimiters ==
  {[capacity |-> 2, window |-> 3], [capacity |-> 0, window |-> 3], [capacity |-> 1, window |-> 0]}
MCPositiveLimiters ==
  {[capacity |-> 2, window |-> 3], [capacity |-> 1, window |-> 2], [capacity |-> 3, window |-> 2]}
=============================================================================
