----------------------------- MODULE MCAdminStore -----------------------------
(* AdminStore for TLC: a policy with neither algorithm nor burst, one with     *)
(* both, and three that are refused.                                           *)
EXTENDS AdminStore, TLC

MCInputs ==
  {[algorithm |-> "", request_limit |-> 2, window_seconds |-> 1, burst_capacity |-> 0],
   [algorithm |-> "fixed_window", request_limit |-> 2, window_seconds |-> 1, burst_capacity |-> 3],
   [algorithm |-> "leaky_bucket", request_limit |-> 2, window_seconds |-> 1, burst_capacity |-> 3],
   [algorithm |-> "", request_limit |-> 0, window_seconds |-> 1, burst_capacity |-> 3],
   [algorithm |-> "", request_limit |-> 2, window_seconds |-> 0, burst_capacity |-> 3]}

Symmetry == Permutations(Admin) \cup Permutations(Name) \cup Permutations(Slot)
=============================================================================
