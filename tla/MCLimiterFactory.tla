-------------------------- MODULE MCLimiterFactory --------------------------
(* LimiterFactory for TLC: two policies that differ in their burst, and    *)
(* defaults that equal one of them, have no burst, give nothing or have no *)
(* window.                                                                 *)
EXTENDS LimiterFactory

MCPolicies ==
  {[request_limit |-> 1, window_seconds |-> 3, burst_capacity |-> 2],
   [request_limit |-> 1, window_seconds |-> 3, burst_capacity |-> 1]}

MCDefaults ==
  {[request_limit |-> 1, window_seconds |-> 3, burst_capacity |-> 2],
   [request_limit |-> 2, window_seconds |-> 2, burst_capacity |-> 0],
   [request_limit |-> 0, window_seconds |-> 2, burst_capacity |-> 0],
   [request_limit |-> 1, window_seconds |-> 0, burst_capacity |-> 1]}
=============================================================================
