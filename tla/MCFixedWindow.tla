---------------------------- MODULE MCFixedWindow ----------------------------
(* FixedWindow for TLC: windows of one second, one or two calls each or (by a *)
(* negative default limit) none, and no window at all.                        *)
EXTENDS FixedWindow

MCLimiters ==
  {[limit |-> 2, window |-> 1], [limit |-> 1, window |-> 1], [limit |-> -1, window |-> 1], [limit |-> 1, window |-> 0]}
=============================================================================
