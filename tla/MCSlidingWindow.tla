--------------------------- MODULE MCSlidingWindow ---------------------------
(* SlidingWindow for TLC: windows a few ticks long, one to two calls, and     *)
(* configurations that let nobody through.                                    *)
EXTENDS SlidingWindow

MCLimiters ==
  {[limit |-> 2, window |-> 3], [limit |-> 1, window |-> 1], [limit |-> 0, window |-> 1],
   [limit |-> -1, window |-> 1], [limit |-> 1, window |-> -1]}
=============================================================================
