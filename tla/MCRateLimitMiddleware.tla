------------------------ MODULE MCRateLimitMiddleware ------------------------
(* RateLimitMiddleware for TLC: workers are alike, and so are policies. *)
EXTENDS RateLimitMiddleware, TLC

Symmetry == Permutations(Worker) \cup Permutations(Policy)
=============================================================================
