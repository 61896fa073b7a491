----------------------------- MODULE MCDashboard -----------------------------
(* Dashboard for TLC: tasks are alike.  One policy is enough for what happens *)
(* to rows, two for what happens to a selection.                              *)
EXTENDS Dashboard, TLC

MCOnePolicy == <<1>>
MCTwoPolicies == <<2, 1>>
MCMaxTasks == [p \in Pages |-> IF p \in {"overview", "routes"} THEN 1 ELSE 2]
MCMaxWrites == [p \in Pages |-> 2]
MCMaxRequests == [p \in Pages |-> IF p = "overview" THEN 2 ELSE 1]
MCMaxVisits == [p \in Pages |-> IF p = "routes" THEN 1 ELSE 0]
Symmetry == Permutations(Task)
=============================================================================
