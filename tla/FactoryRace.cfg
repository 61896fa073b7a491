\* One instance on the memory backend: two first requests under one policy.
CONSTANTS
  Worker = {w1, w2}
  w1 = w1
  w2 = w2
  Policies <- MCPolicies
  Defaults <- MCDefaults
  TicksPerSecond = 1
  MaxTime = 4
  MaxRequests = 4
  MaxEdits = 1
SPECIFICATION Spec
INVARIANTS PolicyBudget
CHECK_DEADLOCK FALSE
