\* One instance on the memory backend: two requests at a time, and edits enough to
\* come back to an earlier policy.
CONSTANTS
  Worker = {w1, w2}
  w1 = w1
  w2 = w2
  Policies <- MCPolicies
  Defaults <- MCDefaults
  TicksPerSecond = 1
  MaxTime = 4
  MaxRequests = 4
  MaxEdits = 2
SPECIFICATION Spec
INVARIANTS TypeOK LimiterLedger RaceIsBounded
PROPERTIES RetryWithinASecond
CHECK_DEADLOCK FALSE
