\* One clock, no delay: every reading is Redis's own time when the script runs.
CONSTANTS
  Worker = {w1, w2}
  w1 = w1
  w2 = w2
  Limiters <- MCPositiveLimiters
  TicksPerSecond = 1
  MaxSkew = 0
  MaxLag = 0
  MaxRetries = 1
  MaxTime = 8
  MaxExecutions = 6
SPECIFICATION Spec
INVARIANTS Budget
PROPERTIES ImplementsIdeal
CHECK_DEADLOCK FALSE
