\* Equal clocks, but a command may travel for a tick or two.
CONSTANTS
  Worker = {w1, w2}
  w1 = w1
  w2 = w2
  Limiters <- MCPositiveLimiters
  TicksPerSecond = 1
  MaxSkew = 0
  MaxLag = 2
  MaxRetries = 0
  MaxTime = 6
  MaxExecutions = 8
SPECIFICATION Spec
INVARIANTS Budget
CHECK_DEADLOCK FALSE
