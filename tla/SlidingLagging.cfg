\* Two instances whose clocks differ, commands delayed, lost and retried.
CONSTANTS
  Worker = {w1, w2}
  w1 = w1
  w2 = w2
  Limiters <- MCLimiters
  TicksPerSecond = 2
  MaxSkew = 1
  MaxLag = 1
  MaxRetries = 1
  MaxTime = 8
  MaxCalls = 3
SPECIFICATION Spec
INVARIANTS TypeOK SlidingLimit
PROPERTIES RefusesOnlyWhenFull RetryIsExact
CHECK_DEADLOCK FALSE
