\* Two instances whose clocks differ, commands delayed, lost and retried.
CONSTANTS
  Worker = {w1, w2}
  w1 = w1
  w2 = w2
  Limiters <- MCLimiters
  TicksPerSecond = 3
  MaxSkew = 1
  MaxLag = 2
  MaxRetries = 1
  MaxTime = 5
  MaxCalls = 3
SPECIFICATION Spec
INVARIANTS TypeOK InTimeLimit TwiceAtMost LeaksOnlyByLoss
PROPERTIES RetryReachesNextWindow
CHECK_DEADLOCK FALSE
