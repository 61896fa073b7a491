\* Two instances whose clocks differ, commands delayed, lost and retried.
CONSTANTS
  Worker = {w1, w2}
  w1 = w1
  w2 = w2
  Limiters <- MCLimiters
  TicksPerSecond = 1
  MaxSkew = 1
  MaxLag = 1
  MaxRetries = 1
  MaxTime = 9
  MaxExecutions = 3
SPECIFICATION FairSpec
INVARIANTS TypeOK Ledger ExpiryIsFree
PROPERTIES RetryIsExact Answered
CHECK_DEADLOCK FALSE
