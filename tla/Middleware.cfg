\* Two requests at a time, changes of the policies, a shutdown and a second start.
CONSTANTS
  Worker = {w1, w2}
  w1 = w1
  w2 = w2
  Policy = {p1, p2}
  p1 = p1
  p2 = p2
  Default = Default
  NoPolicy = NoPolicy
  MaxRequests = 2
  MaxChanges = 2
  MaxStarts = 2
SPECIFICATION Spec
INVARIANTS TypeOK Accounted EventLedger RevokedStaysOut PolicyInForce
SYMMETRY Symmetry
CHECK_DEADLOCK FALSE
