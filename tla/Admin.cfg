\* Two deletions at a time, while policies, keys and route policies change.
CONSTANTS
  Admin = {a1, a2}
  a1 = a1
  a2 = a2
  Name = {free, premium}
  free = free
  premium = premium
  Slot = {list, login}
  list = list
  login = login
  Inputs <- MCInputs
  MaxPolicies = 2
  MaxKeys = 2
  MaxRoutes = 2
SPECIFICATION Spec
INVARIANTS TypeOK References
PROPERTIES CascadeOnlyInRace
SYMMETRY Symmetry
CHECK_DEADLOCK FALSE
