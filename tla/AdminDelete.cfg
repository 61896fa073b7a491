\* A deletion that races with the creation of a route policy.
CONSTANTS
  Admin = {a1, a2}
  a1 = a1
  a2 = a2
  Name = {free, premium}
  free = free
  premium = premium
  Slot = {list, login}
  list = list
  login = login
  Inputs <- MCInputs
  MaxPolicies = 2
  MaxKeys = 2
  MaxRoutes = 2
SPECIFICATION Spec
PROPERTIES DeletedOnlyUnused
CHECK_DEADLOCK FALSE
