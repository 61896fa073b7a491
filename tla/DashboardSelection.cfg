\* The page of keys with two policies to choose from.
CONSTANTS
  Task = {t1, t2}
  t1 = t1
  t2 = t2
  Pages = {"keys"}
  Policies <- MCTwoPolicies
  MaxTasks <- MCMaxTasks
  MaxWrites <- MCMaxWrites
  MaxVisits <- MCMaxVisits
  Typed = {50}
  Slots = {1, 2}
  OldEvents = {40, 250}
  MaxRequests <- MCMaxRequests
  MaxMore = 6
SPECIFICATION Spec
PROPERTIES SelectionIsKept
