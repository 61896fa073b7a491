\* Each page in turn, two tasks at a time, one policy.
CONSTANTS
  Task = {t1, t2}
  t1 = t1
  t2 = t2
  Pages = {"keys", "policies", "routes", "overview", "analytics"}
  Policies <- MCOnePolicy
  MaxTasks <- MCMaxTasks
  MaxWrites <- MCMaxWrites
  MaxVisits <- MCMaxVisits
  Typed = {50}
  Slots = {1, 2}
  OldEvents = {40, 250}
  MaxRequests <- MCMaxRequests
  MaxMore = 6
SPECIFICATION Spec
INVARIANTS TypeOK SecretsAccounted RevocationIsImmediate SavesWhatWasEdited BurstIsLimitOrDefault StatsAddUp ChartShowsStoredTraffic
PROPERTIES ReadsItsWrites EditorClosesOnlyBySave MoreShowsMore
SYMMETRY Symmetry
