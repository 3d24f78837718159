CONSTANTS
  c1 = c1 c2 = c2 c3 = c3 all = all p1 = p1 p2 = p2
  ScopesOf <- MCScopesOf
  Limit <- MCLimit
  Want <- MCWant
  Calls = {c1, c2, c3}
  Scopes = {all, p1, p2}
  MaxConcurrency = 2
  MaxUsage = 2
  Attempts = 2
  Isolated = {c2}
  Cached = {c3}
SPECIFICATION FairSpec
INVARIANTS ReservationsExact NotOversubscribed CompletedMeansQuiet WaitsForAReason
PROPERTIES StatusesFrozen RunFinalizes
CHECK_DEADLOCK FALSE
