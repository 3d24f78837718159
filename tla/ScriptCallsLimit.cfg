CONSTANTS
  c1 = c1 c2 = c2 c3 = c3 all = all p1 = p1 p2 = p2
  ScopesOf <- MCScopesOf
  Limit <- MCLimit
  Want <- MCWant
  Calls = {c1, c2, c3}
  Scopes = {}
  MaxConcurrency = 1
  MaxUsage = 0
  Attempts = 1
  Isolated = {}
  Cached = {}
SPECIFICATION Spec
INVARIANTS ConcurrencyBounded
CHECK_DEADLOCK FALSE
