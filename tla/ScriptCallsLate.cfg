CONSTANTS
  c1 = c1 c2 = c2 c3 = c3 all = all p1 = p1 p2 = p2
  ScopesOf <- MCScopesOf
  Limit <- MCLimit
  Want <- MCWant
  Calls = {c1, c2}
  Scopes = {}
  MaxConcurrency = 1
  MaxUsage = 0
  Attempts = 1
  Isolated = {c1}
  Cached = {}
SPECIFICATION Spec
PROPERTIES NoLateMutation
CHECK_DEADLOCK FALSE
