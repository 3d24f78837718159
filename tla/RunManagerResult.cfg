CONSTANTS
  r1 = r1 r2 = r2
  Runs = {r1}
  DiskFails = FALSE
  MaxQueue = 1
SPECIFICATION Spec
INVARIANTS EndedRunKeepsResult
CHECK_DEADLOCK FALSE
