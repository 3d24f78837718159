CONSTANTS
  r1 = r1 r2 = r2
  Runs = {r1, r2}
  DiskFails = TRUE
  MaxQueue = 1
SPECIFICATION FairSpec
INVARIANTS RecordsAreTrue ResultFollowsRecord ShutdownKeepsRecords
PROPERTIES RecordIsFinal RunsSettle
CONSTRAINT Explored
CHECK_DEADLOCK FALSE
