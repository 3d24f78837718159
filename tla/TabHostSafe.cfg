CONSTANTS
  Requests <- All
  Tabs = {"a", "b"}
  Kind <- KindOfRequests
  TabOf <- TabOfRequests
  TabLimit = 1
  DedupeLimit = 4
  MaxFences = 2
  None = None
SPECIFICATION AllSpec
CHECK_DEADLOCK FALSE
CONSTRAINT Explored
INVARIANTS PendingIsAnswerable NoOtherStrayChild WritesInOrder TurnsAreTaken QuietWhileInstalling
PROPERTIES RequestsSettle
