CONSTANTS
  Requests <- Close
  Tabs = {"a", "b"}
  Kind <- KindOfRequests
  TabOf <- TabOfRequests
  TabLimit = 1
  DedupeLimit = 4
  MaxFences = 0
  None = None
SPECIFICATION Spec
CHECK_DEADLOCK FALSE
INVARIANTS ClosedTabHasNoChild
