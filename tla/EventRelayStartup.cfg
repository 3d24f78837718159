CONSTANTS
  Servers = {s1}
  Tabs = {t1}
  Sizes = {1}
  RingLimit = 2
  RingMaxBytes = 2
  MaxSequence = 2
  MaxEpoch = 1
  MaxInFlight = 1
  MaxHandoffs = 1
  Nobody = Nobody
SPECIFICATION Spec
CHECK_DEADLOCK FALSE
INVARIANTS StartupEventsAreNotDropped
