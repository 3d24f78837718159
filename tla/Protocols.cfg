CONSTANTS
  Servers = {s1, s2}
  Tabs = {t1}
  Sizes = {1}
  RingLimit = 1
  RingMaxBytes = 1
  MaxSequence = 2
  MaxEpoch = 1
  MaxInFlight = 1
  MaxHandoffs = 0
  Nobody = Nobody
  c1 = c1 c2 = c2 c3 = c3
  r1 = r1 r2 = r2
  NoRun = NoRun
  Calls = {c1, c2, c3}
  Runs = {r1, r2}
  RunOf <- MCRunOf
  MaxConcurrency = 1
  Writers = {1, 2}
SPECIFICATION Protocols
CHECK_DEADLOCK FALSE
INVARIANTS SlotsAccounted NoIdleSlot OneWriter NoLostUpdate
PROPERTIES
  StartupEnds EventsArrive
  NoOvertaking NoStarvation
  SavesEnd
