CONSTANTS
  Servers = {p1, p2}
  Tabs = {t1}
  Sizes = {1, 2, 3}
  RingLimit = 2
  RingMaxBytes = 2
  MaxSequence = 3
  MaxEpoch = 2
  MaxInFlight = 1
  MaxHandoffs = 1
  Nobody = Nobody
  Launchers = {p1, p2}
  Nothing = Nothing
  TabIds = {p1, p2}
  SavedFiles = {f1}
  NewFiles = {n1, n2}
  NoFile = NoFile
  NoTab = NoTab
SPECIFICATION Supervisor
SYMMETRY Symmetry
CONSTRAINT Explored
CHECK_DEADLOCK FALSE
INVARIANTS
  NoSilentLoss SequenceIntact ActiveServerIsController RingIsSuffix OneSupervisor
  ChildrenApart ClaimsMatchTabs NoMissedResume
PROPERTIES ImplementsOrderedDelivery PromptReachesShownSession
