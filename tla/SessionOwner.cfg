CONSTANTS
  TabIds = {p1, p2}
  SavedFiles = {f1}
  NewFiles = {n1, n2}
  NoFile = NoFile
  NoTab = NoTab
SPECIFICATION ClaimsSpec
CHECK_DEADLOCK FALSE
INVARIANT OneOwner
