CONSTANTS
  r1 = r1 r2 = r2 r3 = r3 w1 = w1 w2 = w2
  addr = addr other = other key = key text = text
  Requests = {r1, r2, r3}
  Workers = {w1, w2}
  BucketOf <- MCBucketOf
  KeyOf <- MCKeyOf
  TextOf <- MCTextOf
  GlobalActive = 1
  None = None
SPECIFICATION AllSpec
CHECK_DEADLOCK FALSE
CONSTRAINT Explored
INVARIANTS AtMostOneIssue IssueIsRecorded SlotsCoverLive
PROPERTIES SubmissionsSettle
