CONSTANTS
  p1 = p1
  none = none
  Requests <- SomeRequests
  Producers = {p1}
  NoProducer = none
  ValueSize <- Length
  IdentitySize = 1
  MaxSegmentBytes = 4
  IndexInterval = 2
  Pitfalls = {}
  MaxOffset = 5
  MaxCrashes = 2
SPECIFICATION Spec
INVARIANTS TypeOK AckedKept ReadExact DedupExact Reopens
PROPERTY KeepsRecords
CHECK_DEADLOCK FALSE
