CONSTANTS
  p1 = p1
  none = none
  Requests <- SomeRequests
  Producers = {p1}
  NoProducer = none
  ValueSize <- Length
  IdentitySize = 1
  MaxSegmentBytes = 4
  IndexInterval = 2
  Pitfalls = {"restart after retention"}
  MaxOffset = 5
  MaxCrashes = 2
SPECIFICATION Spec
INVARIANTS Reopens
CHECK_DEADLOCK FALSE
