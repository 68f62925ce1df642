CONSTANTS
  Members = {1, 2}
  Default = 1
  Created = 2
  Led = {0, 1}
  NumRecords = 2
  Pitfalls = {}
  MaxFaults = 1
SPECIFICATION FairSpec
INVARIANTS TypeOK AtLeastOnce AtMostOnce OwnersDisjoint
PROPERTY Drained
CHECK_DEADLOCK FALSE
