CONSTANTS
  NumBrokers = 2
  Partition = 1
  ReplicationFactor = 2
  MinInSyncReplicas = 1
  r1 = r1
  r2 = r2
  q1 = q1
  c1 = c1
  Records = {r1}
  Durable = {r1}
  Promotions = {q1}
  Readers = {}
  Recovering = {2}
  Lossy = TRUE
  MaxCrashes = 1
  MaxEpoch = 1
SPECIFICATION Spec
INVARIANTS TypeOK ElectionSafety ControllerAhead
PROPERTY LeadershipSpreads
CHECK_DEADLOCK FALSE
