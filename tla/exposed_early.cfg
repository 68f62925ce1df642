CONSTANTS
  NumBrokers = 3
  Partition = 1
  ReplicationFactor = 3
  MinInSyncReplicas = 2
  r1 = r1
  r2 = r2
  q1 = q1
  c1 = c1
  Records = {r1, r2}
  Durable = {r1, r2}
  Promotions = {q1}
  Readers = {c1}
  Recovering = {}
  Lossy = FALSE
  MaxCrashes = 0
  MaxEpoch = 1
SPECIFICATION FailStopSpec
PROPERTY NeverBeforeQuorum
CHECK_DEADLOCK FALSE
