CONSTANTS
  NumBrokers = 2
  Partition = 0
  ReplicationFactor = 2
  MinInSyncReplicas = 1
  r1 = r1
  r2 = r2
  q1 = q1
  c1 = c1
  Records = {r1, r2}
  Durable = {r1}
  Promotions = {}
  Readers = {}
  Recovering = {2}
  Lossy = FALSE
  MaxCrashes = 1
  MaxEpoch = 0
SPECIFICATION FairRecoverySpec
INVARIANTS LogMatching OffsetKept
PROPERTY RecoveryCatchesUp
CHECK_DEADLOCK FALSE
