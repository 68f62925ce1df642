CONSTANTS
  NumBrokers = 3
  Partition = 1
  ReplicationFactor = 3
  MinInSyncReplicas = 2
  r1 = r1
  r2 = r2
  Records = {r1,r2}
  Durable = {r1,r2}
  Promotions = {}
  Readers = {}
  Recovering = {}
  Lossy = FALSE
  MaxCrashes = 1
  MaxEpoch = 1
SPECIFICATION FailStopSpec
INVARIANTS DurableSurvives
SYMMETRY RecordSymmetry
CHECK_DEADLOCK FALSE
