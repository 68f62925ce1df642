CONSTANTS
  NumBrokers = 3
  Partition = 1
  ReplicationFactor = 3
  MinInSyncReplicas = 2
  r1 = r1
  r2 = r2
  q1 = q1
  c1 = c1
  Records = {r1, r2}
  Durable = {r1, r2}
  Promotions = {}
  Readers = {c1}
  Recovering = {}
  Lossy = FALSE
  MaxCrashes = 1
  MaxEpoch = 0
SPECIFICATION SteadySpec
SYMMETRY RecordSymmetry
INVARIANTS LogMatching HwBacked DurableAck ExposedCommitted
PROPERTY KeepsPromise
CHECK_DEADLOCK FALSE
