CONSTANTS
  NumBrokers = 3
  Partition = 1
  ReplicationFactor = 3
  MinInSyncReplicas = 2
  r1 = r1
  r2 = r2
  q1 = q1
  c1 = c1
  Records = {r1}
  Durable = {r1}
  Promotions = {}
  Readers = {}
  Recovering = {3}
  Lossy = FALSE
  MaxCrashes = 1
  MaxEpoch = 3
SPECIFICATION FairFailoverSpec
INVARIANTS DurableSurvives
PROPERTY LeaderReplaced
CHECK_DEADLOCK FALSE
