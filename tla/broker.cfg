CONSTANTS
  p1 = p1
  p2 = p2
  c1 = c1
  k1 = k1
  Producers = {p1, p2}
  Identified = {p1}
  Durable = {p1}
  Batches = {p2}
  Hash <- SomeHash
  Pollers = {c1}
  Polled = 1
  Creators = {k1}
  Default = 1
  AutoCreate = TRUE
  Asked = 2
  QueueCapacity = 1
  OldRecords <- SomeRecords
  Pitfalls = {}
  MaxFaults = 1
SPECIFICATION FairSpec
INVARIANTS TypeOK NoLostWakeup StoredOnce AckedVisible CreationKept
PROPERTIES AllAnswered Delivered
CHECK_DEADLOCK FALSE
