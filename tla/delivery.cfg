SPECIFICATION Spec
CONSTANTS
  e1 = e1  e2 = e2  t1 = t1  t2 = t2
  Episodes <- MCEpisode
  Threads <- MCThreads
  BatchLimit = 2
  MaxRecords = 3
  MaxFaults = 2
CHECK_DEADLOCK FALSE
INVARIANTS DeliverySafe CountsDistinct HeartbeatHonest
PROPERTIES ImplementsInOrder Delivered
