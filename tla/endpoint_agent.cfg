SPECIFICATION Spec
CONSTANTS
  c1 = c1  c2 = c2
  Peers <- MCPeers
  Writes <- MCStops
  ShutdownWindow = 1
  QuietWindow = 2
  EmitInterval = 3
  MaxAge = 1
  MaxBuckets = 3
  Capacity = 2
  MaxTime = 5
  MaxWrites = 3
  MaxBoots = 2
  MaxFaults = 1
CHECK_DEADLOCK FALSE
INVARIANTS SpoolAccounted RevisionsIncrease ShutdownSpooled FailureShows
