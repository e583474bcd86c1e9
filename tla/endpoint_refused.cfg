SPECIFICATION Spec
CONSTANTS
  c1 = c1  c2 = c2
  Peers <- MCPeer
  Writes <- MCStops
  ShutdownWindow = 1
  QuietWindow = 2
  EmitInterval = 3
  MaxAge = 1
  MaxBuckets = 3
  Capacity = 4
  MaxTime = 5
  MaxWrites = 4
  MaxBoots = 2
  MaxFaults = 0
CHECK_DEADLOCK FALSE
INVARIANTS AlwaysAccepted
