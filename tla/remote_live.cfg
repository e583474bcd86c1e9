SPECIFICATION LiveSpec
CONSTANTS
  live = live  manual = manual
  Live = live
  Manuals <- MCNobody
  TargetCount = 2
  RemoteRetention = 3
  LocalRetention = 3
  Kinds <- MCAnyKind
  Debris <- MCEither
  MaxSnapshots = 4
  MaxFaults = 2
ACTION_CONSTRAINT MCFew
CHECK_DEADLOCK FALSE
INVARIANTS BacklogComplete
PROPERTIES PointersNeverGoBack UnblockedRecover
