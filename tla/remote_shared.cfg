SPECIFICATION Spec
CONSTANTS
  live = live  manual = manual
  Live = live
  Manuals <- MCManual
  TargetCount = 1
  RemoteRetention = 3
  LocalRetention = 3
  Kinds <- MCApproved
  Debris <- MCEither
  MaxSnapshots = 4
  MaxFaults = 1
ACTION_CONSTRAINT MCFew
CHECK_DEADLOCK FALSE
INVARIANTS TargetSafe CommittedIsCurrent
