SPECIFICATION Spec
CONSTANTS
  l1 = l1  l2 = l2  r1 = r1
  Free = Free
  LiveWriters <- MCTwoLive
  ManualWriters <- MCNobody
  Readers <- MCReader
  Retain = 3
  MaxSnapshots = 7
  MaxFaults = 1
SYMMETRY LiveSymmetry
CHECK_DEADLOCK FALSE
INVARIANTS StoreSafe RetentionBounded ReadersServed
PROPERTIES NewestSurvive LkgNeverRegresses ImplementsRegister
