SPECIFICATION MCSpec
CONSTANTS
    Releases = {r1, r2}
    Ingesting = {r2}
    None = None
    ProductionOps = {p1, p2}
    StagingOps = {s1, s2}
    FirstInstalled = {r1, None}
    FirstStaged = {r1, r2}
    MaxSnapshots = 3
    MaxStagingSnapshots = 2
    MaxFaults = 1
SYMMETRY MCSymmetry
INVARIANTS MarkedExactly
PROPERTIES UndoneExactly  PromotedWasStaged StagingExact
CHECK_DEADLOCK FALSE
