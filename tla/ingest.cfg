SPECIFICATION Spec
CONSTANTS
  finding = finding  mild = mild  grave = grave
  Signals <- MCFinding
  Payloads <- MCPayloads
  KnownLimit = 1
  Retain = 2
  MaxSnapshots = 3
  MaxDecisions = 1
  MaxFaults = 1
SYMMETRY MCSymmetry
CHECK_DEADLOCK FALSE
INVARIANTS DatabaseExact NothingLost NewestEvidence AttentionExact
