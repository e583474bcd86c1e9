------------------------- MODULE MCSnapshotIngest ----------------------------
(* Model values for checking SnapshotIngest with TLC. *)
EXTENDS SnapshotIngest, TLC
CONSTANTS finding, mild, grave

MCFinding == {finding}
MCPayloads == {mild, grave}
MCSymmetry == Permutations(MCPayloads)
=============================================================================
