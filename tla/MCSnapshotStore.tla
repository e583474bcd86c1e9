--------------------------- MODULE MCSnapshotStore ---------------------------
(* Model values and symmetry for checking SnapshotStore with TLC. *)
EXTENDS SnapshotStore, TLC
CONSTANTS l1, l2, r1

MCTwoLive == {l1, l2}
MCReader  == {r1}
MCNobody  == {}

LiveSymmetry == Permutations(MCTwoLive)
=============================================================================
