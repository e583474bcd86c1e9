--------------------------- MODULE MCRemotePublish ---------------------------
(* Model values for checking RemotePublish with TLC. *)
EXTENDS RemotePublish, TLC
CONSTANTS live, manual

MCManual    == {manual}
MCNobody    == {}
MCEither    == {"temporary", "lock"}
MCTemporary == {"temporary"}
MCClean     == {}

MCKind(fresh, approved) == [fresh |-> fresh, approved |-> approved]
MCApproved == {MCKind(TRUE, TRUE), MCKind(FALSE, TRUE)}
MCAnyKind  == MCApproved \cup {MCKind(FALSE, FALSE)}

\* At most one snapshot is partial, and at most one other one rejected.
MCFew ==
    /\ Cardinality({s \in 1 .. local'.current : kind'[s] = MCKind(FALSE, TRUE)}) <= 1
    /\ Cardinality({s \in 1 .. local'.current : ~kind'[s].approved}) <= 1
=============================================================================
