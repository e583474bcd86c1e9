-------------------------- MODULE SnapshotRegister ---------------------------
(***************************************************************************)
(* What the snapshot store promises, whatever steps it takes to keep it: a *)
(* register of immutable snapshots with three names, switched one at a     *)
(* time.  A name is only ever moved to a stored snapshot, `current` only   *)
(* forward, `last_known_good` only to a fresh snapshot unless the one it   *)
(* names cannot be read, and a snapshot is forgotten only while no name is *)
(* on it.                                                                  *)
(***************************************************************************)
EXTENDS Naturals

CONSTANT Snapshots     \* snapshots, numbered in the order they are stored

VARIABLES
    stored,             \* snapshots the register holds
    unreadable,         \* snapshots whose bytes are damaged
    good,               \* snapshots that were complete when collected
    current, last_known_good, previous

register == <<stored, unreadable, good, current, last_known_good, previous>>

None == 0

Init ==
    /\ stored = {} /\ unreadable = {} /\ good = {}
    /\ current = None /\ last_known_good = None /\ previous = None

Store ==
    /\ \E s \in Snapshots \ stored :
         /\ stored' = stored \cup {s}
         /\ good' \in {good, good \cup {s}}
    /\ UNCHANGED <<unreadable, current, last_known_good, previous>>

Remember ==
    /\ current # None
    /\ previous' = current
    /\ UNCHANGED <<stored, unreadable, good, current, last_known_good>>

Commit ==
    /\ current' \in {s \in stored : s > current}
    /\ UNCHANGED <<stored, unreadable, good, last_known_good, previous>>

Promote ==
    /\ current # None
    /\ current \in good \/ last_known_good \notin stored \ unreadable
    /\ last_known_good' = current
    /\ UNCHANGED <<stored, unreadable, good, current, previous>>

Forget ==
    /\ \E s \in stored \ {current, last_known_good, previous} : stored' = stored \ {s}
    /\ UNCHANGED <<unreadable, good, current, last_known_good, previous>>

Spoil ==
    /\ \E s \in stored : unreadable' = unreadable \cup {s}
    /\ UNCHANGED <<stored, good, current, last_known_good, previous>>

Next == Store \/ Remember \/ Commit \/ Promote \/ Forget \/ Spoil

Spec == Init /\ [][Next]_register
=============================================================================
