---------------------------- MODULE SnapshotStore ----------------------------
(***************************************************************************)
(* The local, content-addressed snapshot store                             *)
(* (src/dtlab/services/snapshot_store.py), the collection cycle that        *)
(* publishes into it and prunes it (src/dtlab/collector/sync.py), the       *)
(* process lock of the near-real-time collector (tools/live_sync.py) and    *)
(* the readers that fall back from pointer to pointer.                      *)
(*                                                                         *)
(* Every file is replaced atomically (temporary file, fsync, os.replace),   *)
(* so one step of the model is one file read, one file written, or one      *)
(* directory listed; processes interleave, and die, between any two steps.  *)
(*                                                                         *)
(* A snapshot is the number of its object in writing order: a digest is     *)
(* unique because run_sync gives every snapshot a fresh identifier, and the *)
(* order of the modification times is the order of the writes.  Hence the   *)
(* branches of publish for an object or an archive that already exists are  *)
(* never taken here.                                                        *)
(***************************************************************************)
EXTENDS Naturals, FiniteSets

CONSTANTS
    LiveWriters,    \* live_sync processes: one at a time holds the lock
    ManualWriters,  \* `python -m dtlab.collector.sync`: no lock at all
    Readers,        \* dashboards calling load_best_available
    Free,           \* the lock when no process holds it
    Retain,         \* objects kept by prune_objects besides the pointed ones
    MaxSnapshots,   \* bound: objects ever written
    MaxFaults       \* bound: process deaths and damaged objects

ASSUME StoreAssumption ==
    /\ Retain \in Nat /\ Retain >= 3
    /\ MaxSnapshots \in Nat
    /\ MaxFaults \in Nat
    /\ Free \notin LiveWriters

Writers   == LiveWriters \cup ManualWriters
Snapshots == 1 .. MaxSnapshots
None      == 0
Pointers  == {"current", "last_known_good", "previous"}

VARIABLES
    objects,    \* objects/<sha256>.json present in the store
    archives,   \* manifests/<sha256>.json present, named by their snapshot
    pointer,    \* the snapshot each pointer manifest names, or None
    written,    \* the last snapshot written; a count of them too
    fresh,      \* snapshots whose sync.state is "fresh" (the others: "partial")
    damaged,    \* objects whose bytes no longer match their name
    lock,       \* holder of the live-sync lock
    pc,         \* the next step of each writer
    snap,       \* the snapshot a writer is publishing
    seen,       \* the pointer value a writer has read and not used yet
    keep,       \* prune_objects: what a writer has decided to keep
    listed,     \* prune_objects: the object listing it works from
    todo,       \* prune_objects: listed files not looked at yet
    faults,     \* how many faults have happened
    commits,    \* history: switches of `current`
    load        \* the load_best_available call of each reader

store  == <<objects, archives, pointer, written, fresh>>
locals == <<snap, seen, keep, listed, todo>>
vars   == <<store, damaged, lock, pc, locals, faults, commits, load>>

publishing == {"archive", "read_current", "previous", "current", "read_lkg", "load_lkg",
               "lkg"}
pruning    == {"protect_current", "protect_lkg", "protect_previous", "list_objects",
               "list_manifests", "prune_manifests", "prune_objects"}
steps      == {"idle", "collect", "done"} \cup publishing \cup pruning

Loadable(s) == s \in objects \ damaged

Init ==
    /\ objects = {} /\ archives = {} /\ fresh = {} /\ damaged = {}
    /\ pointer = [p \in Pointers |-> None]
    /\ written = 0 /\ faults = 0 /\ commits = 0
    /\ lock = Free
    /\ pc = [w \in Writers |-> "idle"]
    /\ snap = [w \in Writers |-> None]
    /\ seen = [w \in Writers |-> None]
    /\ keep = [w \in Writers |-> {}]
    /\ listed = [w \in Writers |-> {}]
    /\ todo = [w \in Writers |-> {}]
    /\ load = [r \in Readers |->
                 [at |-> "idle", pointer |-> "current", manifest |-> None, begun |-> 0]]

Goto(w, step) == pc' = [pc EXCEPT ![w] = step]
Write(p, s)   == pointer' = [pointer EXCEPT ![p] = s]

-----------------------------------------------------------------------------
(* The collector process.                                                   *)

\* LiveSyncProcessLock.__enter__: non-blocking, a process that loses the race exits.
Start(w) ==
    /\ pc[w] = "idle"
    /\ \/ w \in LiveWriters /\ lock = Free /\ lock' = w
       \/ w \in ManualWriters /\ UNCHANGED lock
    /\ Goto(w, "collect")
    /\ UNCHANGED <<store, damaged, locals, faults, commits, load>>

\* Collection and assembly end with the object on disk; a source that fails leaves the
\* store alone, and the next cycle starts again at "collect".
WriteObject(w) ==
    /\ pc[w] = "collect"
    /\ written < MaxSnapshots
    /\ written' = written + 1
    /\ objects' = objects \cup {written'}
    /\ fresh' \in {fresh, fresh \cup {written'}}
    /\ snap' = [snap EXCEPT ![w] = written']
    /\ Goto(w, "archive")
    /\ UNCHANGED <<archives, pointer, damaged, lock, seen, keep, listed, todo, faults,
                   commits, load>>

WriteArchive(w) ==
    /\ pc[w] = "archive"
    /\ archives' = archives \cup {snap[w]}
    /\ Goto(w, "read_current")
    /\ UNCHANGED <<objects, pointer, written, fresh, damaged, lock, locals, faults, commits,
                   load>>

ReadCurrent(w) ==
    /\ pc[w] = "read_current"
    /\ seen' = [seen EXCEPT ![w] = pointer["current"]]
    /\ Goto(w, IF pointer["current"] = None THEN "current" ELSE "previous")
    /\ UNCHANGED <<store, damaged, lock, snap, keep, listed, todo, faults, commits, load>>

\* Mutant: the new snapshot instead of the one `current` named.
WritePreviousOwn(w) ==
    /\ pc[w] = "previous"
    /\ Write("previous", snap[w])
    /\ Goto(w, "current")
    /\ UNCHANGED <<objects, archives, written, fresh, damaged, lock, locals, faults,
                   commits, load>>

WritePrevious(w) ==
    /\ pc[w] = "previous"
    /\ Write("previous", seen[w])
    /\ Goto(w, "current")
    /\ UNCHANGED <<objects, archives, written, fresh, damaged, lock, locals, faults,
                   commits, load>>

WriteCurrent(w) ==
    /\ pc[w] = "current"
    /\ Write("current", snap[w])
    /\ commits' = commits + 1
    /\ Goto(w, "read_lkg")
    /\ UNCHANGED <<objects, archives, written, fresh, damaged, lock, locals, faults, load>>

\* load("last_known_good") reads the manifest, then the object it names.
ReadLkg(w) ==
    /\ pc[w] = "read_lkg"
    /\ seen' = [seen EXCEPT ![w] = pointer["last_known_good"]]
    /\ Goto(w, "load_lkg")
    /\ UNCHANGED <<store, damaged, lock, snap, keep, listed, todo, faults, commits, load>>

\* Mutant: every publication is a good one.
PromoteAlways(w) == TRUE

PromoteLkg(w) == snap[w] \in fresh \/ ~Loadable(seen[w])

LoadLkg(w) ==
    /\ pc[w] = "load_lkg"
    /\ Goto(w, IF PromoteLkg(w) THEN "lkg" ELSE "protect_current")
    /\ UNCHANGED <<store, damaged, lock, locals, faults, commits, load>>

WriteLkg(w) ==
    /\ pc[w] = "lkg"
    /\ Write("last_known_good", snap[w])
    /\ Goto(w, "protect_current")
    /\ UNCHANGED <<objects, archives, written, fresh, damaged, lock, locals, faults,
                   commits, load>>

-----------------------------------------------------------------------------
(* prune_objects, the last part of the same cycle.                          *)

\* protected: the pointer manifests are read one after the other.
Protect(w, step, p, next) ==
    /\ pc[w] = step
    /\ keep' = [keep EXCEPT ![w] = @ \cup ({pointer[p]} \ {None})]
    /\ Goto(w, next)
    /\ UNCHANGED <<store, damaged, lock, snap, seen, listed, todo, faults, commits, load>>

ProtectPointers(w) ==
    \/ Protect(w, "protect_current", "current", "protect_lkg")
    \/ Protect(w, "protect_lkg", "last_known_good", "protect_previous")
    \/ Protect(w, "protect_previous", "previous", "list_objects")

\* Mutant: the sort forgets reverse=True.
Oldest(S) == {s \in S : Cardinality({q \in S : q < s}) < Retain}

Newest(S) == {s \in S : Cardinality({q \in S : q > s}) < Retain}

\* Mutant: the retained names replace the protected ones.
ListObjectsUnprotected(w) ==
    /\ pc[w] = "list_objects"
    /\ listed' = [listed EXCEPT ![w] = objects]
    /\ keep' = [keep EXCEPT ![w] = Newest(objects)]
    /\ Goto(w, "list_manifests")
    /\ UNCHANGED <<store, damaged, lock, snap, seen, todo, faults, commits, load>>

ListObjects(w) ==
    /\ pc[w] = "list_objects"
    /\ listed' = [listed EXCEPT ![w] = objects]
    /\ keep' = [keep EXCEPT ![w] = @ \cup Newest(objects)]
    /\ Goto(w, "list_manifests")
    /\ UNCHANGED <<store, damaged, lock, snap, seen, todo, faults, commits, load>>

ListManifests(w) ==
    /\ pc[w] = "list_manifests"
    /\ todo' = [todo EXCEPT ![w] = archives]
    /\ Goto(w, "prune_manifests")
    /\ UNCHANGED <<store, damaged, lock, snap, seen, keep, listed, faults, commits, load>>

\* Archives are visited in the order of their hashes, that is in any order.  One that
\* another process has removed meanwhile raises, and run_sync suppresses the error.
PruneManifest(w) ==
    /\ pc[w] = "prune_manifests"
    /\ \E a \in todo[w] :
         /\ todo' = [todo EXCEPT ![w] = @ \ {a}]
         /\ archives' = IF a \in keep[w] \cap objects THEN archives ELSE archives \ {a}
         /\ Goto(w, IF a \in archives THEN "prune_manifests" ELSE "done")
    /\ UNCHANGED <<objects, pointer, written, fresh, damaged, lock, snap, seen, keep, listed,
                   faults, commits, load>>

\* Mutant: an archive that cannot be removed no longer stops the removal of objects.
ManifestsPrunedAnyway(w) ==
    /\ pc[w] = "prune_manifests"
    /\ todo' = [todo EXCEPT ![w] = listed[w] \ keep[w]]
    /\ Goto(w, "prune_objects")
    /\ UNCHANGED <<store, damaged, lock, snap, seen, keep, listed, faults, commits, load>>

ManifestsPruned(w) ==
    /\ pc[w] = "prune_manifests"
    /\ todo[w] = {}
    /\ todo' = [todo EXCEPT ![w] = listed[w] \ keep[w]]
    /\ Goto(w, "prune_objects")
    /\ UNCHANGED <<store, damaged, lock, snap, seen, keep, listed, faults, commits, load>>

\* Objects are unlinked from the newest to the oldest of the listing.
PruneObject(w) ==
    /\ pc[w] = "prune_objects"
    /\ \E o \in todo[w] :
         /\ \A q \in todo[w] : q <= o
         /\ todo' = [todo EXCEPT ![w] = @ \ {o}]
         /\ objects' = objects \ {o}
         /\ Goto(w, IF o \in objects THEN "prune_objects" ELSE "done")
    /\ UNCHANGED <<archives, pointer, written, fresh, damaged, lock, snap, seen, keep,
                   listed, faults, commits, load>>

ObjectsPruned(w) ==
    /\ pc[w] = "prune_objects"
    /\ todo[w] = {}
    /\ Goto(w, "done")
    /\ UNCHANGED <<store, damaged, lock, locals, faults, commits, load>>

\* An unlink the system refuses (a reader holds the file open) ends the pruning, never
\* the cycle: run_sync suppresses OSError.
PruneFails(w) ==
    /\ pc[w] \in {"prune_manifests", "prune_objects"}
    /\ todo[w] # {}
    /\ faults < MaxFaults
    /\ faults' = faults + 1
    /\ Goto(w, "done")
    /\ UNCHANGED <<store, damaged, lock, locals, commits, load>>

\* Mutant: the protected names survive from one cycle of the loop to the next.
FinishKeeping(w) ==
    /\ pc[w] = "done"
    /\ Goto(w, "collect")
    /\ UNCHANGED <<store, damaged, lock, locals, faults, commits, load>>

\* The next cycle of the loop (live_sync without --once), or the end of the process.
Finish(w) ==
    /\ pc[w] = "done"
    /\ snap' = [snap EXCEPT ![w] = None]
    /\ seen' = [seen EXCEPT ![w] = None]
    /\ keep' = [keep EXCEPT ![w] = {}]
    /\ listed' = [listed EXCEPT ![w] = {}]
    /\ todo' = [todo EXCEPT ![w] = {}]
    /\ \/ w \in LiveWriters /\ Goto(w, "collect") /\ UNCHANGED lock
       \/ Goto(w, "idle") /\ lock' = IF lock = w THEN Free ELSE lock
    /\ UNCHANGED <<store, damaged, faults, commits, load>>

\* The process dies (power, kill, an error nobody catches); the system drops its lock.
Crash(w) ==
    /\ pc[w] # "idle"
    /\ faults < MaxFaults
    /\ faults' = faults + 1
    /\ Goto(w, "idle")
    /\ lock' = IF lock = w THEN Free ELSE lock
    /\ snap' = [snap EXCEPT ![w] = None]
    /\ seen' = [seen EXCEPT ![w] = None]
    /\ keep' = [keep EXCEPT ![w] = {}]
    /\ listed' = [listed EXCEPT ![w] = {}]
    /\ todo' = [todo EXCEPT ![w] = {}]
    /\ UNCHANGED <<store, damaged, commits, load>>

\* The medium: an object's bytes change under its name; load notices by length or hash.
Damage ==
    /\ faults < MaxFaults
    /\ faults' = faults + 1
    /\ \E o \in objects \ damaged : damaged' = damaged \cup {o}
    /\ UNCHANGED <<store, lock, pc, locals, commits, load>>

-----------------------------------------------------------------------------
(* load_best_available: current, then last_known_good, then previous.       *)

\* Mutant: last_known_good is never tried.
FallbackToPrevious(p) == "previous"

Fallback(p) == IF p = "current" THEN "last_known_good" ELSE "previous"

BeginLoad(r) ==
    /\ load[r].at \in {"idle", "failed"}
    /\ load' = [load EXCEPT ![r] = [at |-> "manifest", pointer |-> "current",
                                    manifest |-> None, begun |-> commits]]
    /\ UNCHANGED <<store, damaged, lock, pc, locals, faults, commits>>

\* This pointer gave no snapshot: try the next one, or report that none is available.
NextTry(call) ==
    IF call.pointer = "previous"
    THEN [call EXCEPT !.at = "failed", !.manifest = None]
    ELSE [call EXCEPT !.at = "manifest", !.manifest = None, !.pointer = Fallback(@)]

TryNext(r) == load' = [load EXCEPT ![r] = NextTry(@)]

ReadManifest(r) ==
    /\ load[r].at = "manifest"
    /\ IF pointer[load[r].pointer] = None
         THEN TryNext(r)
         ELSE load' = [load EXCEPT ![r].at = "object",
                                   ![r].manifest = pointer[load[r].pointer]]
    /\ UNCHANGED <<store, damaged, lock, pc, locals, faults, commits>>

ReadObject(r) ==
    /\ load[r].at = "object"
    /\ IF Loadable(load[r].manifest)
         THEN load' = [load EXCEPT ![r] = [at |-> "idle", pointer |-> "current",
                                           manifest |-> None, begun |-> 0]]
         ELSE TryNext(r)
    /\ UNCHANGED <<store, damaged, lock, pc, locals, faults, commits>>

-----------------------------------------------------------------------------
Publish(w) ==
    \/ WriteObject(w) \/ WriteArchive(w) \/ ReadCurrent(w) \/ WritePrevious(w)
    \/ WriteCurrent(w) \/ ReadLkg(w) \/ LoadLkg(w) \/ WriteLkg(w)

Prune(w) ==
    \/ ProtectPointers(w) \/ ListObjects(w) \/ ListManifests(w)
    \/ PruneManifest(w) \/ ManifestsPruned(w) \/ PruneObject(w) \/ ObjectsPruned(w)
    \/ PruneFails(w)

Read(r) == BeginLoad(r) \/ ReadManifest(r) \/ ReadObject(r)

Next ==
    \/ \E w \in Writers : Start(w) \/ Publish(w) \/ Prune(w) \/ Finish(w) \/ Crash(w)
    \/ \E r \in Readers : Read(r)
    \/ Damage

Spec == Init /\ [][Next]_vars

-----------------------------------------------------------------------------
(* Properties.                                                              *)

\* Every variable keeps its type.
TypeOK ==
    /\ objects \subseteq Snapshots /\ archives \subseteq Snapshots
    /\ fresh \subseteq Snapshots /\ damaged \subseteq Snapshots
    /\ pointer \in [Pointers -> Snapshots \cup {None}]
    /\ written \in 0 .. MaxSnapshots
    /\ faults \in 0 .. MaxFaults
    /\ commits \in Nat
    /\ lock \in LiveWriters \cup {Free}
    /\ pc \in [Writers -> steps]
    /\ snap \in [Writers -> Snapshots \cup {None}]
    /\ seen \in [Writers -> Snapshots \cup {None}]
    /\ keep \in [Writers -> SUBSET Snapshots]
    /\ listed \in [Writers -> SUBSET Snapshots]
    /\ todo \in [Writers -> SUBSET Snapshots]
    /\ load \in [Readers -> [at : {"idle", "manifest", "object", "failed"}, pointer : Pointers,
                             manifest : Snapshots \cup {None}, begun : Nat]]

\* prune_objects never breaks a pointer, wherever a publication or a pruning was cut
\* short before it: each pointer names an object that is in the store.
PointersResolve == \A p \in Pointers : pointer[p] # None => pointer[p] \in objects

\* An interrupted cleanup leaves an extra object, never a dangling archive: the remote
\* backfill and the ticket worker can load every archived manifest.
ArchivesResolve == archives \subseteq objects

\* What a pointer names is also archived: _prepare_stored refuses to publish remotely a
\* current manifest that has no archive.
PointersArchived == \A p \in Pointers : pointer[p] # None => pointer[p] \in archives

Resolved == PointersResolve /\ ArchivesResolve /\ PointersArchived

\* A store a reader or the remote publisher can rely on: well typed, nothing dangling.
StoreSafe == TypeOK /\ Resolved

\* Orphans of dead publications do not pile up: a pruning that reaches its end leaves the
\* retained objects and at most two older pointed ones (the newest object is `current`).
RetentionBounded ==
    \A w \in Writers :
        (pc[w] = "prune_objects" /\ todo[w] = {}) => Cardinality(objects) <= Retain + 2

\* The newest objects are never pruned, whatever the pointers say.
NewestSurvive ==
    [][\A o \in objects \ objects' : Cardinality({q \in objects : q > o}) >= Retain]_vars

\* last_known_good, once fresh and intact, never goes back to an older or a partial one.
LkgKept ==
    LET lkg == pointer["last_known_good"] IN
    lkg \in fresh \ damaged => /\ pointer'["last_known_good"] \in fresh'
                               /\ pointer'["last_known_good"] >= lkg

LkgNeverRegresses == [][LkgKept]_vars

\* A reader reports that no snapshot is available only if none was committed when it
\* began, if an object was damaged, or if enough publications overtook it: retention moves
\* past it twice, and only what a dead publication left behind counts towards that without
\* being a publication.
ReadersServed ==
    \A r \in Readers :
        load[r].at = "failed" =>
            \/ load[r].begun = 0
            \/ damaged # {}
            \/ /\ commits >= load[r].begun + 4
               /\ commits + faults >= load[r].begun + 2 * Retain

\* The store keeps the promise of a register of immutable snapshots: under the process
\* lock every step of publish, prune_objects and the faults is one of its steps.
Register == INSTANCE SnapshotRegister WITH
    stored          <- objects,
    unreadable      <- damaged,
    good            <- fresh,
    current         <- pointer["current"],
    last_known_good <- pointer["last_known_good"],
    previous        <- pointer["previous"]

ImplementsRegister == Register!Spec
=============================================================================
