------------------------ MODULE SnapshotStoreProofs --------------------------
(***************************************************************************)
(* Proofs about SnapshotStore.  Type correctness and the safety of the      *)
(* newest objects hold for any writers; the rest is proved for a store all  *)
(* of whose writers take the live-sync lock, for any number of them, of     *)
(* snapshots, of faults and of retained objects: the safety of the store,   *)
(* its refinement, its bounded retention, and the service of its readers.   *)
(***************************************************************************)
EXTENDS SnapshotStore, FiniteSetTheorems, NaturalsInduction, WellFoundedInduction, TLAPS

\* A writer that has written its object and not yet finished publishing carries it.
InFlight == \A w \in Writers : pc[w] \in publishing => snap[w] \in Snapshots

TypeInv == TypeOK /\ InFlight

LEMMA TypeInit == Init => TypeInv
  BY StoreAssumption
  DEF Init, TypeInv, TypeOK, InFlight, steps, publishing, Snapshots, Pointers, None

\* Every step of a writer, of a reader or of the medium keeps the types.
LEMMA TypeStep == TypeInv /\ [Next]_vars => TypeInv'
<1> SUFFICES ASSUME TypeInv, [Next]_vars PROVE TypeInv'
  OBVIOUS
<1> USE StoreAssumption
    DEF TypeInv, TypeOK, InFlight, store, locals, Goto, Write, steps, publishing, pruning,
        Snapshots, None, Pointers
<1>1. ASSUME NEW w \in Writers, Start(w) PROVE TypeInv'
  BY <1>1 DEF Start
<1>2. ASSUME NEW w \in Writers, Publish(w) PROVE TypeInv'
  <2>1. CASE WriteObject(w)
    BY <2>1 DEF WriteObject
  <2>2. CASE WriteArchive(w)
    BY <2>2 DEF WriteArchive
  <2>3. CASE ReadCurrent(w)
    BY <2>3 DEF ReadCurrent
  <2>4. CASE WritePrevious(w)
    BY <2>4 DEF WritePrevious
  <2>5. CASE WriteCurrent(w)
    BY <2>5 DEF WriteCurrent
  <2>6. CASE ReadLkg(w)
    BY <2>6 DEF ReadLkg
  <2>7. CASE LoadLkg(w)
    BY <2>7 DEF LoadLkg
  <2>8. CASE WriteLkg(w)
    BY <2>8 DEF WriteLkg
  <2> QED BY <1>2, <2>1, <2>2, <2>3, <2>4, <2>5, <2>6, <2>7, <2>8 DEF Publish
<1>3. ASSUME NEW w \in Writers, Prune(w) PROVE TypeInv'
  <2>1. CASE ProtectPointers(w)
    <3>1. ASSUME NEW step, NEW p \in Pointers, NEW next \in pruning, Protect(w, step, p, next)
          PROVE  TypeInv'
      <4>1. {pointer[p]} \ {None} \in SUBSET Snapshots
        OBVIOUS
      <4> QED BY <3>1, <4>1 DEF Protect
    <3> QED BY <2>1, <3>1 DEF ProtectPointers
  <2>2. CASE ListObjects(w)
    BY <2>2 DEF ListObjects, Newest
  <2>3. CASE ListManifests(w)
    BY <2>3 DEF ListManifests
  <2>4. CASE PruneManifest(w)
    BY <2>4 DEF PruneManifest
  <2>5. CASE ManifestsPruned(w)
    BY <2>5 DEF ManifestsPruned
  <2>6. CASE PruneObject(w)
    BY <2>6 DEF PruneObject
  <2>7. CASE ObjectsPruned(w)
    BY <2>7 DEF ObjectsPruned
  <2>8. CASE PruneFails(w)
    BY <2>8 DEF PruneFails
  <2> QED BY <1>3, <2>1, <2>2, <2>3, <2>4, <2>5, <2>6, <2>7, <2>8 DEF Prune
<1>4. ASSUME NEW w \in Writers, Finish(w) PROVE TypeInv'
  BY <1>4 DEF Finish
<1>5. ASSUME NEW w \in Writers, Crash(w) PROVE TypeInv'
  BY <1>5 DEF Crash
<1>6. ASSUME NEW r \in Readers, Read(r) PROVE TypeInv'
  <2> DEFINE Call == [at : {"idle", "manifest", "object", "failed"}, pointer : Pointers,
                      manifest : Snapshots \cup {None}, begun : Nat]
  <2>1. ASSUME TryNext(r) PROVE load' \in [Readers -> Call]
    <3>1. load[r] \in Call
      OBVIOUS
    <3>2. NextTry(load[r]) \in Call
      BY <3>1 DEF NextTry, Fallback
    <3> QED BY <2>1, <3>2 DEF TryNext
  <2>2. CASE BeginLoad(r)
    BY <2>2 DEF BeginLoad
  <2>3. CASE ReadManifest(r)
    BY <2>1, <2>3 DEF ReadManifest
  <2>4. CASE ReadObject(r)
    BY <2>1, <2>4 DEF ReadObject
  <2> QED BY <1>6, <2>2, <2>3, <2>4 DEF Read
<1>7. CASE Damage
  BY <1>7 DEF Damage
<1>8. CASE UNCHANGED vars
  BY <1>8 DEF vars
<1> QED BY <1>1, <1>2, <1>3, <1>4, <1>5, <1>6, <1>7, <1>8 DEF Next

\* Every reachable state is well typed, whether or not the writers take the lock.
THEOREM TypeCorrect == Spec => []TypeOK
<1>1. Spec => []TypeInv
  BY TypeInit, TypeStep, PTL DEF Spec
<1>2. TypeInv => TypeOK
  BY DEF TypeInv
<1> QED BY <1>1, <1>2, PTL

-----------------------------------------------------------------------------
(***************************************************************************)
(* Retention, with any writers: two prunings may run at the same time, each *)
(* from its own listing.  What one of them has still to remove has Retain   *)
(* newer objects in the store at every moment, because whatever the other   *)
(* one removes has Retain newer ones itself.                                *)
(***************************************************************************)

Newer(o) == {q \in objects : q > o}

Outranked(o) == Cardinality(Newer(o)) >= Retain

\* What a pruning will remove, from its listing on.
Doomed(w) ==
    CASE pc[w] \in {"list_manifests", "prune_manifests"} -> listed[w] \ keep[w]
      [] pc[w] = "prune_objects" -> todo[w]
      [] OTHER -> {}

RetentionInv == TypeInv /\ \A w \in Writers : \A o \in Doomed(w) : Outranked(o)

LEMMA NewerFinite ==
  ASSUME TypeInv, NEW o \in Snapshots
  PROVE  IsFiniteSet(Newer(o)) /\ Cardinality(Newer(o)) \in Nat
<1>1. IsFiniteSet(1 .. MaxSnapshots)
  BY FS_Interval, StoreAssumption
<1>2. Newer(o) \subseteq 1 .. MaxSnapshots
  BY DEF TypeInv, TypeOK, Newer, Snapshots
<1> QED BY <1>1, <1>2, FS_Subset, FS_CardinalityType

\* Objects are added, or one of those a pruning may remove is removed: what is outranked
\* remains so.
LEMMA OutrankedStays ==
  ASSUME TypeInv, TypeInv', NEW o \in Snapshots, Outranked(o),
         \/ objects \subseteq objects'
         \/ \E x \in Snapshots : objects' = objects \ {x} /\ Outranked(x)
  PROVE  Outranked(o)'
<1> USE DEF Outranked
<1>1. IsFiniteSet(Newer(o)') /\ Cardinality(Newer(o)') \in Nat
  <2>1. IsFiniteSet(1 .. MaxSnapshots)
    BY FS_Interval, StoreAssumption
  <2>2. Newer(o)' \subseteq 1 .. MaxSnapshots
    BY DEF TypeInv, TypeOK, Newer, Snapshots
  <2> QED BY <2>1, <2>2, FS_Subset, FS_CardinalityType
<1>2. ASSUME NEW x \in Snapshots, Outranked(x), Newer(x) \subseteq Newer(o)'
      PROVE  Outranked(o)'
  <2>1. Cardinality(Newer(x)) <= Cardinality(Newer(o)')
    BY <1>1, <1>2, FS_Subset
  <2>2. Cardinality(Newer(x)) \in Nat
    BY NewerFinite
  <2> QED BY <1>1, <1>2, <2>1, <2>2, StoreAssumption
<1>3. CASE objects \subseteq objects'
  <2>1. Newer(o) \subseteq Newer(o)'
    BY <1>3 DEF Newer
  <2> QED BY <1>2, <2>1
<1>4. ASSUME NEW x \in Snapshots, objects' = objects \ {x}, Outranked(x)
      PROVE  Outranked(o)'
  <2>1. CASE x > o
    <3>1. ASSUME NEW q \in objects, q > x PROVE q \in objects' /\ q > o
      <4>1. q \in Nat /\ x \in Nat /\ o \in Nat
        BY StoreAssumption DEF TypeInv, TypeOK, Snapshots
      <4>2. q > o /\ q # x
        BY <2>1, <3>1, <4>1
      <4> QED BY <1>4, <4>2
    <3>2. Newer(x) \subseteq Newer(o)'
      BY <3>1 DEF Newer
    <3> QED BY <1>2, <1>4, <3>2
  <2>2. CASE ~(x > o)
    <3>1. Newer(o) \subseteq Newer(o)'
      BY <1>4, <2>2 DEF Newer
    <3> QED BY <1>2, <3>1
  <2> QED BY <2>1, <2>2
<1> QED BY <1>3, <1>4

\* Only an object some pruning has doomed is ever removed.
LEMMA OnlyDoomedRemoved ==
  ASSUME RetentionInv, [Next]_vars
  PROVE  \/ objects \subseteq objects'
         \/ \E x \in Snapshots : objects' = objects \ {x} /\ Outranked(x)
<1>1. ASSUME NEW w \in Writers, PruneObject(w)
      PROVE  \E x \in Snapshots : objects' = objects \ {x} /\ Outranked(x)
  <2>1. PICK x \in todo[w] : objects' = objects \ {x}
    BY <1>1 DEF PruneObject
  <2>2. Doomed(w) = todo[w]
    BY <1>1 DEF Doomed, PruneObject
  <2> QED BY <2>1, <2>2 DEF RetentionInv, TypeInv, TypeOK
<1>2. ASSUME NEW w \in Writers, Start(w) \/ Publish(w) \/ Finish(w) \/ Crash(w)
      PROVE  objects \subseteq objects'
  BY <1>2 DEF Start, Publish, Finish, Crash, WriteObject, WriteArchive, ReadCurrent,
     WritePrevious, WriteCurrent, ReadLkg, LoadLkg, WriteLkg, store
<1>3. ASSUME NEW w \in Writers, Prune(w), ~PruneObject(w) PROVE objects \subseteq objects'
  BY <1>3 DEF Prune, ProtectPointers, Protect, ListObjects, ListManifests, PruneManifest,
     ManifestsPruned, ObjectsPruned, PruneFails, store
<1>4. ASSUME NEW r \in Readers, Read(r) PROVE objects \subseteq objects'
  BY <1>4 DEF Read, BeginLoad, ReadManifest, ReadObject, store
<1>5. CASE Damage \/ UNCHANGED vars
  BY <1>5 DEF Damage, vars, store
<1> QED BY <1>1, <1>2, <1>3, <1>4, <1>5 DEF Next

\* A pruning dooms only what its own listing outranks.
LEMMA DoomedBefore ==
  ASSUME RetentionInv, [Next]_vars, NEW w \in Writers, NEW o \in Doomed(w)'
  PROVE  o \in Snapshots /\ Outranked(o)
<1> USE DEF RetentionInv, TypeInv, TypeOK, Doomed
<1>1. CASE o \in Doomed(w)
  BY <1>1
<1>2. CASE ListObjects(w)
  <2>1. o \in objects \ Newest(objects)
    BY <1>2 DEF ListObjects, Goto
  <2>2. o \in Snapshots /\ ~(Cardinality(Newer(o)) < Retain)
    BY <2>1 DEF Newest, Newer
  <2> QED BY <2>2, NewerFinite, StoreAssumption DEF Outranked
<1>3. CASE ~ListObjects(w) /\ o \notin Doomed(w)
  <2>1. ASSUME NEW v \in Writers \ {w},
               Start(v) \/ Publish(v) \/ Prune(v) \/ Finish(v) \/ Crash(v)
        PROVE  Doomed(w)' = Doomed(w)
    BY <2>1 DEF Start, Publish, Finish, Crash, WriteObject, WriteArchive, ReadCurrent,
       WritePrevious, WriteCurrent, ReadLkg, LoadLkg, WriteLkg, Prune, ProtectPointers, Protect,
       ListObjects, ListManifests, PruneManifest, ManifestsPruned, PruneObject, ObjectsPruned,
       PruneFails, store, locals, Goto
  <2>2. ASSUME Start(w) \/ Publish(w) \/ Finish(w) \/ Crash(w) PROVE Doomed(w)' = {}
    BY <2>2 DEF Start, Publish, Finish, Crash, WriteObject, WriteArchive, ReadCurrent,
       WritePrevious, WriteCurrent, ReadLkg, LoadLkg, WriteLkg, store, locals, Goto
  <2>3. ASSUME Prune(w) PROVE Doomed(w)' \subseteq Doomed(w)
    BY <1>3, <2>3 DEF Prune, ProtectPointers, Protect, ListManifests, PruneManifest,
       ManifestsPruned, PruneObject, ObjectsPruned, PruneFails, store, locals, Goto
  <2>4. ASSUME NEW r \in Readers, Read(r) PROVE Doomed(w)' = Doomed(w)
    BY <2>4 DEF Read, BeginLoad, ReadManifest, ReadObject, store, locals
  <2>5. ASSUME Damage \/ UNCHANGED vars PROVE Doomed(w)' = Doomed(w)
    BY <2>5 DEF Damage, vars, locals
  <2> QED BY <1>3, <2>1, <2>2, <2>3, <2>4, <2>5 DEF Next
<1> QED BY <1>1, <1>2, <1>3

LEMMA RetentionStep == RetentionInv /\ [Next]_vars => RetentionInv'
<1> SUFFICES ASSUME RetentionInv, [Next]_vars PROVE RetentionInv'
  OBVIOUS
<1>1. TypeInv /\ TypeInv'
  BY TypeStep DEF RetentionInv
<1>2. ASSUME NEW w \in Writers, NEW o \in Doomed(w)' PROVE Outranked(o)'
  <2>1. o \in Snapshots /\ Outranked(o)
    BY DoomedBefore
  <2> QED BY <1>1, <2>1, OnlyDoomedRemoved, OutrankedStays
<1> QED BY <1>1, <1>2 DEF RetentionInv

LEMMA RetentionInit == Init => RetentionInv
  BY TypeInit DEF Init, RetentionInv, Doomed

\* With or without the lock, however many prunings work at the same time and wherever they
\* die: an object is removed only while Retain newer ones are in the store.
THEOREM RetentionSafe == Spec => NewestSurvive
<1>1. RetentionInv /\ [Next]_vars =>
        [\A o \in objects \ objects' : Cardinality({q \in objects : q > o}) >= Retain]_vars
  <2> SUFFICES ASSUME RetentionInv, [Next]_vars, NEW o \in objects \ objects'
               PROVE  Cardinality({q \in objects : q > o}) >= Retain
    OBVIOUS
  <2>1. PICK x \in Snapshots : objects' = objects \ {x} /\ Outranked(x)
    BY OnlyDoomedRemoved
  <2>2. o = x
    BY <2>1
  <2> QED BY <2>1, <2>2 DEF Outranked, Newer
<1> QED BY RetentionInit, RetentionStep, <1>1, PTL DEF Spec, NewestSurvive

-----------------------------------------------------------------------------
(***************************************************************************)
(* The store under the process lock.  The inductive invariant says that the *)
(* only writer at work holds the lock, that what it carries from one step   *)
(* to the next is still true of the store, and that the pointers are inside *)
(* what prune_objects has decided to keep.                                  *)
(***************************************************************************)

\* The holder of the lock is the only writer outside "idle".
Exclusive == \A w \in Writers : pc[w] # "idle" => lock = w

\* Snapshots are numbered as they are written, and `current` is the newest pointed one.
Numbered ==
    /\ objects \subseteq 1 .. written
    /\ pointer["current"] <= written
    /\ \A p \in Pointers : pointer[p] <= pointer["current"]

\* The snapshot being published is stored, then archived, and newer than the pointed ones.
Carried ==
    \A w \in Writers :
        /\ pc[w] \in publishing => snap[w] \in objects
        /\ pc[w] \in publishing \ {"archive"} => snap[w] \in archives
        /\ pc[w] \in {"archive", "read_current", "previous", "current"} =>
               snap[w] > pointer["current"]
        /\ pc[w] = "previous" => seen[w] = pointer["current"] /\ seen[w] # None
        /\ pc[w] \in {"read_lkg", "load_lkg", "lkg"} => snap[w] = pointer["current"]
        /\ pc[w] = "load_lkg" => seen[w] = pointer["last_known_good"]
        /\ pc[w] = "lkg" =>
               snap[w] \in fresh \/ pointer["last_known_good"] \notin objects \ damaged

afterCurrent  == pruning \ {"protect_current"}
afterLkg      == afterCurrent \ {"protect_lkg"}
afterPrevious == afterLkg \ {"protect_previous"}

\* Once a pointer has been read, a pruning keeps what it names.
Protected ==
    \A w \in Writers :
        /\ pc[w] \in afterCurrent => pointer["current"] \in keep[w] \cup {None}
        /\ pc[w] \in afterLkg => pointer["last_known_good"] \in keep[w] \cup {None}
        /\ pc[w] \in afterPrevious => pointer["previous"] \in keep[w] \cup {None}

\* An archive of an object about to go is still on the list, and goes first.
ArchivesFirst ==
    \A w \in Writers :
        /\ pc[w] = "prune_manifests" => archives \subseteq todo[w] \cup keep[w]
        /\ pc[w] = "prune_objects" => archives \subseteq keep[w] /\ todo[w] \cap keep[w] = {}

LockedInv ==
    /\ TypeInv /\ Exclusive /\ Numbered /\ Carried /\ Protected /\ ArchivesFirst
    /\ Resolved

LEMMA LockedInit == Init => LockedInv
  BY TypeInit, StoreAssumption
  DEF Init, LockedInv, Exclusive, Numbered, Carried, Protected, ArchivesFirst, Resolved,
      PointersResolve, ArchivesResolve, PointersArchived, publishing, pruning,
      afterCurrent, afterLkg, afterPrevious, Pointers, None

\* The lock makes the steps of the publications and of the prunings sequential, so that a
\* death between two of them is all that can happen to the store.
LEMMA LockedStep ==
  ASSUME ManualWriters = {}, LockedInv, [Next]_vars
  PROVE  LockedInv'
<1>t. TypeInv /\ TypeInv'
  BY TypeStep DEF LockedInv
<1> DEFINE Safe == /\ Exclusive /\ Numbered /\ Carried /\ Protected /\ ArchivesFirst
                   /\ Resolved
<1> SUFFICES Safe'
  BY <1>t DEF LockedInv
<1>s. Safe
  BY DEF LockedInv
<1>w. ASSUME NEW w \in Writers, pc[w] # "idle" \/ lock = Free
      PROVE  /\ \A v \in Writers \ {w} : pc[v] = "idle"
             /\ pc[w] # "idle" => lock = w
             /\ w \in LiveWriters
  BY <1>w, StoreAssumption DEF LockedInv, Exclusive, Writers
<1> USE <1>t, <1>s
    DEF TypeInv, TypeOK, InFlight, Exclusive, Numbered, Carried, Protected, ArchivesFirst,
        Resolved, PointersResolve, ArchivesResolve, PointersArchived, store, locals, Goto,
        Write, steps, publishing, pruning, afterCurrent, afterLkg, afterPrevious, Snapshots,
        None, Pointers
<1>1. ASSUME NEW w \in Writers, Start(w) PROVE Safe'
  BY <1>1, <1>w DEF Start
<1>2. ASSUME NEW w \in Writers, Publish(w) PROVE Safe'
  <2>w. pc[w] # "idle" /\ lock = w /\ \A v \in Writers \ {w} : pc[v] = "idle"
    BY <1>2, <1>w DEF Publish, WriteObject, WriteArchive, ReadCurrent, WritePrevious,
                      WriteCurrent, ReadLkg, LoadLkg, WriteLkg
  <2>1. CASE WriteObject(w)
    BY <2>1, <2>w DEF WriteObject
  <2>2. CASE WriteArchive(w)
    BY <2>2, <2>w DEF WriteArchive
  <2>3. CASE ReadCurrent(w)
    BY <2>3, <2>w DEF ReadCurrent
  <2>4. CASE WritePrevious(w)
    BY <2>4, <2>w DEF WritePrevious
  <2>5. CASE WriteCurrent(w)
    BY <2>5, <2>w DEF WriteCurrent
  <2>6. CASE ReadLkg(w)
    BY <2>6, <2>w DEF ReadLkg
  <2>7. CASE LoadLkg(w)
    BY <2>7, <2>w DEF LoadLkg, PromoteLkg, Loadable
  <2>8. CASE WriteLkg(w)
    BY <2>8, <2>w DEF WriteLkg
  <2> QED BY <1>2, <2>1, <2>2, <2>3, <2>4, <2>5, <2>6, <2>7, <2>8 DEF Publish
<1>3. ASSUME NEW w \in Writers, Prune(w) PROVE Safe'
  <2>w. pc[w] # "idle" /\ lock = w /\ \A v \in Writers \ {w} : pc[v] = "idle"
    BY <1>3, <1>w DEF Prune, Protect, ProtectPointers, ListObjects, ListManifests,
                      PruneManifest, ManifestsPruned, PruneObject, ObjectsPruned, PruneFails
  <2>1. CASE ProtectPointers(w)
    BY <2>1, <2>w DEF ProtectPointers, Protect
  <2>2. CASE ListObjects(w)
    BY <2>2, <2>w DEF ListObjects
  <2>3. CASE ListManifests(w)
    BY <2>3, <2>w DEF ListManifests
  <2>4. CASE PruneManifest(w)
    BY <2>4, <2>w DEF PruneManifest
  <2>5. CASE ManifestsPruned(w)
    BY <2>5, <2>w DEF ManifestsPruned
  <2>6. CASE PruneObject(w)
    BY <2>6, <2>w DEF PruneObject
  <2>7. CASE ObjectsPruned(w)
    BY <2>7, <2>w DEF ObjectsPruned
  <2>8. CASE PruneFails(w)
    BY <2>8, <2>w DEF PruneFails
  <2> QED BY <1>3, <2>1, <2>2, <2>3, <2>4, <2>5, <2>6, <2>7, <2>8 DEF Prune
<1>4. ASSUME NEW w \in Writers, Finish(w) PROVE Safe'
  BY <1>4, <1>w DEF Finish
<1>5. ASSUME NEW w \in Writers, Crash(w) PROVE Safe'
  BY <1>5, <1>w DEF Crash
<1>6. ASSUME NEW r \in Readers, Read(r) PROVE Safe'
  BY <1>6 DEF Read, BeginLoad, ReadManifest, ReadObject, TryNext
<1>7. CASE Damage
  BY <1>7 DEF Damage
<1>8. CASE UNCHANGED vars
  BY <1>8 DEF vars
<1> QED BY <1>1, <1>2, <1>3, <1>4, <1>5, <1>6, <1>7, <1>8 DEF Next

LEMMA LockedInvariant == ASSUME ManualWriters = {} PROVE Spec => []LockedInv
<1>1. LockedInv /\ [Next]_vars => LockedInv'
  BY LockedStep
<1> QED BY LockedInit, <1>1, PTL DEF Spec

\* When every writer takes the lock, no pointer and no archive ever names an object that
\* prune_objects has removed, and every pointer is archived, at any death of any writer.
THEOREM LockedSafety ==
  ASSUME ManualWriters = {}
  PROVE  Spec => []StoreSafe
<1>1. LockedInv => StoreSafe
  BY DEF LockedInv, TypeInv, StoreSafe
<1> QED BY LockedInvariant, <1>1, PTL

\* The steps that change what the register shows.
Shown == <<objects, damaged, fresh, pointer>>

\* Every step writes an object, moves a pointer, removes an object, damages one, or leaves
\* the register as it is.
LEMMA Steps ==
  ASSUME [Next]_vars
  PROVE  \/ \E w \in Writers : WriteObject(w) \/ WritePrevious(w) \/ WriteCurrent(w)
                               \/ WriteLkg(w) \/ PruneObject(w)
         \/ Damage
         \/ UNCHANGED Shown
<1> USE DEF Shown, store
<1>1. ASSUME NEW w \in Writers, Start(w) \/ Finish(w) \/ Crash(w) PROVE UNCHANGED Shown
  BY <1>1 DEF Start, Finish, Crash
<1>2. ASSUME NEW w \in Writers, WriteArchive(w) \/ ReadCurrent(w) \/ ReadLkg(w) \/ LoadLkg(w)
      PROVE  UNCHANGED Shown
  BY <1>2 DEF WriteArchive, ReadCurrent, ReadLkg, LoadLkg
<1>3. ASSUME NEW w \in Writers, Prune(w), ~PruneObject(w) PROVE UNCHANGED Shown
  BY <1>3 DEF Prune, ProtectPointers, Protect, ListObjects, ListManifests, PruneManifest,
     ManifestsPruned, ObjectsPruned, PruneFails
<1>4. ASSUME NEW r \in Readers, Read(r) PROVE UNCHANGED Shown
  BY <1>4 DEF Read, BeginLoad, ReadManifest, ReadObject
<1>5. CASE UNCHANGED vars
  BY <1>5 DEF vars
<1> QED BY <1>1, <1>2, <1>3, <1>4, <1>5 DEF Next, Publish

\* Under the lock, last_known_good never moves from a readable fresh snapshot to an older
\* or a partial one.
THEOREM LkgMonotone == ASSUME ManualWriters = {} PROVE Spec => LkgNeverRegresses
<1>1. LockedInv /\ [Next]_vars => [LkgKept]_vars
  <2> SUFFICES ASSUME LockedInv, [Next]_vars PROVE LkgKept
    BY DEF LkgKept
  <2> USE DEF LkgKept, LockedInv, TypeInv, TypeOK, Pointers, None, Snapshots
  <2>1. ASSUME NEW w \in Writers, WriteLkg(w) PROVE LkgKept
    BY <2>1 DEF WriteLkg, Write, InFlight, publishing, Carried, Resolved, PointersResolve,
       Numbered
  <2>2. ASSUME NEW w \in Writers,
               WriteObject(w) \/ WritePrevious(w) \/ WriteCurrent(w) \/ PruneObject(w)
        PROVE  LkgKept
    BY <2>2 DEF WriteObject, WritePrevious, WriteCurrent, PruneObject, Write
  <2>3. CASE Damage \/ UNCHANGED Shown
    BY <2>3 DEF Damage, Shown, store
  <2> QED BY <2>1, <2>2, <2>3, Steps
<1> QED BY LockedInvariant, <1>1, PTL DEF Spec, LkgNeverRegresses

\* Under the lock, the store implements the register of immutable snapshots: every step
\* of every action is a step of the register or leaves it alone.
THEOREM LockedRefinement == ASSUME ManualWriters = {} PROVE Spec => ImplementsRegister
<1>1. Init => Register!Init
  BY DEF Init, Register!Init, Register!None, None, Pointers
<1>2. LockedInv /\ [Next]_vars => [Register!Next]_Register!register
  <2> SUFFICES ASSUME LockedInv, [Next]_vars
               PROVE  Register!Next \/ UNCHANGED Register!register
    OBVIOUS
  <2> USE StoreAssumption
      DEF LockedInv, TypeInv, TypeOK, InFlight, publishing, pruning, Pointers, None, Snapshots,
          Register!None, Register!register, Register!Next, Write
  <2>1. ASSUME NEW w \in Writers, WriteObject(w) PROVE Register!Store
    BY <2>1 DEF WriteObject, Register!Store, Numbered
  <2>2. ASSUME NEW w \in Writers, WritePrevious(w) PROVE Register!Remember
    BY <2>2 DEF WritePrevious, Register!Remember, Carried
  <2>3. ASSUME NEW w \in Writers, WriteCurrent(w) PROVE Register!Commit
    BY <2>3 DEF WriteCurrent, Register!Commit, Carried
  <2>4. ASSUME NEW w \in Writers, WriteLkg(w) PROVE Register!Promote
    BY <2>4 DEF WriteLkg, Register!Promote, Carried
  <2>5. ASSUME NEW w \in Writers, PruneObject(w)
        PROVE  Register!Forget \/ UNCHANGED Register!register
    BY <2>5 DEF PruneObject, Register!Forget, Protected, ArchivesFirst, afterCurrent, afterLkg,
       afterPrevious
  <2>6. CASE Damage
    BY <2>6 DEF Damage, store, Register!Spoil
  <2>7. CASE UNCHANGED Shown
    BY <2>7 DEF Shown
  <2> QED BY <2>1, <2>2, <2>3, <2>4, <2>5, <2>6, <2>7, Steps
<1> QED BY LockedInvariant, <1>1, <1>2, PTL DEF Spec, ImplementsRegister, Register!Spec
-----------------------------------------------------------------------------
(***************************************************************************)
(* How much is kept.  Under the lock a pruning protects the pointed objects *)
(* and the newest ones, among them `current`: the snapshot just published   *)
(* is the newest that was ever written, whatever dead publications left.    *)
(***************************************************************************)

LEMMA LeastElement ==
    ASSUME NEW S \in SUBSET Nat, S # {}
    PROVE  \E n \in S : \A m \in S : n <= m
<1> DEFINE R == {p \in Nat \X Nat : p[1] < p[2]}
<1>1. IsWellFoundedOn(R, Nat)
  BY NatLessThanWellFounded DEF OpToRel
<1> HIDE DEF R
<1>2. PICK n \in S : \A m \in S : <<m, n>> \notin R
  BY <1>1, WFMin
<1>3. ASSUME NEW m \in S PROVE ~(m < n)
  <2>1. m \in Nat /\ n \in Nat /\ <<m, n>> \notin R
    BY <1>2
  <2> QED BY <2>1 DEF R
<1> QED BY <1>3

LEMMA Finite ==
    ASSUME NEW S \in SUBSET Snapshots
    PROVE  IsFiniteSet(S) /\ Cardinality(S) \in Nat
<1>1. IsFiniteSet(1 .. MaxSnapshots)
  BY FS_Interval, StoreAssumption
<1> QED BY <1>1, FS_Subset, FS_CardinalityType DEF Snapshots

LEMMA OneMore ==
    ASSUME NEW S, IsFiniteSet(S), NEW x
    PROVE  /\ IsFiniteSet(S \cup {x}) /\ Cardinality(S \cup {x}) \in Nat
           /\ Cardinality(S \cup {x}) <= Cardinality(S) + 1
<1>1. Cardinality(S) \in Nat
  BY FS_CardinalityType
<1>2. /\ IsFiniteSet(S \cup {x})
      /\ Cardinality(S \cup {x}) = IF x \in S THEN Cardinality(S) ELSE Cardinality(S) + 1
  BY FS_AddElement
<1> QED BY <1>1, <1>2

\* No more than Retain objects are the newest ones: all of them are above the oldest of them.
LEMMA NewestFew ==
    ASSUME NEW S \in SUBSET Snapshots
    PROVE  Newest(S) \in SUBSET S /\ Cardinality(Newest(S)) <= Retain
<1>1. Newest(S) \in SUBSET S
  BY DEF Newest
<1>2. CASE Newest(S) = {}
  BY <1>1, <1>2, FS_EmptySet, StoreAssumption
<1>3. CASE Newest(S) # {}
  <2>0. Newest(S) \in SUBSET Nat /\ Snapshots \in SUBSET Nat
    <3>1. \A m \in Snapshots : m \in Nat
      BY StoreAssumption DEF Snapshots
    <3> HIDE DEF Newest
    <3> QED BY <1>1, <3>1
  <2>1. PICK n \in Newest(S) : \A m \in Newest(S) : n <= m
    <3> HIDE DEF Newest
    <3> QED BY <1>3, <2>0, LeastElement
  <2> DEFINE above == {q \in S : q > n}
  <2>2. above \in SUBSET Snapshots /\ Cardinality(above) < Retain
    BY <2>1 DEF Newest
  <2>3. Newest(S) \in SUBSET (above \cup {n}) /\ n \in Snapshots /\ n \notin above
    <3>1. \A m \in Newest(S) : m \in Nat /\ n \in Nat /\ (m = n \/ m > n)
      BY <2>0, <2>1
    <3>2. ~(n > n)
      BY <3>1
    <3> QED BY <1>1, <2>1, <3>1, <3>2
  <2> HIDE DEF above
  <2>4. IsFiniteSet(above) /\ Cardinality(above) \in Nat
    BY <2>2, Finite
  <2>5. IsFiniteSet(above \cup {n}) /\ Cardinality(above \cup {n}) = Cardinality(above) + 1
    BY <2>3, <2>4, FS_AddElement
  <2>6. Cardinality(Newest(S)) <= Cardinality(above \cup {n}) /\ Cardinality(Newest(S)) \in Nat
    BY <1>1, <2>3, <2>5, Finite, FS_Subset
  <2> QED BY <1>1, <2>2, <2>4, <2>5, <2>6, StoreAssumption
<1> QED BY <1>2, <1>3

\* What the running publication has, and what it leaves in the pointers.
Latest ==
    \A w \in Writers :
        /\ pc[w] \in publishing => snap[w] = written
        /\ pc[w] \in pruning =>
               pointer["current"] = written /\ pointer["last_known_good"] # None
        /\ pc[w] = "current" /\ pointer["current"] # None =>
               pointer["previous"] = pointer["current"]

listing == {"list_manifests", "prune_manifests", "prune_objects"}

\* What a pruning keeps, and that nothing comes between its listing and its end.
KeepsFew ==
    \A w \in Writers :
        /\ pc[w] \in {"idle", "collect", "protect_current"} \cup publishing => keep[w] = {}
        /\ pc[w] = "protect_lkg" => keep[w] \subseteq {pointer["current"]}
        /\ pc[w] = "protect_previous" =>
               keep[w] \subseteq {pointer["current"], pointer["last_known_good"]}
        /\ pc[w] = "list_objects" => keep[w] \subseteq {pointer[p] : p \in Pointers}
        /\ pc[w] \in {"list_manifests", "prune_manifests"} => objects \subseteq listed[w]
        /\ pc[w] = "prune_objects" => objects \subseteq keep[w] \cup todo[w]
        /\ pc[w] \in listing => Cardinality(keep[w]) <= Retain + 2

FewInv == Latest /\ KeepsFew

\* The listing keeps the newest objects, `current` among them, and two pointed ones at most.
LEMMA ListingKeepsFew ==
    ASSUME LockedInv, FewInv, NEW w \in Writers, ListObjects(w)
    PROVE  Cardinality(keep'[w]) <= Retain + 2
<1> DEFINE cur  == pointer["current"]
           lkg  == pointer["last_known_good"]
           prev == pointer["previous"]
           N    == Newest(objects)
<1>1. /\ keep'[w] = keep[w] \cup N /\ keep[w] \subseteq {cur, lkg, prev}
      /\ keep[w] \subseteq Snapshots /\ objects \subseteq Snapshots
      /\ pc[w] = "list_objects"
  BY DEF ListObjects, FewInv, KeepsFew, Pointers, LockedInv, TypeInv, TypeOK
<1>2. ASSUME cur \in keep[w] PROVE cur \in N
  <2>1. cur = written /\ cur \in objects /\ cur \in Nat
    BY <1>1, <1>2 DEF FewInv, Latest, pruning, LockedInv, Resolved, PointersResolve, Pointers,
                      TypeInv, TypeOK, Snapshots, None
  <2>2. {q \in objects : q > cur} = {}
    <3>1. \A q \in objects : q \in 1 .. written
      BY DEF LockedInv, Numbered
    <3>2. \A q \in objects : ~(q > cur)
      BY <2>1, <3>1 
    <3> QED BY <3>2
  <2>3. Cardinality({q \in objects : q > cur}) = 0
    BY <2>2, FS_EmptySet
  <2> QED BY <2>1, <2>3, StoreAssumption DEF Newest
<1>3. keep'[w] \subseteq N \cup {lkg, prev}
  BY <1>1, <1>2
<1>4. IsFiniteSet(N) /\ Cardinality(N) \in Nat /\ Cardinality(N) <= Retain
  BY <1>1, NewestFew, Finite
<1> HIDE DEF N, lkg, prev
<1>5. /\ IsFiniteSet(N \cup {lkg}) /\ Cardinality(N \cup {lkg}) \in Nat
      /\ Cardinality(N \cup {lkg}) <= Cardinality(N) + 1
  BY <1>4, OneMore
<1>6. /\ IsFiniteSet((N \cup {lkg}) \cup {prev})
      /\ Cardinality((N \cup {lkg}) \cup {prev}) \in Nat
      /\ Cardinality((N \cup {lkg}) \cup {prev}) <= Cardinality(N \cup {lkg}) + 1
  BY <1>5, OneMore
<1>7. keep'[w] \in SUBSET ((N \cup {lkg}) \cup {prev})
  BY <1>3
<1>8. /\ Cardinality(keep'[w]) <= Cardinality((N \cup {lkg}) \cup {prev})
      /\ Cardinality(keep'[w]) \in Nat
  BY <1>6, <1>7, FS_Subset, FS_CardinalityType
<1> QED BY <1>4, <1>5, <1>6, <1>8, StoreAssumption

LEMMA FewStep ==
  ASSUME ManualWriters = {}, LockedInv, FewInv, [Next]_vars
  PROVE  FewInv'
<1>w. ASSUME NEW w \in Writers, pc[w] # "idle" \/ lock = Free
      PROVE  \A v \in Writers \ {w} : pc[v] = "idle"
  BY <1>w, StoreAssumption DEF LockedInv, Exclusive, Writers
<1>i. /\ TypeOK /\ Carried /\ Numbered
      /\ \A w \in Writers : pc[w] = "idle" => keep[w] = {}
  BY DEF LockedInv, TypeInv, FewInv, KeepsFew
<1> USE <1>i
    DEF FewInv, Latest, KeepsFew, TypeOK, Carried, Numbered, store, locals, Goto, Write, steps,
        publishing, pruning, listing, Snapshots, None, Pointers
<1>1. ASSUME NEW w \in Writers, Start(w) PROVE FewInv'
  BY <1>1, <1>w DEF Start
<1>2. ASSUME NEW w \in Writers, Publish(w) PROVE FewInv'
  <2>w. pc[w] # "idle" /\ \A v \in Writers \ {w} : pc[v] = "idle"
    BY <1>2, <1>w DEF Publish, WriteObject, WriteArchive, ReadCurrent, WritePrevious,
                      WriteCurrent, ReadLkg, LoadLkg, WriteLkg
  <2>1. CASE WriteObject(w)
    BY <2>1, <2>w DEF WriteObject
  <2>2. CASE WriteArchive(w)
    BY <2>2, <2>w DEF WriteArchive
  <2>3. CASE ReadCurrent(w)
    BY <2>3, <2>w DEF ReadCurrent
  <2>4. CASE WritePrevious(w)
    BY <2>4, <2>w DEF WritePrevious
  <2>5. CASE WriteCurrent(w)
    BY <2>5, <2>w DEF WriteCurrent
  <2>6. CASE ReadLkg(w)
    BY <2>6, <2>w DEF ReadLkg
  <2>7. CASE LoadLkg(w)
    BY <2>7, <2>w DEF LoadLkg, PromoteLkg, Loadable
  <2>8. CASE WriteLkg(w)
    BY <2>8, <2>w DEF WriteLkg
  <2> QED BY <1>2, <2>1, <2>2, <2>3, <2>4, <2>5, <2>6, <2>7, <2>8 DEF Publish
<1>3. ASSUME NEW w \in Writers, Prune(w) PROVE FewInv'
  <2>w. pc[w] # "idle" /\ \A v \in Writers \ {w} : pc[v] = "idle"
    BY <1>3, <1>w DEF Prune, Protect, ProtectPointers, ListObjects, ListManifests,
                      PruneManifest, ManifestsPruned, PruneObject, ObjectsPruned, PruneFails
  <2>1. CASE ProtectPointers(w)
    BY <2>1, <2>w DEF ProtectPointers, Protect
  <2>2. CASE ListObjects(w)
    <3>1. Cardinality(keep'[w]) <= Retain + 2
      BY <2>2, ListingKeepsFew
    <3> QED BY <2>2, <2>w, <3>1 DEF ListObjects
  <2>3. CASE ListManifests(w)
    BY <2>3, <2>w DEF ListManifests
  <2>4. CASE PruneManifest(w)
    BY <2>4, <2>w DEF PruneManifest
  <2>5. CASE ManifestsPruned(w)
    BY <2>5, <2>w DEF ManifestsPruned
  <2>6. CASE PruneObject(w)
    BY <2>6, <2>w DEF PruneObject
  <2>7. CASE ObjectsPruned(w)
    BY <2>7, <2>w DEF ObjectsPruned
  <2>8. CASE PruneFails(w)
    BY <2>8, <2>w DEF PruneFails
  <2> QED BY <1>3, <2>1, <2>2, <2>3, <2>4, <2>5, <2>6, <2>7, <2>8 DEF Prune
<1>4. ASSUME NEW w \in Writers, Finish(w) PROVE FewInv'
  BY <1>4, <1>w DEF Finish
<1>5. ASSUME NEW w \in Writers, Crash(w) PROVE FewInv'
  BY <1>5, <1>w DEF Crash
<1>6. ASSUME NEW r \in Readers, Read(r) PROVE FewInv'
  BY <1>6 DEF Read, BeginLoad, ReadManifest, ReadObject, TryNext
<1>7. CASE Damage
  BY <1>7 DEF Damage
<1>8. CASE UNCHANGED vars
  BY <1>8 DEF vars
<1> QED BY <1>1, <1>2, <1>3, <1>4, <1>5, <1>6, <1>7, <1>8 DEF Next

LEMMA FewInvariant == ASSUME ManualWriters = {} PROVE Spec => []FewInv
<1>1. Init => FewInv
  BY DEF Init, FewInv, Latest, KeepsFew, publishing, pruning, listing
<1>2. LockedInv /\ FewInv /\ [Next]_vars => FewInv'
  BY FewStep
<1> QED BY <1>1, <1>2, LockedInvariant, PTL DEF Spec

\* Under the lock, a pruning that reaches its end leaves the retained objects and at most two
\* older ones, however many dead publications left theirs.
THEOREM BoundedTheorem == ASSUME ManualWriters = {} PROVE Spec => []RetentionBounded
<1>1. LockedInv /\ FewInv => RetentionBounded
  <2> SUFFICES ASSUME LockedInv, FewInv, NEW w \in Writers, pc[w] = "prune_objects", todo[w] = {}
               PROVE  Cardinality(objects) <= Retain + 2
    BY DEF RetentionBounded
  <2>1. objects \in SUBSET keep[w] /\ keep[w] \in SUBSET Snapshots
    BY DEF FewInv, KeepsFew, LockedInv, TypeInv, TypeOK
  <2>2. Cardinality(keep[w]) <= Retain + 2
    BY DEF FewInv, KeepsFew, listing
  <2>3. /\ IsFiniteSet(keep[w]) /\ Cardinality(keep[w]) \in Nat
        /\ Cardinality(objects) \in Nat /\ Cardinality(objects) <= Cardinality(keep[w])
    BY <2>1, Finite, FS_Subset
  <2> QED BY <2>2, <2>3, StoreAssumption
<1> QED BY LockedInvariant, FewInvariant, <1>1, PTL
-----------------------------------------------------------------------------
(***************************************************************************)
(* Readers.  A read that fails has seen retention move past `current`, past *)
(* last_known_good and past `previous`, each after it had read the pointer. *)
(* Every snapshot that was written was also committed, is being published,  *)
(* or was left by a fault; so the distance between two snapshots bounds the *)
(* publications and faults that lie between them.                           *)
(***************************************************************************)

uncommitted == {"archive", "read_current", "previous", "current"}
switching   == {"read_lkg", "load_lkg", "lkg"}
committed   == switching \cup pruning

Pending    == IF \E w \in Writers : pc[w] \in uncommitted THEN 1 ELSE 0
Switching  == \E w \in Writers : pc[w] \in switching
Committing == \E w \in Writers : pc[w] \in committed

\* What accounts for the snapshots written: publications, one under way, and faults.
Ledger == commits + faults + Pending

\* Since `current` was committed only faults have left snapshots behind.
Orphans == written <= pointer["current"] + faults + Pending

FirstCommit == commits > 0 => pointer["current"] # None

\* For a read begun after b publications: at least n snapshots less have been written after s
\* than there were publications and faults since.
Owed(b, s, n) == written + b + n <= s + Ledger

\* Retention is past what was `current` then; a publication has begun after that or not.
Overtaken(b) ==
    /\ commits >= b + 2 /\ Owed(b, pointer["current"], Retain)
    /\ pointer["last_known_good"] # None /\ ~Switching

OvertakenAgain(b) ==
    /\ commits >= b + 3 /\ Owed(b, pointer["previous"], Retain)
    /\ pointer["previous"] # None

Outrun(b) == commits >= b + 4 /\ commits + faults >= b + 2 * Retain

\* A read that holds s, the `current` it has read.
FirstTry(b, s) ==
    /\ s # None /\ Owed(b, s, 0)
    /\ commits <= b => pointer["current"] = s
    /\ commits = b + 1 /\ Committing => s \in {pointer["current"], pointer["previous"]}
    /\ s \in objects \/ Overtaken(b) \/ OvertakenAgain(b)

\* A read that holds s, the `previous` it has read.
LastTry(b, s) ==
    /\ commits >= b + 3
    /\ s # None /\ Owed(b, s, Retain)
    /\ commits = b + 3 /\ Committing => s = pointer["previous"]
    /\ s \in objects \/ Outrun(b)

Trying(r, step, p) == load[r].at = step /\ load[r].pointer = p

Served(r) ==
    LET b == load[r].begun s == load[r].manifest IN
    /\ b <= commits
    /\ b # 0 /\ damaged = {} =>
         /\ Trying(r, "object", "current") => FirstTry(b, s)
         /\ Trying(r, "manifest", "last_known_good") => Overtaken(b) \/ OvertakenAgain(b)
         /\ Trying(r, "object", "last_known_good") =>
              (Overtaken(b) /\ s = pointer["last_known_good"]) \/ OvertakenAgain(b)
         /\ Trying(r, "manifest", "previous") => OvertakenAgain(b)
         /\ Trying(r, "object", "previous") => LastTry(b, s)
         /\ load[r].at = "failed" => Outrun(b)

ReadInv == Orphans /\ FirstCommit /\ \A r \in Readers : Served(r)

LEMMA Numbers ==
    ASSUME TypeOK
    PROVE  /\ written \in Nat /\ commits \in Nat /\ faults \in Nat /\ Pending \in {0, 1}
           /\ \A p \in Pointers : pointer[p] \in Nat
           /\ \A r \in Readers : load[r].begun \in Nat /\ load[r].manifest \in Nat
           /\ Retain \in Nat /\ Retain >= 3 /\ None = 0
  BY StoreAssumption DEF TypeOK, Pending, Snapshots, None

\* Under the lock, where the store is says what the one writer at work is doing.
LEMMA AtWork ==
    ASSUME ManualWriters = {}, LockedInv, NEW w \in Writers, pc[w] # "idle" \/ lock = Free,
           NEW x, Goto(w, x)
    PROVE  /\ Pending = IF pc[w] \in uncommitted THEN 1 ELSE 0
           /\ Pending' = IF x \in uncommitted THEN 1 ELSE 0
           /\ Switching <=> pc[w] \in switching
           /\ Switching' <=> x \in switching
           /\ Committing <=> pc[w] \in committed
           /\ Committing' <=> x \in committed
<1>1. \A v \in Writers \ {w} : pc[v] = "idle" /\ pc'[v] = "idle"
  BY StoreAssumption DEF LockedInv, Exclusive, Writers, Goto, TypeInv, TypeOK
<1>2. pc'[w] = x
  BY DEF Goto, LockedInv, TypeInv, TypeOK
<1> QED BY <1>1, <1>2 DEF Pending, Switching, Committing, uncommitted, switching, committed,
                          pruning

\* A step that moves no pointer and removes no object.
Quiet ==
    /\ UNCHANGED <<pointer, commits>>
    /\ objects \subseteq objects' /\ damaged \subseteq damaged'
    /\ written' + faults + Pending <= written + faults' + Pending'
    /\ faults <= faults'
    /\ Committing' => Committing
    /\ Switching' => Switching

LEMMA Kinds ==
    ASSUME ManualWriters = {}, LockedInv, [Next]_vars
    PROVE  \/ Quiet /\ UNCHANGED load
           \/ \E w \in Writers : WritePrevious(w) \/ WriteCurrent(w) \/ WriteLkg(w)
                                 \/ PruneObject(w)
           \/ \E r \in Readers : Read(r)
<1>0. /\ written \in Nat /\ faults \in Nat /\ Pending \in Nat /\ TypeOK
  BY Numbers DEF LockedInv, TypeInv
<1>1. ASSUME NEW w \in Writers, pc[w] # "idle" \/ lock = Free, NEW x, Goto(w, x),
             x \in uncommitted <=> pc[w] \in uncommitted,
             x \in committed => pc[w] \in committed, x \in switching => pc[w] \in switching
      PROVE  Pending' = Pending /\ (Committing' => Committing) /\ (Switching' => Switching)
  BY <1>1, AtWork
<1>2. ASSUME NEW w \in Writers, Start(w) PROVE Quiet /\ UNCHANGED load
  <2>1. lock = Free
    BY <1>2 DEF Start
  <2> QED BY <1>0, <1>1, <1>2, <2>1
          DEF Start, Quiet, store, uncommitted, committed, switching, pruning
<1>3. ASSUME NEW w \in Writers,
             WriteArchive(w) \/ ReadCurrent(w) \/ ReadLkg(w) \/ LoadLkg(w)
      PROVE  Quiet /\ UNCHANGED load
  <2>1. \E x \in steps : /\ Goto(w, x)
                         /\ x \in uncommitted <=> pc[w] \in uncommitted
                         /\ x \in committed => pc[w] \in committed
                         /\ x \in switching => pc[w] \in switching
    BY <1>3 DEF WriteArchive, ReadCurrent, ReadLkg, LoadLkg, steps, publishing, pruning,
                uncommitted, committed, switching
  <2>2. Pending' = Pending /\ (Committing' => Committing) /\ (Switching' => Switching)
    BY <1>1, <1>3, <2>1 DEF WriteArchive, ReadCurrent, ReadLkg, LoadLkg
  <2> QED BY <1>0, <1>3, <2>2 DEF Quiet, WriteArchive, ReadCurrent, ReadLkg, LoadLkg, store
<1>4. ASSUME NEW w \in Writers, WriteObject(w) PROVE Quiet /\ UNCHANGED load
  <2>1. Goto(w, "archive") /\ pc[w] = "collect"
    BY <1>4 DEF WriteObject
  <2>2. Pending = 0 /\ Pending' = 1 /\ ~Committing' /\ ~Switching'
    BY <2>1, AtWork DEF uncommitted, committed, switching, pruning
  <2> QED BY <1>0, <1>4, <2>2 DEF WriteObject, Quiet
<1>5. ASSUME NEW w \in Writers, Prune(w), ~PruneObject(w) PROVE Quiet /\ UNCHANGED load
  <2>1. \E x \in steps : /\ Goto(w, x) /\ pc[w] \in pruning
                         /\ x \in pruning \cup {"done"}
    BY <1>5 DEF Prune, ProtectPointers, Protect, ListObjects, ListManifests, PruneManifest,
                ManifestsPruned, ObjectsPruned, PruneFails, steps, pruning
  <2>2. Pending' = Pending /\ (Committing' => Committing) /\ (Switching' => Switching)
    <3>1. PICK x \in steps : Goto(w, x) /\ pc[w] \in pruning /\ x \in pruning \cup {"done"}
      BY <2>1
    <3> QED BY <1>1, <3>1 DEF pruning, uncommitted, committed, switching
  <2>3. /\ UNCHANGED <<pointer, commits, objects, damaged, written, load>>
        /\ faults' = faults \/ faults' = faults + 1
    BY <1>5 DEF Prune, ProtectPointers, Protect, ListObjects, ListManifests, PruneManifest,
                ManifestsPruned, ObjectsPruned, PruneFails, store
  <2> QED BY <1>0, <2>2, <2>3 DEF Quiet
<1>6. ASSUME NEW w \in Writers, Finish(w) PROVE Quiet /\ UNCHANGED load
  <2>1. pc[w] = "done" /\ \E x \in {"collect", "idle"} : Goto(w, x)
    BY <1>6 DEF Finish
  <2>2. Pending' = Pending /\ (Committing' => Committing) /\ (Switching' => Switching)
    BY <1>1, <2>1 DEF pruning, uncommitted, committed, switching
  <2> QED BY <1>0, <1>6, <2>2 DEF Finish, Quiet, store
<1>7. ASSUME NEW w \in Writers, Crash(w) PROVE Quiet /\ UNCHANGED load
  <2>1. pc[w] # "idle" /\ Goto(w, "idle")
    BY <1>7 DEF Crash
  <2>2. Pending' = 0 /\ Pending \in {0, 1} /\ ~Committing' /\ ~Switching'
    BY <1>0, <2>1, AtWork, Numbers DEF pruning, uncommitted, committed, switching
  <2> QED BY <1>0, <1>7, <2>2 DEF Crash, Quiet, store
<1>8. CASE Damage
  <2>1. Pending' = Pending /\ (Committing' => Committing) /\ (Switching' => Switching)
    BY <1>8 DEF Damage, Pending, Committing, Switching
  <2> QED BY <1>0, <1>8, <2>1 DEF Damage, Quiet, store
<1>9. CASE UNCHANGED vars
  <2>1. Pending' = Pending /\ (Committing' => Committing) /\ (Switching' => Switching)
    BY <1>9 DEF vars, Pending, Committing, Switching
  <2> QED BY <1>0, <1>9, <2>1 DEF vars, Quiet, store
<1> QED BY <1>2, <1>3, <1>4, <1>5, <1>6, <1>7, <1>8, <1>9 DEF Next, Publish

LEMMA PreviousMoves ==
    ASSUME ManualWriters = {}, LockedInv, NEW w \in Writers, WritePrevious(w)
    PROVE  /\ pointer'["previous"] = pointer["current"] /\ pointer["current"] # None
           /\ \A p \in Pointers \ {"previous"} : pointer'[p] = pointer[p]
           /\ UNCHANGED <<objects, damaged, written, commits, faults, load, Pending>>
           /\ ~Committing' /\ ~Switching'
<1>1. pc[w] = "previous" /\ Goto(w, "current")
  BY DEF WritePrevious
<1>2. Pending' = Pending /\ ~Committing' /\ ~Switching'
  BY <1>1, AtWork DEF uncommitted, committed, switching, pruning
<1>3. seen[w] = pointer["current"] /\ seen[w] # None
  BY <1>1 DEF LockedInv, Carried
<1> QED BY <1>2, <1>3 DEF WritePrevious, Write, LockedInv, TypeInv, TypeOK, Pointers

LEMMA CurrentMoves ==
    ASSUME ManualWriters = {}, LockedInv, FewInv, NEW w \in Writers, WriteCurrent(w)
    PROVE  /\ pointer'["current"] = written /\ written # None /\ commits' = commits + 1
           /\ pointer["current"] # None => pointer["previous"] = pointer["current"]
           /\ \A p \in Pointers \ {"current"} : pointer'[p] = pointer[p]
           /\ UNCHANGED <<objects, damaged, written, faults, load>>
           /\ Pending = 1 /\ Pending' = 0 /\ ~Committing
<1>1. pc[w] = "current" /\ Goto(w, "read_lkg")
  BY DEF WriteCurrent
<1>2. Pending = 1 /\ Pending' = 0 /\ ~Committing
  BY <1>1, AtWork DEF uncommitted, committed, switching, pruning
<1>3. snap[w] = written /\ snap[w] \in Snapshots
  BY <1>1 DEF FewInv, Latest, publishing, LockedInv, TypeInv, InFlight
<1>4. written # None
  BY <1>3 DEF Snapshots, None
<1>5. pointer["current"] # None => pointer["previous"] = pointer["current"]
  BY <1>1 DEF FewInv, Latest
<1> QED BY <1>2, <1>3, <1>4, <1>5 DEF WriteCurrent, Write, LockedInv, TypeInv, TypeOK, Pointers

LEMMA LkgMoves ==
    ASSUME ManualWriters = {}, LockedInv, NEW w \in Writers, WriteLkg(w)
    PROVE  /\ \A p \in Pointers \ {"last_known_good"} : pointer'[p] = pointer[p]
           /\ UNCHANGED <<objects, damaged, written, commits, faults, load, Pending>>
           /\ Committing /\ Switching
<1>1. pc[w] = "lkg" /\ Goto(w, "protect_current")
  BY DEF WriteLkg
<1>2. Pending' = Pending /\ Committing /\ Switching
  BY <1>1, AtWork DEF uncommitted, committed, switching, pruning
<1> QED BY <1>2 DEF WriteLkg, Write, LockedInv, TypeInv, TypeOK, Pointers

\* What is removed is no pointer's, and Retain snapshots have been written after it.
LEMMA ObjectGoes ==
    ASSUME ManualWriters = {}, LockedInv, FewInv, RetentionInv, NEW w \in Writers, PruneObject(w)
    PROVE  /\ \E o \in Snapshots : /\ objects' = objects \ {o} /\ o + Retain <= written
                                   /\ \A p \in Pointers : o # pointer[p]
           /\ UNCHANGED <<pointer, damaged, written, commits, faults, load>>
           /\ pointer["current"] = written /\ pointer["last_known_good"] # None
           /\ Pending = 0 /\ Pending' = 0 /\ Committing /\ ~Switching /\ ~Switching'
<1>1. pc[w] = "prune_objects"
  BY DEF PruneObject
<1>2. Pending = 0 /\ Pending' = 0 /\ Committing /\ ~Switching /\ ~Switching'
  <2>1. \E x \in {"prune_objects", "done"} : Goto(w, x)
    BY DEF PruneObject
  <2> QED BY <1>1, <2>1, AtWork DEF uncommitted, committed, switching, pruning
<1>3. pointer["current"] = written /\ pointer["last_known_good"] # None
  BY <1>1 DEF FewInv, Latest, pruning
<1>4. PICK o \in todo[w] : objects' = objects \ {o}
  BY DEF PruneObject
<1>5. o \in Snapshots /\ Outranked(o)
  BY <1>1, <1>4 DEF RetentionInv, Doomed, LockedInv, TypeInv, TypeOK
<1>6. ASSUME NEW p \in Pointers PROVE o # pointer[p]
  <2>1. o \notin keep[w] /\ o # None
    BY <1>1, <1>4, <1>5 DEF LockedInv, ArchivesFirst, Snapshots, None
  <2>2. pointer[p] \in keep[w] \cup {None}
    BY <1>1 DEF LockedInv, Protected, afterPrevious, afterLkg, afterCurrent, pruning, Pointers
  <2> QED BY <2>1, <2>2
<1>7. o + Retain <= written
  <2>0. o \in Nat /\ written \in Nat /\ objects \subseteq 1 .. written
    BY <1>5, Numbers DEF Snapshots, LockedInv, TypeInv, Numbered
  <2>1. Newer(o) \in SUBSET ((o + 1) .. written)
    <3>1. \A q \in objects : q \in 1 .. written
      BY <2>0
    <3>2. \A q \in Newer(o) : q \in 1 .. written /\ q > o
      BY <3>1 DEF Newer
    <3>3. \A q \in Newer(o) : q \in (o + 1) .. written
      BY <2>0, <3>2
    <3> QED BY <3>3
  <2>2. IsFiniteSet((o + 1) .. written) /\ Cardinality((o + 1) .. written) \in Nat
    <3>1. o + 1 \in Int /\ written \in Int
      BY <2>0
    <3>2. IsFiniteSet((o + 1) .. written)
      BY <3>1, FS_Interval
    <3> QED BY <3>2, FS_CardinalityType
  <2>3. Cardinality((o + 1) .. written) = IF o + 1 > written THEN 0 ELSE written - o
    BY <2>0, FS_Interval
  <2>4. Cardinality(Newer(o)) <= Cardinality((o + 1) .. written) /\ Cardinality(Newer(o)) \in Nat
    BY <2>1, <2>2, FS_Subset, FS_CardinalityType
  <2>5. Cardinality(Newer(o)) >= Retain
    BY <1>5 DEF Outranked
  <2> QED BY <2>0, <2>2, <2>3, <2>4, <2>5, StoreAssumption
<1> QED BY <1>2, <1>3, <1>4, <1>5, <1>6, <1>7 DEF PruneObject


LEMMA BalanceOwed ==
    ASSUME NEW w \in Nat, NEW w1 \in Nat, NEW g \in Nat, NEW g1 \in Nat, NEW b \in Nat,
           NEW x \in Nat, NEW n \in Nat, w1 + g <= w + g1, w + b + n <= x + g
    PROVE  w1 + b + n <= x + g1
  OBVIOUS

LEMMA BalanceLedger ==
    ASSUME NEW w \in Nat, NEW w1 \in Nat, NEW c \in Nat, NEW f \in Nat, NEW f1 \in Nat,
           NEW p \in Nat, NEW p1 \in Nat, w1 + f + p <= w + f1 + p1
    PROVE  w1 + (c + f + p) <= w + (c + f1 + p1)
  OBVIOUS

LEMMA BalanceOutrun ==
    ASSUME NEW c \in Nat, NEW c1 \in Nat, NEW f \in Nat, NEW f1 \in Nat, NEW b \in Nat,
           NEW n \in Nat, c <= c1, f <= f1, c >= b + 4, c + f >= b + 2 * n
    PROVE  c1 >= b + 4 /\ c1 + f1 >= b + 2 * n
  OBVIOUS

\* What a read begun after b publications, with s in hand, may rely on after the step.
Kept(b, s) ==
    /\ Overtaken(b) => Overtaken(b)' \/ OvertakenAgain(b)'
    /\ Overtaken(b) /\ s = pointer["last_known_good"] =>
         (Overtaken(b)' /\ s = pointer'["last_known_good"]) \/ OvertakenAgain(b)'
    /\ OvertakenAgain(b) => OvertakenAgain(b)'
    /\ Outrun(b) => Outrun(b)'
    /\ FirstTry(b, s) => FirstTry(b, s)'
    /\ LastTry(b, s) => LastTry(b, s)'

LEMMA PromisesKept ==
    ASSUME ManualWriters = {}, LockedInv, FewInv, RetentionInv, FirstCommit, [Next]_vars,
           NEW b \in Nat, NEW s \in Nat, b <= commits, ~(\E r \in Readers : Read(r))
    PROVE  Kept(b, s)
<1> DEFINE cur  == pointer["current"]
           lkg  == pointer["last_known_good"]
           prev == pointer["previous"]
<1>n. /\ written \in Nat /\ commits \in Nat /\ faults \in Nat /\ Pending \in {0, 1}
      /\ cur \in Nat /\ lkg \in Nat /\ prev \in Nat /\ Retain \in Nat /\ Retain >= 3 /\ None = 0
  BY Numbers DEF Pointers, LockedInv, TypeInv
<1>m. /\ written' \in Nat /\ commits' \in Nat /\ faults' \in Nat /\ Pending' \in {0, 1}
      /\ cur' \in Nat /\ lkg' \in Nat /\ prev' \in Nat
  <2>1. TypeOK'
    BY TypeStep DEF LockedInv, TypeInv
  <2>2. written' \in Nat /\ commits' \in Nat /\ faults' \in Nat
    BY <2>1, StoreAssumption DEF TypeOK
  <2>3. \A p \in Pointers : pointer'[p] \in Nat
    BY <2>1, StoreAssumption DEF TypeOK, Snapshots, None
  <2> QED BY <2>2, <2>3 DEF Pending, Pointers
<1>o. cur <= written /\ prev <= cur
  BY DEF LockedInv, Numbered, Pointers
<1>l. Ledger \in Nat /\ Ledger' \in Nat
  <2>1. Pending \in Nat /\ Pending' \in Nat
    BY <1>n, <1>m
  <2>2. \A c, f, p \in Nat : c + f + p \in Nat
    OBVIOUS
  <2> QED BY <1>n, <1>m, <2>1, <2>2 DEF Ledger
<1>a. ASSUME written' + Ledger <= written + Ledger'
      PROVE  \A x, n \in Nat : Owed(b, x, n) => Owed(b, x, n)'
  BY <1>a, <1>n, <1>m, <1>l, BalanceOwed, Zenon DEF Owed
<1>b. ASSUME written' = written, Ledger' = Ledger
      PROVE  \A x, n \in Nat : Owed(b, x, n) => Owed(b, x, n)'
  BY <1>b DEF Owed
<1>c. ASSUME commits <= commits', faults <= faults', Outrun(b) PROVE Outrun(b)'
  BY <1>c, <1>n, <1>m, BalanceOutrun, Zenon DEF Outrun
<1> USE <1>n, <1>m, <1>o
<1>1. CASE Quiet
  <2>1. \A x, n \in Nat : Owed(b, x, n) => Owed(b, x, n)'
    <3>1. written' + faults + Pending <= written + faults' + Pending' /\ commits' = commits
      BY <1>1 DEF Quiet
    <3>2. written' + Ledger <= written + Ledger'
      BY <1>n, <1>m, <3>1, BalanceLedger, Zenon DEF Ledger
    <3> QED BY <1>a, <3>2
  <2>2. /\ cur' = cur /\ lkg' = lkg /\ prev' = prev /\ commits' = commits
        /\ objects \subseteq objects' /\ faults <= faults'
        /\ (Committing' => Committing) /\ (Switching' => Switching)
    BY <1>1 DEF Quiet
  <2>3. 0 \in Nat
    OBVIOUS
  <2> HIDE DEF cur, lkg, prev
  <2>4. Overtaken(b) => Overtaken(b)'
    BY <2>1, <2>2 DEF Overtaken, cur, lkg
  <2>5. OvertakenAgain(b) => OvertakenAgain(b)'
    BY <2>1, <2>2 DEF OvertakenAgain, prev
  <2>6. Outrun(b) => Outrun(b)'
    BY <1>c, <2>2
  <2>7. FirstTry(b, s) => FirstTry(b, s)'
    BY <2>1, <2>2, <2>4, <2>5 DEF FirstTry, cur, prev
  <2>8. LastTry(b, s) => LastTry(b, s)'
    BY <2>1, <2>2, <2>6 DEF LastTry, prev
  <2> QED BY <2>2, <2>4, <2>5, <2>6, <2>7, <2>8 DEF Kept, lkg
<1>2. ASSUME NEW w \in Writers, WritePrevious(w) PROVE Kept(b, s)
  <2>1. /\ prev' = cur /\ cur # None /\ cur' = cur /\ lkg' = lkg
        /\ UNCHANGED <<objects, written, commits, faults, Pending>>
        /\ ~Committing' /\ ~Switching'
    BY <1>2, PreviousMoves DEF Pointers
  <2>2. \A x, n \in Nat : Owed(b, x, n)' <=> Owed(b, x, n)
    BY <2>1 DEF Owed, Ledger
  <2>3. Owed(b, prev, Retain) => Owed(b, cur, Retain)
    BY <1>l DEF Owed
  <2> HIDE DEF cur, lkg, prev
  <2>4. Overtaken(b) => Overtaken(b)'
    BY <2>1, <2>2 DEF Overtaken, cur, lkg
  <2>5. OvertakenAgain(b) => OvertakenAgain(b)'
    BY <2>1, <2>2, <2>3 DEF OvertakenAgain, cur, prev
  <2>6. Outrun(b) => Outrun(b)'
    BY <1>c, <2>1
  <2>7. FirstTry(b, s) => FirstTry(b, s)'
    BY <2>1, <2>2, <2>4, <2>5 DEF FirstTry, cur
  <2>8. LastTry(b, s) => LastTry(b, s)'
    BY <2>1, <2>2, <2>6 DEF LastTry
  <2> QED BY <2>1, <2>4, <2>5, <2>6, <2>7, <2>8 DEF Kept, lkg
<1>3. ASSUME NEW w \in Writers, WriteCurrent(w) PROVE Kept(b, s)
  <2>1. /\ cur' = written /\ written # None /\ commits' = commits + 1
        /\ (cur # None => prev = cur) /\ prev' = prev /\ lkg' = lkg
        /\ UNCHANGED <<objects, written, faults>>
        /\ Pending = 1 /\ Pending' = 0 /\ ~Committing
    BY <1>3, CurrentMoves DEF Pointers
  <2>2. \A x, n \in Nat : Owed(b, x, n) => Owed(b, x, n)'
    <3>1. Ledger' = Ledger
      BY <2>1 DEF Ledger
    <3> QED BY <1>b, <2>1, <3>1
  <2>3. commits > 0 => cur # None
    BY DEF FirstCommit
  <2> HIDE DEF cur, lkg, prev
  <2>4. Overtaken(b) => OvertakenAgain(b)'
    BY <2>1, <2>2, <2>3 DEF Overtaken, OvertakenAgain, cur, prev
  <2>5. OvertakenAgain(b) => OvertakenAgain(b)'
    BY <2>1, <2>2 DEF OvertakenAgain, prev
  <2>6. Outrun(b) => Outrun(b)'
    BY <1>c, <2>1
  <2>7. FirstTry(b, s) => FirstTry(b, s)'
    BY <2>1, <2>2, <2>4, <2>5 DEF FirstTry, cur, prev
  <2>8. LastTry(b, s) => LastTry(b, s)'
    BY <2>1, <2>2, <2>6 DEF LastTry
  <2> QED BY <2>4, <2>5, <2>6, <2>7, <2>8 DEF Kept
<1>4. ASSUME NEW w \in Writers, WriteLkg(w) PROVE Kept(b, s)
  <2>1. /\ cur' = cur /\ prev' = prev
        /\ UNCHANGED <<objects, written, commits, faults, Pending>>
        /\ Committing /\ Switching
    BY <1>4, LkgMoves DEF Pointers
  <2>2. \A x, n \in Nat : Owed(b, x, n) => Owed(b, x, n)'
    BY <1>b, <2>1 DEF Ledger
  <2> HIDE DEF cur, lkg, prev
  <2>4. ~Overtaken(b)
    BY <2>1 DEF Overtaken
  <2>5. OvertakenAgain(b) => OvertakenAgain(b)'
    BY <2>1, <2>2 DEF OvertakenAgain, prev
  <2>6. Outrun(b) => Outrun(b)'
    BY <1>c, <2>1
  <2>7. FirstTry(b, s) => FirstTry(b, s)'
    BY <2>1, <2>2, <2>4, <2>5 DEF FirstTry, cur, prev
  <2>8. LastTry(b, s) => LastTry(b, s)'
    BY <2>1, <2>2, <2>6 DEF LastTry, prev
  <2> QED BY <2>4, <2>5, <2>6, <2>7, <2>8 DEF Kept
<1>5. ASSUME NEW w \in Writers, PruneObject(w) PROVE Kept(b, s)
  <2>0. PICK o \in Snapshots : /\ objects' = objects \ {o} /\ o + Retain <= written
                               /\ \A p \in Pointers : o # pointer[p]
    BY <1>5, ObjectGoes
  <2>1. /\ cur' = cur /\ lkg' = lkg /\ prev' = prev
        /\ UNCHANGED <<written, commits, faults, Pending>>
        /\ cur = written /\ lkg # None /\ Pending = 0
        /\ Committing /\ ~Switching /\ ~Switching'
        /\ o # cur /\ o # prev /\ o \in Nat
    BY <1>5, <2>0, ObjectGoes DEF Pointers, Snapshots
  <2>2. \A x, n \in Nat : Owed(b, x, n) => Owed(b, x, n)'
    BY <1>b, <2>1 DEF Ledger
  <2> HIDE DEF cur, lkg, prev
  <2>4. Overtaken(b) => Overtaken(b)'
    BY <2>1, <2>2 DEF Overtaken, cur, lkg
  <2>5. OvertakenAgain(b) => OvertakenAgain(b)'
    BY <2>1, <2>2 DEF OvertakenAgain, prev
  <2>6. Outrun(b) => Outrun(b)'
    BY <1>c, <2>1
  <2>7. ASSUME FirstTry(b, s) PROVE FirstTry(b, s)'
    <3>1. ASSUME s = o PROVE Overtaken(b)
      <4>1. commits >= b + 2
        BY <2>1, <2>7, <3>1 DEF FirstTry, cur, prev
      <4>2. Owed(b, cur, Retain)
        BY <2>0, <2>1, <2>7, <3>1 DEF FirstTry, Owed, Ledger
      <4> QED BY <2>1, <4>1, <4>2 DEF Overtaken, cur, lkg
    <3>2. s \in objects' \/ Overtaken(b)' \/ OvertakenAgain(b)'
      BY <2>0, <2>4, <2>5, <2>7, <3>1 DEF FirstTry
    <3> QED BY <2>1, <2>2, <2>7, <3>2 DEF FirstTry, cur, prev
  <2>8. ASSUME LastTry(b, s) PROVE LastTry(b, s)'
    <3>1. ASSUME s = o PROVE Outrun(b)
      <4>1. commits >= b + 4
        BY <2>1, <2>8, <3>1 DEF LastTry, prev
      <4>2. commits + faults >= b + 2 * Retain
        BY <2>0, <2>1, <2>8, <3>1 DEF LastTry, Owed, Ledger
      <4> QED BY <4>1, <4>2 DEF Outrun
    <3>2. s \in objects' \/ Outrun(b)'
      BY <2>0, <2>6, <2>8, <3>1 DEF LastTry
    <3> QED BY <2>1, <2>2, <2>8, <3>2 DEF LastTry, prev
  <2> QED BY <2>1, <2>4, <2>5, <2>6, <2>7, <2>8 DEF Kept, lkg
<1> QED BY <1>1, <1>2, <1>3, <1>4, <1>5, Kinds

\* A step of a reader leaves everything else as it is.
LEMMA ReadAlone ==
    ASSUME TypeOK, NEW r \in Readers, Read(r)
    PROVE  /\ UNCHANGED <<objects, pointer, written, damaged, faults, commits>>
           /\ UNCHANGED <<Pending, Switching, Committing>>
           /\ \A q \in Readers \ {r} : load'[q] = load[q]
<1>1. UNCHANGED <<store, damaged, pc, faults, commits>>
  BY DEF Read, BeginLoad, ReadManifest, ReadObject
<1>2. \A q \in Readers \ {r} : load'[q] = load[q]
  BY DEF Read, BeginLoad, ReadManifest, ReadObject, TryNext, TypeOK
<1> QED BY <1>1, <1>2 DEF Pending, Switching, Committing, store

\* What a read relies on speaks of the store alone.
LEMMA SameStore ==
    ASSUME UNCHANGED <<objects, pointer, written, damaged, faults, commits>>,
           UNCHANGED <<Pending, Switching, Committing>>, NEW b, NEW s
    PROVE  /\ Overtaken(b)' <=> Overtaken(b)
           /\ OvertakenAgain(b)' <=> OvertakenAgain(b)
           /\ Outrun(b)' <=> Outrun(b)
           /\ FirstTry(b, s)' <=> FirstTry(b, s)
           /\ LastTry(b, s)' <=> LastTry(b, s)
  BY DEF Overtaken, OvertakenAgain, Outrun, FirstTry, LastTry, Owed, Ledger

\* The pointers are good enough when they are read.
LEMMA PointersServe ==
    ASSUME LockedInv, Orphans, FirstCommit, NEW b \in Nat, b # 0, b <= commits
    PROVE  /\ pointer["current"] # None /\ FirstTry(b, pointer["current"])
           /\ OvertakenAgain(b) => pointer["previous"] # None /\ LastTry(b, pointer["previous"])
<1> DEFINE cur  == pointer["current"]
           prev == pointer["previous"]
<1>1. /\ written \in Nat /\ commits \in Nat /\ faults \in Nat /\ Pending \in {0, 1}
      /\ cur \in Nat /\ prev \in Nat /\ Retain \in Nat /\ None = 0
  BY Numbers DEF Pointers, LockedInv, TypeInv
<1>2. cur # None
  BY <1>1 DEF FirstCommit
<1>3. (cur # None => cur \in objects) /\ (prev # None => prev \in objects)
  BY DEF LockedInv, Resolved, PointersResolve, Pointers
<1>4. Owed(b, cur, 0)
  <2>1. written <= cur + faults + Pending
    BY DEF Orphans
  <2>2. \A w, c, f, p, x \in Nat : w <= x + f + p /\ b <= c => w + b + 0 <= x + (c + f + p)
    OBVIOUS
  <2>3. Pending \in Nat
    BY <1>1
  <2> HIDE DEF cur
  <2> QED BY <1>1, <2>1, <2>2, <2>3 DEF Owed, Ledger
<1> HIDE DEF cur, prev
<1>5. FirstTry(b, cur)
  BY <1>1, <1>2, <1>3, <1>4 DEF FirstTry, cur
<1>6. OvertakenAgain(b) => prev # None /\ LastTry(b, prev)
  BY <1>1, <1>3 DEF OvertakenAgain, LastTry, prev
<1> QED BY <1>2, <1>5, <1>6 DEF cur, prev

\* Served, with what the call holds named.
LEMMA ServedNext ==
    ASSUME NEW r \in Readers, NEW b, NEW s, load'[r].begun = b, load'[r].manifest = s,
           b <= commits',
           b # 0 /\ damaged' = {} =>
             /\ Trying(r, "object", "current")' => FirstTry(b, s)'
             /\ Trying(r, "manifest", "last_known_good")' => Overtaken(b)' \/ OvertakenAgain(b)'
             /\ Trying(r, "object", "last_known_good")' =>
                  (Overtaken(b)' /\ s = pointer'["last_known_good"]) \/ OvertakenAgain(b)'
             /\ Trying(r, "manifest", "previous")' => OvertakenAgain(b)'
             /\ Trying(r, "object", "previous")' => LastTry(b, s)'
             /\ load'[r].at = "failed" => Outrun(b)'
    PROVE  Served(r)'
  BY DEF Served, FirstTry, LastTry, Overtaken, OvertakenAgain, Outrun, Owed, Ledger

\* A reader's own step: it goes on to the next pointer only for one of the reasons above.
LEMMA OwnRead ==
    ASSUME LockedInv, ReadInv, NEW r \in Readers, Read(r)
    PROVE  Served(r)'
<1>t. /\ TypeOK /\ Served(r) /\ Orphans /\ FirstCommit
      /\ load[r] \in [at : {"idle", "manifest", "object", "failed"}, pointer : Pointers,
                      manifest : Snapshots \cup {None}, begun : Nat]
      /\ \A p \in Pointers : pointer[p] # None => pointer[p] \in objects
  BY DEF LockedInv, TypeInv, TypeOK, ReadInv, Resolved, PointersResolve
<1>n. commits \in Nat /\ None = 0 /\ load[r].begun \in Nat /\ 0 <= commits
      /\ commits <= commits /\ \A p \in Pointers : pointer[p] \in Nat
  BY <1>t, Numbers
<1> PICK b \in Nat : b = load[r].begun
  BY <1>n
<1> PICK s : s = load[r].manifest
  OBVIOUS
<1>u. /\ UNCHANGED <<objects, pointer, written, damaged, faults, commits>>
      /\ UNCHANGED <<Pending, Switching, Committing>>
  BY <1>t, ReadAlone
<1>s. /\ Overtaken(b)' <=> Overtaken(b)
      /\ OvertakenAgain(b)' <=> OvertakenAgain(b)
      /\ Outrun(b)' <=> Outrun(b)
      /\ \A x : FirstTry(b, x)' <=> FirstTry(b, x)
      /\ \A x : LastTry(b, x)' <=> LastTry(b, x)
  BY <1>u, SameStore
<1>p. /\ b <= commits
      /\ b # 0 /\ damaged = {} =>
           /\ Trying(r, "object", "current") => FirstTry(b, s)
           /\ Trying(r, "manifest", "last_known_good") => Overtaken(b) \/ OvertakenAgain(b)
           /\ Trying(r, "object", "last_known_good") =>
                (Overtaken(b) /\ s = pointer["last_known_good"]) \/ OvertakenAgain(b)
           /\ Trying(r, "manifest", "previous") => OvertakenAgain(b)
           /\ Trying(r, "object", "previous") => LastTry(b, s)
  BY <1>t DEF Served
<1>1. CASE BeginLoad(r)
  <2>1. load'[r] = [at |-> "manifest", pointer |-> "current", manifest |-> None,
                    begun |-> commits]
    BY <1>1, <1>t DEF BeginLoad, TypeOK
  <2> QED BY <1>u, <1>n, <2>1, ServedNext DEF Trying
<1>x. ASSUME TryNext(r)
      PROVE  /\ load'[r].begun = b /\ load'[r].manifest = None
             /\ load[r].pointer = "current" =>
                  load'[r].at = "manifest" /\ load'[r].pointer = "last_known_good"
             /\ load[r].pointer = "last_known_good" =>
                  load'[r].at = "manifest" /\ load'[r].pointer = "previous"
             /\ load[r].pointer = "previous" => load'[r].at = "failed"
  <2>1. load'[r] = NextTry(load[r])
    BY <1>x, <1>t DEF TryNext, TypeOK
  <2>2. CASE load[r].pointer = "previous"
    BY <1>t, <2>1, <2>2 DEF NextTry
  <2>3. CASE load[r].pointer # "previous"
    <3>1. load'[r] = [load[r] EXCEPT !.at = "manifest", !.manifest = None,
                                     !.pointer = Fallback(load[r].pointer)]
      BY <1>t, <2>1, <2>3 DEF NextTry
    <3> QED BY <1>t, <2>3, <3>1 DEF Fallback
  <2> QED BY <2>2, <2>3
<1>2. CASE ReadManifest(r)
  <2>1. load[r].at = "manifest" /\ load[r].pointer \in Pointers
    BY <1>2, <1>t DEF ReadManifest
  <2>2. ASSUME pointer[load[r].pointer] # None PROVE Served(r)'
    <3>1. PICK x : x = pointer[load[r].pointer]
      OBVIOUS
    <3>2. /\ load'[r].at = "object" /\ load'[r].pointer = load[r].pointer
          /\ load'[r].manifest = x /\ load'[r].begun = b
      BY <1>2, <1>t, <2>2, <3>1 DEF ReadManifest, TypeOK
    <3>3. CASE load[r].pointer = "current"
      <4>1. b # 0 => FirstTry(b, x)
        BY <1>t, <1>p, <3>1, <3>3, PointersServe
      <4> QED BY <1>u, <1>s, <1>p, <3>2, <3>3, <4>1, ServedNext DEF Trying
    <3>4. CASE load[r].pointer = "last_known_good"
      <4>1. x = pointer["last_known_good"] /\ x = pointer'["last_known_good"]
        BY <1>u, <3>1, <3>4
      <4> QED BY <1>u, <1>s, <1>p, <2>1, <3>2, <3>4, <4>1, ServedNext DEF Trying
    <3>5. CASE load[r].pointer = "previous"
      <4>1. b # 0 /\ OvertakenAgain(b) => LastTry(b, x)
        BY <1>t, <1>p, <3>1, <3>5, PointersServe
      <4> QED BY <1>u, <1>s, <1>p, <2>1, <3>2, <3>5, <4>1, ServedNext DEF Trying
    <3> QED BY <2>1, <3>3, <3>4, <3>5 DEF Pointers
  <2>3. ASSUME pointer[load[r].pointer] = None PROVE Served(r)'
    <3>1. TryNext(r)
      BY <1>2, <2>3 DEF ReadManifest
    <3>2. CASE load[r].pointer = "current"
      <4>1. b = 0
        BY <1>t, <1>p, <2>3, <3>2, PointersServe
      <4> QED BY <1>u, <1>p, <1>x, <3>1, <4>1, ServedNext
    <3>3. CASE load[r].pointer = "last_known_good"
      <4>1. ~Overtaken(b)
        BY <2>3, <3>3 DEF Overtaken
      <4> QED BY <1>u, <1>s, <1>p, <1>x, <2>1, <3>1, <3>3, <4>1, ServedNext DEF Trying
    <3>4. CASE load[r].pointer = "previous"
      <4>1. ~OvertakenAgain(b)
        BY <2>3, <3>4 DEF OvertakenAgain
      <4> QED BY <1>u, <1>p, <1>x, <2>1, <3>1, <3>4, <4>1, ServedNext DEF Trying
    <3> QED BY <2>1, <3>2, <3>3, <3>4 DEF Pointers
  <2> QED BY <2>2, <2>3
<1>3. CASE ReadObject(r)
  <2>1. load[r].at = "object" /\ load[r].pointer \in Pointers
    BY <1>3, <1>t DEF ReadObject
  <2>2. CASE Loadable(load[r].manifest)
    <3>1. load'[r] = [at |-> "idle", pointer |-> "current", manifest |-> None, begun |-> 0]
      BY <1>3, <1>t, <2>2 DEF ReadObject, TypeOK
    <3> QED BY <1>u, <1>n, <3>1, ServedNext
  <2>3. CASE ~Loadable(load[r].manifest)
    <3>1. TryNext(r)
      BY <1>3, <2>3 DEF ReadObject
    <3>2. damaged = {} => s \notin objects
      BY <2>3 DEF Loadable
    <3>3. CASE load[r].pointer = "current"
      <4>1. b # 0 /\ damaged = {} => Overtaken(b) \/ OvertakenAgain(b)
        BY <1>p, <2>1, <3>2, <3>3 DEF Trying, FirstTry
      <4> QED BY <1>u, <1>s, <1>p, <1>x, <3>1, <3>3, <4>1, ServedNext DEF Trying
    <3>4. CASE load[r].pointer = "last_known_good"
      <4>1. b # 0 /\ damaged = {} => OvertakenAgain(b)
        BY <1>p, <1>t, <2>1, <3>2, <3>4 DEF Trying, Overtaken, Pointers
      <4> QED BY <1>u, <1>s, <1>p, <1>x, <3>1, <3>4, <4>1, ServedNext DEF Trying
    <3>5. CASE load[r].pointer = "previous"
      <4>1. b # 0 /\ damaged = {} => Outrun(b)
        BY <1>p, <2>1, <3>2, <3>5 DEF Trying, LastTry
      <4> QED BY <1>u, <1>s, <1>p, <1>x, <3>1, <3>5, <4>1, ServedNext DEF Trying
    <3> QED BY <2>1, <3>3, <3>4, <3>5 DEF Pointers
  <2> QED BY <2>2, <2>3
<1> QED BY <1>1, <1>2, <1>3 DEF Read

LEMMA ReadStep ==
    ASSUME ManualWriters = {}, LockedInv, FewInv, RetentionInv, ReadInv, [Next]_vars
    PROVE  ReadInv'
<1>t. TypeOK /\ TypeOK'
  BY TypeStep DEF LockedInv, TypeInv
<1>n. /\ written \in Nat /\ commits \in Nat /\ faults \in Nat /\ Pending \in {0, 1}
      /\ commits' \in Nat /\ None = 0 /\ pointer["current"] \in Nat
      /\ \A r \in Readers : load[r].begun \in Nat /\ load[r].manifest \in Nat
  BY <1>t, Numbers DEF TypeOK, Pointers
<1>1. CASE \E r \in Readers : Read(r)
  <2> PICK r \in Readers : Read(r)
    BY <1>1
  <2>1. /\ UNCHANGED <<objects, pointer, written, damaged, faults, commits>>
        /\ UNCHANGED <<Pending, Switching, Committing>>
        /\ \A q \in Readers \ {r} : load'[q] = load[q]
    BY <1>t, ReadAlone
  <2>2. ASSUME NEW q \in Readers \ {r} PROVE Served(q)'
    BY <2>1, <2>2 DEF ReadInv, Served, Trying, FirstTry, LastTry, Overtaken, OvertakenAgain,
                      Outrun, Owed, Ledger
  <2>3. Served(r)'
    BY OwnRead
  <2> QED BY <2>1, <2>2, <2>3 DEF ReadInv, Orphans, FirstCommit
<1>2. CASE ~(\E r \in Readers : Read(r))
  <2> DEFINE Goal == /\ UNCHANGED load /\ commits' >= commits
                     /\ damaged' = {} => damaged = {}
                     /\ Orphans' /\ FirstCommit'
  <2>i. Orphans /\ FirstCommit /\ (commits > 0 => pointer["current"] # None)
    BY DEF ReadInv, FirstCommit
  <2>1. Goal
    <3>1. CASE Quiet /\ UNCHANGED load
      <4>1. /\ UNCHANGED <<pointer, commits>> /\ damaged \subseteq damaged'
            /\ written' + faults + Pending <= written + faults' + Pending'
        BY <3>1 DEF Quiet
      <4>2. written \in Nat /\ written' \in Nat /\ faults' \in Nat /\ Pending' \in {0, 1}
        BY <1>t, Numbers DEF TypeOK, Pending
      <4>3. Pending \in Nat /\ Pending' \in Nat
        BY <1>n, <4>2
      <4>4. written' <= pointer["current"] + faults' + Pending'
        <5>1. PICK x \in Nat : x = pointer["current"]
          BY <1>n
        <5>2. PICK f \in Nat, p \in Nat : f = faults /\ p = Pending
          BY <1>n, <4>3
        <5>3. PICK f1 \in Nat, p1 \in Nat : f1 = faults' /\ p1 = Pending'
          BY <4>2, <4>3
        <5>4. PICK w \in Nat, w1 \in Nat : w = written /\ w1 = written'
          BY <4>2
        <5>5. w <= x + f + p /\ w1 + f + p <= w + f1 + p1
          BY <2>i, <4>1, <5>1, <5>2, <5>3, <5>4 DEF Orphans
        <5>6. w1 <= x + f1 + p1
          BY <5>5
        <5> QED BY <5>1, <5>3, <5>4, <5>6
      <4> QED BY <1>n, <2>i, <3>1, <4>1, <4>4 DEF Orphans, FirstCommit
    <3>2. ASSUME NEW w \in Writers, WritePrevious(w) PROVE Goal
      BY <1>n, <2>i, <3>2, PreviousMoves DEF Orphans, FirstCommit, Pointers
    <3>3. ASSUME NEW w \in Writers, WriteCurrent(w) PROVE Goal
      <4>1. /\ pointer'["current"] = written /\ written # None /\ commits' = commits + 1
            /\ UNCHANGED <<damaged, written, faults, load>> /\ Pending' = 0
        BY <3>3, CurrentMoves
      <4> QED BY <1>n, <4>1 DEF Orphans, FirstCommit
    <3>4. ASSUME NEW w \in Writers, WriteLkg(w) PROVE Goal
      BY <1>n, <2>i, <3>4, LkgMoves DEF Orphans, FirstCommit, Pointers
    <3>5. ASSUME NEW w \in Writers, PruneObject(w) PROVE Goal
      BY <1>n, <2>i, <3>5, ObjectGoes DEF Orphans, FirstCommit
    <3> QED BY <1>2, <3>1, <3>2, <3>3, <3>4, <3>5, Kinds
  <2>2. ASSUME NEW r \in Readers PROVE Served(r)'
    <3> PICK b \in Nat : b = load[r].begun
      BY <1>n
    <3> PICK s \in Nat : s = load[r].manifest
      BY <1>n
    <3>1. b <= commits /\ b <= commits'
      BY <1>n, <2>1 DEF ReadInv, Served
    <3>2. Kept(b, s)
      BY <1>2, <3>1, PromisesKept DEF ReadInv
    <3>3. /\ load'[r] = load[r]
          /\ \A step, p : Trying(r, step, p)' <=> Trying(r, step, p)
      BY <2>1 DEF Trying
    <3>4. b # 0 /\ damaged' = {} =>
            /\ Trying(r, "object", "current") => FirstTry(b, s)
            /\ Trying(r, "manifest", "last_known_good") => Overtaken(b) \/ OvertakenAgain(b)
            /\ Trying(r, "object", "last_known_good") =>
                 (Overtaken(b) /\ s = pointer["last_known_good"]) \/ OvertakenAgain(b)
            /\ Trying(r, "manifest", "previous") => OvertakenAgain(b)
            /\ Trying(r, "object", "previous") => LastTry(b, s)
            /\ load[r].at = "failed" => Outrun(b)
      BY <2>1 DEF ReadInv, Served
    <3> QED BY <3>1, <3>2, <3>3, <3>4, ServedNext DEF Kept
  <2> QED BY <2>1, <2>2 DEF ReadInv
<1> QED BY <1>1, <1>2

\* Under the lock, whatever the writers do and wherever they die: a reader that is told that no
\* snapshot is available began before the first one, met a damaged object, or was overtaken by
\* retention twice.
THEOREM ReadersTheorem == ASSUME ManualWriters = {} PROVE Spec => []ReadersServed
<1>1. Init => ReadInv
  <2> SUFFICES ASSUME Init PROVE ReadInv
    OBVIOUS
  <2>1. Pending = 0 /\ written = 0 /\ commits = 0 /\ faults = 0 /\ pointer["current"] = 0
    BY DEF Init, Pending, uncommitted, None, Pointers
  <2>2. \A r \in Readers : Served(r)
    BY <2>1 DEF Init, Served
  <2> QED BY <2>1, <2>2 DEF ReadInv, Orphans, FirstCommit
<1>2. LockedInv /\ FewInv /\ RetentionInv /\ ReadInv /\ [Next]_vars => ReadInv'
  BY ReadStep
<1>3. ReadInv => ReadersServed
  BY DEF ReadInv, Served, Outrun, ReadersServed
<1> QED BY <1>1, <1>2, <1>3, LockedInvariant, FewInvariant, RetentionInit, RetentionStep, PTL
        DEF Spec
=============================================================================
