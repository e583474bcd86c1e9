---------------------------- MODULE RemotePublish -----------------------------
(***************************************************************************)
(* The publisher that copies the local snapshot store to its remote        *)
(* targets over ssh (src/dtlab/collector/remote_publish.py), driven by the  *)
(* near-real-time loop (tools/live_sync.py --publish-current) and by the    *)
(* publishers that take no local lock (collector.sync --publish-target,     *)
(* tools/publish_verified_staging.py).                                      *)
(*                                                                         *)
(* One step is one remote effect: an ssh command, or a file uploaded under  *)
(* a temporary name, verified and renamed.  A command whose connection is   *)
(* lost raises; it may have had its effect or not, and an upload may leave  *)
(* its temporary file behind.  Snapshots are numbered in the order of their *)
(* local publication, which is also the order of published_at.  The local   *)
(* store forgets old snapshots by a retention of its own, which counts the   *)
(* rejected ones too and knows nothing of what the targets still lack.      *)
(***************************************************************************)
EXTENDS Naturals, FiniteSets

CONSTANTS
    Live,           \* the live_sync process: only one holds the local lock
    Manuals,        \* publishers that take no local lock
    TargetCount,    \* live publishes to targets 1 .. TargetCount, in this order
    RemoteRetention,
    LocalRetention, \* --snapshot-retention of the collections
    Debris,         \* what a failure may leave on a target: "temporary", "lock"
    Kinds,          \* what collections give: fresh or partial, approved by the gate or not
    MaxSnapshots,   \* bound: local snapshots ever collected
    MaxFaults       \* bound: lost connections and dead processes

ASSUME PublishAssumption ==
    /\ Live \notin Manuals
    /\ TargetCount \in Nat \ {0}
    /\ RemoteRetention \in Nat /\ RemoteRetention >= 3
    /\ LocalRetention \in Nat /\ LocalRetention >= 3
    /\ Debris \subseteq {"temporary", "lock"}
    /\ Kinds \subseteq [fresh : BOOLEAN, approved : BOOLEAN]
    /\ MaxSnapshots \in Nat
    /\ MaxFaults \in Nat

Publishers == {Live} \cup Manuals
Targets    == 1 .. TargetCount
Snapshots  == 1 .. MaxSnapshots
None       == 0
Pointers   == {"current", "last_known_good", "previous"}

VARIABLES
    local,      \* the local store: the snapshots `current` and last_known_good name, its archives
    kind,       \* whether sync.state of a snapshot is fresh, whether the gate approves it
    remote,     \* the store of each target
    pc, at,     \* the next step of a publisher and the target it is at
    want,       \* the snapshot a publisher wants to be `current`
    batch,      \* the snapshots a publisher has chosen to send to each of its targets
    queue,      \* snapshots still to upload, then files still to prune
    seen,       \* what a publisher has read of its target
    outcome,    \* RemotePublishError.committed of the attempt, or "published"
    faults

process == <<pc, at, want, batch, queue, seen, outcome>>
vars    == <<local, kind, remote, process, faults>>

critical == {"presence", "upload", "previous", "lkg", "current", "verify", "inventory",
             "prune_archives", "prune_objects", "release"}
steps    == {"idle", "check", "lock", "reported"} \cup critical

Unpublished == [p \in Pointers |-> None]
Nothing     == [objects |-> {}, archives |-> {}, pointer |-> Unpublished]

Uncollected == [fresh |-> FALSE, approved |-> FALSE]

Init ==
    /\ local = [current |-> None, good |-> None, archives |-> {}]
    /\ kind = [s \in Snapshots |-> Uncollected]
    /\ remote = [t \in Targets |-> [objects |-> {}, archives |-> {}, pointer |-> Unpublished,
                                    temporary |-> FALSE, locked |-> FALSE]]
    /\ pc = [p \in Publishers |-> "idle"]
    /\ at = [p \in Publishers |-> 1]
    /\ want = [p \in Publishers |-> None]
    /\ batch = [p \in Publishers |-> {}]
    /\ queue = [p \in Publishers |-> {}]
    /\ seen = [p \in Publishers |-> Nothing]
    /\ outcome = [p \in Publishers |-> "published"]
    /\ faults = 0

Site(p)       == remote[at[p]]
Goto(p, step) == pc' = [pc EXCEPT ![p] = step]
Become(p, site) == remote' = [remote EXCEPT ![at[p]] = site]

\* The caller sees a RemotePublishError, whose `committed` is result, and gives the lock
\* back.
GiveUp(p, result) ==
    /\ outcome' = [outcome EXCEPT ![p] = result]
    /\ Goto(p, "release")
    /\ UNCHANGED <<local, kind, at, want, batch, queue, seen>>

\* The connection is lost.
Lost(p, result) == faults < MaxFaults /\ faults' = faults + 1 /\ GiveUp(p, result)

\* _ssh: a command that would leave the target as site, and raises or not.
Command(p, site, result) == Lost(p, result) /\ (Become(p, site) \/ UNCHANGED remote)

\* _commit_file: upload to a temporary name, verify, rename, and remove what is left.
Upload(p, site, result) ==
    \/ Command(p, site, result)
    \/ /\ "temporary" \in Debris
       /\ Lost(p, result)
       /\ Become(p, [Site(p) EXCEPT !.temporary = TRUE])

-----------------------------------------------------------------------------
(* The local side.                                                          *)

\* prune_objects: the newest LocalRetention snapshots stay, and what the pointers name.  Its
\* errors are suppressed, so that it may stop after any part of the rest.
Doomed(store)  == {s \in store.archives : s + LocalRetention <= store.current} \ {store.good}
Trimmed(store) == {[store EXCEPT !.archives = @ \ gone] : gone \in SUBSET Doomed(store)}

\* run_sync commits one more local snapshot and prunes the local store.
Collect(p) ==
    /\ pc[p] = "idle"
    /\ local.current < MaxSnapshots
    /\ \E k \in Kinds :
         LET new == local.current + 1 IN
         /\ kind' = [kind EXCEPT ![new] = k]
         /\ local' \in Trimmed([current  |-> new,
                                good     |-> IF k.fresh \/ local.good = None THEN new
                                             ELSE local.good,
                                archives |-> local.archives \cup {new}])
    /\ UNCHANGED <<remote, process, faults>>

Approved == {s \in 1 .. local.current : kind[s].approved}

Begin(p, t, snapshots) ==
    /\ pc[p] = "idle"
    /\ at' = [at EXCEPT ![p] = t]
    /\ want' = [want EXCEPT ![p] = local.current]
    /\ batch' = [batch EXCEPT ![p] = snapshots]
    /\ queue' = [queue EXCEPT ![p] = snapshots]
    /\ Goto(p, "check")
    /\ UNCHANGED <<local, kind, remote, seen, outcome, faults>>

\* Mutant: the backlog of an outage is forgotten.
BeginLiveAlone == local.current \in Approved /\ Begin(Live, 1, {local.current})

\* What publish_batch gets: the approved snapshots the local store still has, and `current`.
Batch == (Approved \cap local.archives) \cup {local.current}

\* publish_current: the gate must approve `current`; the approved archives go with it.
BeginLive == local.current \in Approved /\ Begin(Live, 1, Batch)

\* sync --publish-target: `current` alone, to one target, with no gate.
BeginManual(p) ==
    /\ local.current # None
    /\ \E t \in Targets : Begin(p, t, {local.current})

Report(p, result) ==
    /\ outcome' = [outcome EXCEPT ![p] = result]
    /\ Goto(p, "reported")
    /\ UNCHANGED <<local, kind, at, want, batch, queue, seen>>

Advance(p, next) ==
    /\ Goto(p, next)
    /\ UNCHANGED <<local, kind, at, want, batch, queue, seen, outcome, faults>>

\* publish_batch compares the manifest with the local pointer, then reads the archives.
Ready(p) == local.current = want[p] /\ queue[p] \subseteq local.archives

Check(p) ==
    /\ pc[p] = "check"
    /\ \/ Ready(p) /\ Advance(p, "lock")
       \/ ~Ready(p) /\ Report(p, "not_committed")
    /\ UNCHANGED <<remote, faults>>

-----------------------------------------------------------------------------
(* _publish_prepared, one target.                                           *)

\* Mutant: mkdir inside the try, so that a publisher that lost the race releases too.
LockInTry(p) ==
    /\ pc[p] = "lock"
    /\ IF Site(p).locked
       THEN /\ outcome' = [outcome EXCEPT ![p] = "not_committed"]
            /\ Goto(p, "release")
            /\ UNCHANGED <<remote, seen>>
       ELSE /\ Become(p, [Site(p) EXCEPT !.locked = TRUE])
            /\ seen' = [seen EXCEPT ![p] = [Nothing EXCEPT !.pointer = Site(p).pointer]]
            /\ Goto(p, "presence")
            /\ UNCHANGED outcome
    /\ UNCHANGED <<local, kind, at, want, batch, queue, faults>>

\* mkdir .publish.lock
Lock(p) ==
    /\ pc[p] = "lock"
    /\ \/ /\ ~Site(p).locked
          /\ Become(p, [Site(p) EXCEPT !.locked = TRUE])
          /\ seen' = [seen EXCEPT ![p] = [Nothing EXCEPT !.pointer = Site(p).pointer]]
          /\ Goto(p, "presence")
          /\ UNCHANGED <<local, kind, at, want, batch, queue, outcome, faults>>
       \/ Site(p).locked /\ Report(p, "not_committed") /\ UNCHANGED <<remote, faults>>
       \/ /\ faults < MaxFaults /\ faults' = faults + 1
          /\ \/ UNCHANGED remote
             \/ "lock" \in Debris /\ Become(p, [Site(p) EXCEPT !.locked = TRUE])
          /\ Report(p, "not_committed")

\* What the target has of the batch (`pointer` stays what it was when the lock was taken).
Present(p) == [objects |-> Site(p).objects \cap queue[p],
               archives |-> Site(p).archives \cap queue[p],
               pointer |-> seen[p].pointer]

\* Mutant: the strict name check of retention, before the commit.
PresenceStrict(p) ==
    /\ pc[p] = "presence"
    /\ IF Site(p).temporary
       THEN outcome' = [outcome EXCEPT ![p] = "not_committed"] /\ Goto(p, "release")
       ELSE UNCHANGED outcome /\ Goto(p, "upload")
    /\ seen' = [seen EXCEPT ![p] = Present(p)]
    /\ queue' = [queue EXCEPT ![p] = @ \ (Site(p).objects \cap Site(p).archives)]
    /\ UNCHANGED <<local, kind, remote, at, want, batch, faults>>

\* _verified_snapshot_presence
Presence(p) ==
    /\ pc[p] = "presence"
    /\ \/ /\ seen' = [seen EXCEPT ![p] = Present(p)]
          /\ queue' = [queue EXCEPT ![p] = @ \ (Site(p).objects \cap Site(p).archives)]
          /\ Goto(p, "upload")
          /\ UNCHANGED <<local, kind, remote, at, want, batch, outcome, faults>>
       \/ Lost(p, "not_committed") /\ UNCHANGED remote

\* Mutant: the batch is not sorted.
FirstAny(p, s) == s \in queue[p]

\* The oldest snapshot of the batch that the target lacks: its object, which a concurrent
\* collection may have pruned, then its archive, whose bytes the publisher holds.
First(p, s) == s \in queue[p] /\ \A q \in queue[p] : s <= q

UploadObject(p) ==
    /\ pc[p] = "upload"
    /\ \E s \in Snapshots :
         /\ First(p, s) /\ s \notin seen[p].objects
         /\ LET site == [Site(p) EXCEPT !.objects = @ \cup {s}] IN
            \/ /\ Become(p, site)
               /\ seen' = [seen EXCEPT ![p].objects = @ \cup {s}]
               /\ UNCHANGED <<local, kind, pc, at, want, batch, queue, outcome, faults>>
            \/ Upload(p, site, "not_committed")
            \/ s \notin local.archives /\ GiveUp(p, "not_committed") /\ UNCHANGED <<remote, faults>>

UploadArchive(p) ==
    /\ pc[p] = "upload"
    /\ \E s \in Snapshots :
         /\ First(p, s) /\ s \in seen[p].objects
         /\ LET site == [Site(p) EXCEPT !.archives = @ \cup {s}] IN
            \/ /\ Become(p, site)
               /\ queue' = [queue EXCEPT ![p] = @ \ {s}]
               /\ UNCHANGED <<local, kind, pc, at, want, batch, seen, outcome, faults>>
            \/ Upload(p, site, "not_committed")

Uploaded(p) ==
    /\ pc[p] = "upload"
    /\ queue[p] = {}
    /\ \/ Advance(p, IF Site(p).pointer["current"] = want[p] THEN "inventory"
                     ELSE IF Site(p).pointer["current"] = None THEN "lkg" ELSE "previous")
       \/ Lost(p, "not_committed")
    /\ UNCHANGED remote

Repoint(p, pointer, s) == [Site(p) EXCEPT !.pointer[pointer] = s]

Previous(p) ==
    /\ pc[p] = "previous"
    /\ LET site == Repoint(p, "previous", Site(p).pointer["current"]) IN
       \/ Become(p, site) /\ Advance(p, "lkg")
       \/ Upload(p, site, "not_committed")

\* Mutant: every publication is a good one.
PromoteAlways(p) == TRUE

PromoteLkg(p) == kind[want[p]].fresh \/ Site(p).pointer["last_known_good"] = None

\* _remote_file_exists, then the write: each may lose the connection.
Lkg(p) ==
    /\ pc[p] = "lkg"
    /\ IF PromoteLkg(p)
       THEN LET site == Repoint(p, "last_known_good", want[p]) IN
            \/ Become(p, site) /\ Advance(p, "current")
            \/ Upload(p, site, "not_committed")
       ELSE Advance(p, "current") /\ UNCHANGED remote

\* Mutant: an error of the last rename counts as committed.
CurrentCommitted(p) ==
    /\ pc[p] = "current"
    /\ LET site == Repoint(p, "current", want[p]) IN
       \/ Become(p, site) /\ Advance(p, "verify")
       \/ Upload(p, site, "committed")

\* `current` last; an error here is reported as commit-unknown.
Current(p) ==
    /\ pc[p] = "current"
    /\ LET site == Repoint(p, "current", want[p]) IN
       \/ Become(p, site) /\ Advance(p, "verify")
       \/ Upload(p, site, "unknown")

\* The final sha256sum of `current` is outside the try that reports commit-unknown.
Verify(p) ==
    /\ pc[p] = "verify"
    /\ \/ Advance(p, "inventory")
       \/ Lost(p, "not_committed")
    /\ UNCHANGED remote

-----------------------------------------------------------------------------
(* _prune_remote_locked: fail-closed retention.                             *)

Newest(S) == {s \in S : Cardinality({q \in S : q > s}) < RemoteRetention}

\* Mutant: what the pointers name is not kept.
KeptRecent(site) == Newest(site.archives)

Kept(site) == Newest(site.archives) \cup ({site.pointer[q] : q \in Pointers} \ {None})

\* A temporary file left behind is an entry whose name or place retention refuses, and so
\* is a manifest whose object is missing.
Consistent(site) ==
    /\ ~site.temporary
    /\ \A s \in site.archives \cup ({site.pointer[q] : q \in Pointers} \ {None}) :
         s \in site.objects

Inventory(p) ==
    /\ pc[p] = "inventory"
    /\ \/ /\ Consistent(Site(p))
          /\ seen' = [seen EXCEPT ![p] = [objects |-> Site(p).objects,
                                          archives |-> Site(p).archives,
                                          pointer |-> Site(p).pointer]]
          /\ queue' = [queue EXCEPT ![p] = Site(p).archives \ Kept(Site(p))]
          /\ Goto(p, "prune_archives")
          /\ UNCHANGED <<local, kind, remote, at, want, batch, outcome, faults>>
       \/ ~Consistent(Site(p)) /\ GiveUp(p, "committed") /\ UNCHANGED <<remote, faults>>
       \/ Lost(p, "committed") /\ UNCHANGED remote

\* Archives before objects, each verified and removed: in the order of their names.
PruneArchive(p) ==
    /\ pc[p] = "prune_archives"
    /\ \E s \in queue[p] :
         LET site == [Site(p) EXCEPT !.archives = @ \ {s}] IN
         \/ /\ Become(p, site)
            /\ queue' = [queue EXCEPT ![p] = @ \ {s}]
            /\ UNCHANGED <<local, kind, pc, at, want, batch, seen, outcome, faults>>
         \/ Command(p, site, "committed")

\* Objects go only if the manifests are still those of the inventory.
Recheck(p) ==
    /\ pc[p] = "prune_archives"
    /\ queue[p] = {}
    /\ LET doomed == seen[p].objects \ Kept(seen[p]) IN
       \/ /\ doomed = {} \/ /\ Site(p).archives = seen[p].archives \cap Kept(seen[p])
                            /\ Site(p).pointer = seen[p].pointer
          /\ queue' = [queue EXCEPT ![p] = doomed]
          /\ Goto(p, "prune_objects")
          /\ UNCHANGED <<local, kind, remote, at, want, batch, seen, outcome, faults>>
       \/ doomed # {} /\ Lost(p, "committed") /\ UNCHANGED remote

PruneObject(p) ==
    /\ pc[p] = "prune_objects"
    /\ \E s \in queue[p] :
         LET site == [Site(p) EXCEPT !.objects = @ \ {s}] IN
         \/ /\ Become(p, site)
            /\ queue' = [queue EXCEPT ![p] = @ \ {s}]
            /\ UNCHANGED <<local, kind, pc, at, want, batch, seen, outcome, faults>>
         \/ Command(p, site, "committed")

Pruned(p) ==
    /\ pc[p] = "prune_objects"
    /\ queue[p] = {}
    /\ Goto(p, "release")
    /\ UNCHANGED <<local, kind, remote, at, want, batch, queue, seen, outcome, faults>>

-----------------------------------------------------------------------------
\* rmdir .publish.lock, whatever happened before: a failure of it is an error of its own.
Release(p) ==
    /\ pc[p] = "release"
    /\ LET unlocked == [Site(p) EXCEPT !.locked = FALSE] IN
       \/ Become(p, unlocked) /\ UNCHANGED <<outcome, faults>>
       \/ /\ faults < MaxFaults /\ faults' = faults + 1
          /\ \/ Become(p, unlocked)
             \/ "lock" \in Debris /\ UNCHANGED remote
          /\ outcome' = [outcome EXCEPT ![p] = IF @ = "published" THEN "committed" ELSE @]
    /\ Goto(p, "reported")
    /\ UNCHANGED <<local, kind, at, want, batch, queue, seen>>

Forget(p) ==
    /\ want' = [want EXCEPT ![p] = None]
    /\ batch' = [batch EXCEPT ![p] = {}]
    /\ queue' = [queue EXCEPT ![p] = {}]
    /\ seen' = [seen EXCEPT ![p] = Nothing]
    /\ outcome' = [outcome EXCEPT ![p] = "published"]
    /\ at' = [at EXCEPT ![p] = 1]
    /\ Goto(p, "idle")
    /\ UNCHANGED <<kind, remote>>

\* The first target that fails ends the cycle: TargetPublishError.  sync --publish-target
\* prunes the local store after it has published.
NextTarget(p) ==
    /\ pc[p] = "reported"
    /\ IF p = Live /\ outcome[p] = "published" /\ at[p] < TargetCount
       THEN /\ at' = [at EXCEPT ![p] = @ + 1]
            /\ queue' = [queue EXCEPT ![p] = batch[p]]
            /\ seen' = [seen EXCEPT ![p] = Nothing]
            /\ Goto(p, "check")
            /\ UNCHANGED <<local, kind, remote, want, batch, outcome>>
       ELSE /\ Forget(p)
            /\ IF p # Live /\ outcome[p] = "published" THEN local' \in Trimmed(local)
               ELSE UNCHANGED local
    /\ UNCHANGED faults

\* The publisher dies; a lock it holds stays where it is.
Crash(p) ==
    /\ pc[p] # "idle"
    /\ pc[p] \in critical => "lock" \in Debris
    /\ faults < MaxFaults
    /\ faults' = faults + 1
    /\ Forget(p)
    /\ UNCHANGED local

Publish(p) ==
    \/ Check(p) \/ Lock(p) \/ Presence(p) \/ UploadObject(p) \/ UploadArchive(p)
    \/ Uploaded(p) \/ Previous(p) \/ Lkg(p) \/ Current(p) \/ Verify(p) \/ Inventory(p)
    \/ PruneArchive(p) \/ Recheck(p) \/ PruneObject(p) \/ Pruned(p) \/ Release(p)
    \/ NextTarget(p)

Next ==
    \/ BeginLive
    \/ \E p \in Manuals : BeginManual(p)
    \/ \E p \in Publishers : Collect(p) \/ Publish(p) \/ Crash(p)

Spec == Init /\ [][Next]_vars

\* live_sync runs as a scheduled task, each command under a timeout of its own.
LiveSpec == Spec /\ WF_vars(BeginLive) /\ WF_vars(Publish(Live))

-----------------------------------------------------------------------------
(* Properties.                                                              *)

Pointed  == [Pointers -> Snapshots \cup {None}]
Sites    == [objects : SUBSET Snapshots, archives : SUBSET Snapshots, pointer : Pointed,
             temporary : BOOLEAN, locked : BOOLEAN]
Readings == [objects : SUBSET Snapshots, archives : SUBSET Snapshots, pointer : Pointed]
Stores   == [current : Snapshots \cup {None}, good : Snapshots \cup {None},
             archives : SUBSET Snapshots]
Outcomes == {"published", "committed", "unknown", "not_committed"}

\* Every variable keeps its type.
TypeOK ==
    /\ local \in Stores
    /\ kind \in [Snapshots -> Kinds \cup {Uncollected}]
    /\ remote \in [Targets -> Sites]
    /\ pc \in [Publishers -> steps]
    /\ at \in [Publishers -> Targets]
    /\ want \in [Publishers -> Snapshots \cup {None}]
    /\ batch \in [Publishers -> SUBSET Snapshots]
    /\ queue \in [Publishers -> SUBSET Snapshots]
    /\ seen \in [Publishers -> Readings]
    /\ outcome \in [Publishers -> Outcomes]
    /\ faults \in 0 .. MaxFaults

\* Whatever connections are lost and whoever dies, a target's readers find the object of
\* every manifest: pointers and archives never dangle, during a publication or after.
ManifestsResolve ==
    \A t \in Targets :
        /\ remote[t].archives \subseteq remote[t].objects
        /\ \A q \in Pointers :
             remote[t].pointer[q] # None => remote[t].pointer[q] \in remote[t].objects

\* At most one publisher changes a target: the lock directory excludes the others even
\* while nobody knows whether its creation or removal took effect.
OnePublisher ==
    \A p, q \in Publishers :
        (p # q /\ pc[p] \in critical /\ pc[q] \in critical) => at[p] # at[q]

\* A target its readers and the other publishers can rely on, at every remote command.
TargetSafe == TypeOK /\ ManifestsResolve /\ OnePublisher

\* What is reported as committed is committed: published_targets names a target only
\* while its `current` is the snapshot that was to be published.
CommittedIsCurrent ==
    \A p \in Publishers :
        (pc[p] = "release" /\ outcome[p] \in {"published", "committed"})
            => Site(p).pointer["current"] = want[p]

\* A target has the archive of a snapshot, or retention has let newer ones take its place.
Held(archives, s) ==
    s \in archives \/ Cardinality({a \in archives : a > s}) >= RemoteRetention

\* The backlog comes first: of the last LocalRetention snapshots up to its `current` a target
\* has had every approved one, so that its ticket worker can ingest them.
BacklogBeforeCurrent ==
    \A t \in Targets : \A s \in Approved :
        LET c == remote[t].pointer["current"] IN
        (s <= c /\ c < s + LocalRetention) => Held(remote[t].archives, s)

\* In chronological order: an outage in the middle of the backlog leaves no hole below the
\* newest archive that has reached a target, but for what the local store has forgotten.
NoArchiveGaps ==
    \A t \in Targets : \A s \in Approved \cap local.archives :
        (\E a \in remote[t].archives : s <= a) => Held(remote[t].archives, s)

\* What reaches a target reaches it in order, and the only holes are snapshots that the local
\* retention removed before they could be sent (BacklogBeforeCurrent and NoArchiveGaps).
BacklogComplete == BacklogBeforeCurrent /\ NoArchiveGaps

\* With live_sync as the only publisher `current` never moves back on a target, and a
\* fresh last_known_good is never replaced by an older or a partial snapshot.
NeverBack ==
    \A t \in Targets :
        LET old == remote[t].pointer new == remote'[t].pointer IN
        /\ new["current"] >= old["current"]
        /\ (old["last_known_good"] # None /\ kind[old["last_known_good"]].fresh)
             => /\ new["last_known_good"] >= old["last_known_good"]
                /\ kind[new["last_known_good"]].fresh

PointersNeverGoBack == [][NeverBack]_vars

\* An outage is made up for: once collection and faults end, every target has the newest
\* approved `current` (unless the gate rejects it).
Recovered(t) == local.current \notin Approved \/ remote[t].pointer["current"] = local.current

\* What stops the loop before it has moved a target's `current`: a lock nobody gives back,
\* there or on a target before it, or a temporary file on a target before it.
Blocked(t) == \E u \in 1 .. t : remote[u].locked \/ (u < t /\ remote[u].temporary)

\* Nothing else keeps a target from recovering, its own temporary files included.
UnblockedRecover == \A t \in Targets : <>[](Recovered(t) \/ Blocked(t))
=============================================================================
