--------------------------- MODULE ProductionDeploy -------------------------
\* deploy/production_tool.py: promote and rollback of the production installation,
\* with the publisher that writes the production store and the systemd path unit
\* that runs the ticket ingest.  One lock file serialises the operations; an
\* operation may fail at any step or be killed.  Staging is read by a promotion:
\* its variables are changed by StagingDeploy (see Deployment).
EXTENDS Installation, Integers, FiniteSets

CONSTANTS
    ProductionOps,   \* the operations that may be run, once each
    FirstInstalled,  \* what production may hold at the start: releases or None
    MaxSnapshots,    \* bound: publications to the production store
    MaxFaults        \* bound: steps that fail, and kills

ASSUME ProductionAssumption == /\ FirstInstalled \subseteq Maybe /\ None \notin ProductionOps
                               /\ MaxSnapshots \in Nat \ {0} /\ MaxFaults \in Nat

VARIABLES
    staging, stagingData, stagingStarts,  \* of StagingDeploy
    production,  \* the installation
    data,        \* the current snapshot of the production store
    archived,    \* the snapshots whose manifest is in the immutable archive
    done,        \* the newest snapshot the production ticket store has ingested
    due,         \* the path unit has started the ingest service
    missed,      \* snapshots archived after an initial ingest and before the path unit is on,
                 \* and not current by the last check (for the properties only)
    lock,        \* the operation that holds the lock file, or None
    base,        \* the installation when it was taken (for the properties only)
    op,          \* the operations
    faults       \* the failures and kills so far

productionVars == <<production, data, archived, done, due, missed, lock, base, op>>
vars == <<productionVars, staging, stagingData, stagingStarts, faults>>

Preparing == {"mark1", "quiesce1", "archive", "inspect"}
Changing  == {"quiesce2", "release", "venv", "unit", "isvc", "ipath", "restart",
              "ready", "ingest", "watch", "verify", "again", "complete"}
Restoring == {"r_quiesce", "r_release", "r_venv", "r_unit", "r_isvc", "r_ipath",
              "r_restart", "r_watch", "r_idle", "r_verify"}
Resuming  == {"p_watch", "p_idle"}
Markers   == {"none", "preparation_starting", "preparation_failed_runtime_restored",
              "mutation_starting", "complete", "rolled_back", "restore_failed"}

\* plan: what the confirmed plan was made from; marker: recovery.json in the
\* backup directory of the operation.
Plans == [before : Installations, data : Nat, archived : BOOLEAN,
          stagingData : Nat, stagingStarts : Nat]
Operations == [pc : {"idle", "planned", "locked", "mark2", "end"} \cup Preparing
                      \cup Changing \cup Restoring \cup Resuming,
               kind : {"promote", "rollback"}, target : Maybe, plan : Plans,
               marker : Markers]
NoPlan == [before |-> Nothing, data |-> 0, archived |-> FALSE,
           stagingData |-> 0, stagingStarts |-> 0]

Init ==
    /\ \E r \in FirstInstalled : production = IF r = None THEN Nothing ELSE Whole(r)
    /\ data = 1 /\ done \in {0, 1} /\ due = FALSE
    /\ archived \in {{}, {1}} /\ missed = {}
    /\ lock = None /\ base = Nothing
    /\ op = [o \in ProductionOps |->
                [pc |-> "idle", kind |-> "promote", target |-> None, plan |-> NoPlan,
                 marker |-> "none"]]

-----------------------------------------------------------------------------
\* _capture_deployment: refused when the ingest service is running.
CanCapture == Capturable(production) /\ ~due

\* Mutant: any healthy staging will do.
StagingIsHealthy(r) == r \in Releases /\ staging.enabled /\ staging.runs # None

\* _require_current_staging: both links and the unit of staging are those of the
\* release, the service is enabled, active and healthy.  The ingest units of
\* staging, and whether an operation on it is under way, are not looked at.
StagingIsCurrent(r) == /\ staging.release = r /\ staging.venv = r /\ staging.unit = r
                       /\ staging.enabled /\ staging.runs # None

\* _verify_release, _verify_venv, of releases that are intact: only those with the
\* ticket runtime can be promoted, a historical one can be rolled back to.
Deployable(kind) == IF kind = "promote" THEN Ingesting ELSE Releases

\* (stagingStarts: the MainPID of the service is part of the plan.)
\* The plan of main, dry run or apply: a promotion needs a release with the
\* ticket runtime, current in staging, and the same snapshot in both stores.
PlanNow == [before |-> production, data |-> data, archived |-> data \in archived,
            stagingData |-> stagingData, stagingStarts |-> stagingStarts]
Plan(o) ==
    /\ op[o].pc = "idle"
    /\ CanCapture
    /\ \E kind \in {"promote", "rollback"}, r \in Releases :
         /\ r \in Deployable(kind)
         /\ kind = "promote" => StagingIsCurrent(r) /\ data = stagingData
         /\ op' = [op EXCEPT ![o] = [@ EXCEPT !.pc = "planned", !.kind = kind,
                     !.target = r,
                     !.plan = IF kind = "promote" THEN PlanNow
                              ELSE [PlanNow EXCEPT !.stagingData = 0, !.stagingStarts = 0]]]
    /\ UNCHANGED <<production, data, archived, done, due, missed, lock, base, faults>>

\* One step of an operation: to the next place, changing production to i.
Step(o, from, to, i) ==
    /\ op[o].pc = from
    /\ production' = i
    /\ op' = [op EXCEPT ![o].pc = to]
    /\ UNCHANGED <<data, archived, done, due, missed, lock, base, faults>>

\* Mutant: the lock file stays locked.
EndsLocked(o, marker) ==
    /\ op' = [op EXCEPT ![o].pc = "end", ![o].marker = marker, ![o].plan = NoPlan]
    /\ UNCHANGED <<production, data, archived, done, due, missed, lock, base>>

\* The operation is over: the lock file is closed, the marker stays.
Ends(o, marker) ==
    /\ op' = [op EXCEPT ![o].pc = "end", ![o].marker = marker, ![o].plan = NoPlan]
    /\ lock' = IF lock = o THEN None ELSE lock
    /\ UNCHANGED <<production, data, archived, done, due, missed, base>>

\* _production_lock: LOCK_EX or LOCK_NB, refused when another operation has it.
Lock(o) ==
    /\ op[o].pc = "planned" /\ lock = None
    /\ lock' = o /\ base' = production
    /\ op' = [op EXCEPT ![o].pc = "locked"]
    /\ UNCHANGED <<production, data, archived, done, due, missed, faults>>
Locked(o) == op[o].pc = "planned" /\ lock # None /\ Ends(o, "none") /\ UNCHANGED faults

\* Mutant: the plan of before the lock is trusted.
StillCapturable(o) == CanCapture /\ op[o].pc = "locked"

\* Under the lock everything the token was made from is read again.
StillPlanned(o) ==
    LET plan == op[o].plan
    IN  /\ CanCapture
        /\ plan.before = production
        /\ plan.data = data /\ plan.archived = (data \in archived)
        /\ op[o].kind = "promote" => /\ StagingIsCurrent(op[o].target)
                                     /\ plan.stagingStarts = stagingStarts
                                     /\ plan.stagingData = stagingData
Recheck(o) == StillPlanned(o) /\ Step(o, "locked", "mark1", production)
Changed(o) == op[o].pc = "locked" /\ ~StillPlanned(o) /\ Ends(o, "none") /\ UNCHANGED faults

-----------------------------------------------------------------------------
\* _apply_operation, before the activation: marker, _quiesce_ingest, ticket
\* directory and manifest archive, inspection, database backup.
MarkPreparing(o) ==
    /\ op[o].pc = "mark1"
    /\ op' = [op EXCEPT ![o].pc = "quiesce1", ![o].marker = "preparation_starting"]
    /\ UNCHANGED <<production, data, archived, done, due, missed, lock, base, faults>>

\* The path is stopped and disabled, a running ingest is stopped with it.
QuiesceTo(o, from, to) ==
    /\ op[o].pc = from
    /\ production' = [production EXCEPT !.watching = FALSE]
    /\ due' = FALSE
    /\ op' = [op EXCEPT ![o].pc = to]
    /\ UNCHANGED <<data, archived, done, missed, lock, base, faults>>
Quiesce(o) == QuiesceTo(o, "quiesce1", "archive")

\* _ensure_production_manifest_archive, of the snapshot of the plan.
Archive(o) ==
    /\ op[o].pc = "archive"
    /\ archived' = archived \cup {op[o].plan.data}
    /\ op' = [op EXCEPT ![o].pc = "inspect"]
    /\ UNCHANGED <<production, data, done, due, missed, lock, base, faults>>

\* _inspect_store and _store_identity_matches: the store still holds the snapshot
\* of the plan, with its manifest archived.
SameData(o) == data = op[o].plan.data /\ data \in archived
Inspect(o) == SameData(o) /\ Step(o, "inspect", "mark2", production)

\* A failure up to here puts the path unit back and waits for the ingest.
Resume(o) == /\ op[o].plan.before.watching => production.ipath # None
             /\ Step(o, "p_watch", "p_idle",
                     [production EXCEPT !.watching = op[o].plan.before.watching])
Resumed(o) == /\ op[o].pc = "p_idle" /\ ~due
              /\ Ends(o, "preparation_failed_runtime_restored") /\ UNCHANGED faults

-----------------------------------------------------------------------------
\* Mutant: the marker of the preparation stays.
MarkNothing(o) == Step(o, "mark2", "quiesce2", production)

\* _activate.  The first marker is written before anything is undone on failure:
\* if writing it fails the operation ends as it is.
MarkMutation(o) ==
    /\ op[o].pc = "mark2"
    /\ op' = [op EXCEPT ![o].pc = "quiesce2", ![o].marker = "mutation_starting"]
    /\ UNCHANGED <<production, data, archived, done, due, missed, lock, base, faults>>
QuiesceAgain(o)  == QuiesceTo(o, "quiesce2", "release")
SwitchRelease(o) == Step(o, "release", "venv", [production EXCEPT !.release = op[o].target])
SwitchVenv(o)    == Step(o, "venv", "unit", [production EXCEPT !.venv = op[o].target])
InstallUnit(o)   == Step(o, "unit", "isvc", [production EXCEPT !.unit = op[o].target])
InstallIngestService(o) ==
    Step(o, "isvc", "ipath", [production EXCEPT !.isvc = IngestUnit(op[o].target)])
InstallIngestPath(o) ==
    Step(o, "ipath", "restart", [production EXCEPT !.ipath = IngestUnit(op[o].target)])
Restart(o) == Step(o, "restart", "ready",
    [production EXCEPT !.enabled = TRUE, !.runs = Loaded(production)])

\* Mutant: the store is not looked at again.
AppUp(o) == /\ production.enabled /\ production.runs # None
            /\ production.release = op[o].target /\ production.venv = op[o].target
            /\ production.unit = op[o].target

\* _wait_for_active_readiness: service, links, unit and the snapshot of the plan.
AppReady(o) == /\ production.enabled /\ production.runs # None
               /\ production.release = op[o].target /\ production.venv = op[o].target
               /\ production.unit = op[o].target
               /\ SameData(o)
Ready(o) == /\ AppReady(o)
            /\ Step(o, "ready", IF op[o].target \in Ingesting THEN "ingest" ELSE "watch",
                    production)

\* ingest_available_snapshots: the worker ingests what is archived, and current.
Newest(n) == n \in archived \cup {data} /\ \A m \in archived \cup {data} : m <= n
IngestsAll == \E n \in archived \cup {data} : Newest(n) /\ done' = n

\* _run_initial_ingest: the worker, started and waited for.
InitialIngest(o) ==
    /\ op[o].pc = "ingest"
    /\ IngestsAll
    /\ missed' = {}
    /\ op' = [op EXCEPT ![o].pc = "watch"]
    /\ UNCHANGED <<production, data, archived, due, lock, base, faults>>

\* _set_ingest_path_state, then _verify_ingest_readiness.
Watch(o) == Step(o, "watch", "verify",
    [production EXCEPT !.watching = op[o].target \in Ingesting])
IngestReady(o) == /\ production.isvc = IngestUnit(op[o].target)
                  /\ production.ipath = IngestUnit(op[o].target)
                  /\ production.watching = (op[o].target \in Ingesting)
                  /\ op[o].target \in Ingesting => done >= op[o].plan.data
Verify(o) == IngestReady(o) /\ Step(o, "verify", "again", production)
ReadyAgain(o) == AppReady(o) /\ Step(o, "again", "complete", production)
Complete(o) == op[o].pc = "complete" /\ Ends(o, "complete") /\ UNCHANGED faults

-----------------------------------------------------------------------------
\* _restore_transaction, in its order.
RestoreQuiesce(o) == QuiesceTo(o, "r_quiesce", "r_release")
RestoreRelease(o) ==
    Step(o, "r_release", "r_venv", [production EXCEPT !.release = op[o].plan.before.release])
RestoreVenv(o) ==
    Step(o, "r_venv", "r_unit", [production EXCEPT !.venv = op[o].plan.before.venv])
RestoreUnit(o) ==
    Step(o, "r_unit", "r_isvc", [production EXCEPT !.unit = op[o].plan.before.unit])
RestoreIngestService(o) ==
    Step(o, "r_isvc", "r_ipath", [production EXCEPT !.isvc = op[o].plan.before.isvc])
RestoreIngestPath(o) ==
    Step(o, "r_ipath", "r_restart", [production EXCEPT !.ipath = op[o].plan.before.ipath])
RestoreService(o) ==
    LET before == op[o].plan.before
    IN  Step(o, "r_restart", "r_watch",
             [production EXCEPT !.enabled = before.enabled,
                                !.runs = IF before.runs = None THEN None ELSE Loaded(production)])
RestoreWatch(o) == Step(o, "r_watch", "r_idle",
    [production EXCEPT !.watching = op[o].plan.before.watching])
RestoreIdle(o) == ~due /\ Step(o, "r_idle", "r_verify", production)

\* The capture of the restored installation is compared with the plan's, and the
\* store must still hold the snapshot of the plan.
AsBefore(o) ==
    LET before == op[o].plan.before
    IN  /\ [production EXCEPT !.runs = None] = [before EXCEPT !.runs = None]
        /\ (production.runs = None) = (before.runs = None)
        /\ CanCapture
RolledBack(o) == /\ op[o].pc = "r_verify" /\ AsBefore(o) /\ SameData(o)
                 /\ Ends(o, "rolled_back") /\ UNCHANGED faults
NotRestored(o) == /\ op[o].pc = "r_verify" /\ ~(AsBefore(o) /\ SameData(o))
                  /\ Ends(o, "restore_failed") /\ UNCHANGED faults

-----------------------------------------------------------------------------
\* Where an operation goes when a step raises: the preparation resumes the path,
\* the activation is rolled back, nothing follows before the first marker or when
\* the marker of the mutation cannot be written.
Refuted(o) == \/ op[o].pc = "inspect" /\ ~SameData(o)
              \/ op[o].pc \in {"ready", "again"} /\ ~AppReady(o)
              \/ op[o].pc = "verify" /\ ~IngestReady(o)
Recovery(pc) == IF pc \in Preparing THEN "p_watch" ELSE "r_quiesce"
TurnBack(o) == Refuted(o) /\ Step(o, op[o].pc, Recovery(op[o].pc), production)

Fault == faults < MaxFaults /\ faults' = faults + 1
Fails(o) ==
    /\ op[o].pc \in Preparing \cup Changing
    /\ Fault
    /\ op' = [op EXCEPT ![o].pc = Recovery(@)]
    /\ UNCHANGED <<production, data, archived, done, due, missed, lock, base>>
MarkerFails(o) == op[o].pc = "mark2" /\ Fault /\ Ends(o, op[o].marker)
RestoreFails(o) == op[o].pc \in Restoring \cup Resuming /\ Fault /\ Ends(o, "restore_failed")
Kill(o) == op[o].pc \notin {"idle", "planned", "end"} /\ Fault /\ Ends(o, op[o].marker)

\* The publisher archives the manifest of the next snapshot: it is what the path unit watches,
\* and starts the ingest service if the unit is on.
Publish ==
    /\ \E n \in 1 .. MaxSnapshots :
         /\ Newest(n - 1)
         /\ archived' = archived \cup {n}
         /\ missed' = IF \E o \in ProductionOps : op[o].pc = "watch" THEN missed \cup {n}
                      ELSE missed
    /\ due' = (due \/ production.watching)
    /\ UNCHANGED <<production, data, done, lock, base, op, faults>>

\* Commands later, unless it fails and leaves this to its next publication, the publisher
\* moves current, which starts nothing.
MoveCurrent ==
    /\ \E n \in archived :
         /\ n > data /\ Newest(n)
         /\ data' = n
         /\ missed' = IF \E o \in ProductionOps : op[o].pc = "complete" THEN missed
                      ELSE missed \ {n}
    /\ UNCHANGED <<production, archived, done, due, lock, base, op, faults>>

Ingest ==
    /\ due
    /\ due' = FALSE /\ IngestsAll
    /\ UNCHANGED <<production, data, archived, missed, lock, base, op, faults>>

Begins(o)    == Plan(o) \/ Lock(o) \/ Locked(o) \/ Recheck(o) \/ Changed(o)
Prepares(o)  == \/ MarkPreparing(o) \/ Quiesce(o) \/ Archive(o) \/ Inspect(o)
                \/ Resume(o) \/ Resumed(o)
Activates(o) == \/ MarkMutation(o) \/ QuiesceAgain(o) \/ SwitchRelease(o) \/ SwitchVenv(o)
                \/ InstallUnit(o) \/ InstallIngestService(o) \/ InstallIngestPath(o)
                \/ Restart(o) \/ Ready(o) \/ InitialIngest(o) \/ Watch(o) \/ Verify(o)
                \/ ReadyAgain(o) \/ Complete(o)
Restores(o)  == \/ RestoreQuiesce(o) \/ RestoreRelease(o) \/ RestoreVenv(o) \/ RestoreUnit(o)
                \/ RestoreIngestService(o) \/ RestoreIngestPath(o) \/ RestoreService(o)
                \/ RestoreWatch(o) \/ RestoreIdle(o) \/ RolledBack(o) \/ NotRestored(o)

Next == /\ \/ \E o \in ProductionOps : \/ Begins(o) \/ Prepares(o) \/ Activates(o) \/ Restores(o)
                                       \/ TurnBack(o) \/ Fails(o) \/ MarkerFails(o)
                                       \/ RestoreFails(o) \/ Kill(o)
           \/ Publish \/ MoveCurrent \/ Ingest
        /\ UNCHANGED <<staging, stagingData, stagingStarts>>

-----------------------------------------------------------------------------
\* Every variable keeps its type, and the lock is held by the operation at work.
TypeOK ==
    /\ production \in Installations
    /\ data \in 1..MaxSnapshots /\ done \in 0..MaxSnapshots
    /\ archived \subseteq 1..MaxSnapshots /\ missed \subseteq archived
    /\ due \in BOOLEAN
    /\ lock \in ProductionOps \cup {None} /\ base \in Installations
    /\ op \in [ProductionOps -> Operations]
    /\ faults \in 0..MaxFaults
    /\ \A o \in ProductionOps : (op[o].pc \notin {"idle", "planned", "end"}) <=> lock = o

\* Whenever production is not one release in every part (or nothing at all), or
\* its ingest path is off though its release has one, a recovery marker that
\* reports neither success nor a completed restore is on disk, and for a mixture
\* of parts one that says the mutation had begun.
TornIsMarked ==
    LET Marked(ms) == \E o \in ProductionOps : op[o].marker \in ms
    IN  /\ ~IsWhole(production) => Marked({"mutation_starting", "restore_failed"})
        /\ production.watching # (production.ipath # None)
             => Marked({"preparation_starting", "mutation_starting", "restore_failed"})

\* A marker that reports a completed restore is only written over the very
\* installation the operation found when it took the lock, not the one some
\* earlier plan had seen; only the app may have been restarted from its links.
UndoneExactly == [][\A o \in ProductionOps :
    /\ op[o].marker # op'[o].marker
    /\ op'[o].marker \in {"rolled_back", "preparation_failed_runtime_restored"}
    => production' = base \/ production' = [base EXCEPT !.runs = Loaded(base)]]_vars

\* A marker that reports success is only written over a whole installation of the target, with a
\* process that has loaded it; and the current snapshot is then ingested or has started the
\* ingest, whenever it was published, but for one whose publication took all that was left of
\* the deploy: archived after the initial ingest and before the path unit was on, and made
\* current only after the last check.
CompleteExactly == [][\A o \in ProductionOps :
    op[o].marker # "complete" /\ op'[o].marker = "complete" =>
        /\ production' = Whole(op[o].target)
        /\ op[o].target \in Ingesting => data' <= done' \/ due' \/ data' \in missed']_vars
=============================================================================
