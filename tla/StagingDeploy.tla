---------------------------- MODULE StagingDeploy ---------------------------
\* deploy/staging_tool.py: install and rollback of the staging installation,
\* with the publisher that writes the staging store and the systemd path unit
\* that runs the ticket ingest on every publication.  The tool takes no lock, so
\* two operators may run it at the same time; one operation may be killed.
EXTENDS Installation, Integers, FiniteSets

CONSTANTS
    StagingOps,          \* the operations that may be run, once each
    FirstStaged,         \* what staging may hold at the start: releases or None
    MaxStagingSnapshots, \* bound: publications to the staging store
    MaxStagingFaults     \* bound: steps of an operation that fail, and kills

VARIABLES
    staging,     \* the installation
    stagingData, \* the current snapshot of the staging store, numbered in publication order
    stagingNewest, \* the newest snapshot archived there; current follows it
    stagingDone, \* the newest snapshot the staging ticket store has ingested
    stagingDue,  \* the path unit has started the ingest service
    stagingStarts, \* the starts of the app unit (its MainPID)
    sop,         \* the operations
    sfaults      \* the failures and kills so far

stagingVars == <<staging, stagingData, stagingNewest, stagingDone, stagingDue, stagingStarts, sop,
                 sfaults>>

Changing  == {"stop", "release", "venv", "unit", "isvc", "ipath", "restart",
              "ready", "ingest", "watch", "verify", "again"}
Restoring == {"r_stop", "r_release", "r_venv", "r_unit", "r_isvc", "r_ipath",
              "r_restart", "r_watch", "r_verify"}
Ended     == {"applied", "restored", "restore_failed", "killed"}

\* snap: the snapshot _validate_store accepted; alone: no other operation has
\* run at the same time (for the properties only).
Operations == [pc : {"idle"} \cup Changing \cup Restoring \cup Ended,
               kind : {"install", "rollback"}, target : Maybe, before : Installations,
               snap : Nat, alone : BOOLEAN]

Running(o) == sop[o].pc \in Changing \cup Restoring

SInit ==
    /\ \E r \in FirstStaged : staging = IF r = None THEN Nothing ELSE Whole(r)
    /\ stagingData = 1 /\ stagingNewest = 1 /\ stagingDone \in {0, 1} /\ stagingDue = FALSE /\ stagingStarts = 1
    /\ sop = [o \in StagingOps |->
                [pc |-> "idle", kind |-> "install", target |-> None, before |-> Nothing,
                 snap |-> 0, alone |-> TRUE]]
    /\ sfaults = 0

\* inspect_bundle: a bundle carries the ingest units; _load_installed_release: an
\* installed release may have none.
Stageable(kind) == IF kind = "install" THEN Ingesting ELSE Releases

\* _apply_install, _apply_rollback and the captures at the head of _activate:
\* nothing is changed when one of them refuses.  A rollback keeps the installed
\* unit and needs one.
Begin(o) ==
    /\ sop[o].pc = "idle"
    /\ Capturable(staging)
    /\ \E kind \in {"install", "rollback"}, r \in Releases :
         /\ kind = "rollback" => staging.unit # None
         /\ r \in Stageable(kind)
         /\ LET others == {p \in StagingOps \ {o} : Running(p)}
            IN  sop' = [p \in StagingOps |->
                    IF p = o
                    THEN [pc |-> "stop", kind |-> kind, target |-> r, before |-> staging,
                          snap |-> stagingData, alone |-> others = {}]
                    ELSE IF p \in others THEN [sop[p] EXCEPT !.alone = FALSE]
                    ELSE sop[p]]
    /\ UNCHANGED <<staging, stagingData, stagingNewest, stagingDone, stagingDue, stagingStarts, sfaults>>

\* The operation goes on to pc; what it had captured is gone when it ends.
Goes(o, pc) == sop' = [sop EXCEPT ![o] =
    IF pc \in Ended THEN [@ EXCEPT !.pc = pc, !.before = Nothing, !.snap = 0]
    ELSE [@ EXCEPT !.pc = pc]]

\* One step of an operation: from one place to the next, changing staging to i.
Step(o, from, to, i) ==
    /\ sop[o].pc = from
    /\ staging' = i
    /\ Goes(o, to)
    /\ stagingStarts' = IF from \in {"restart", "r_restart"} THEN stagingStarts + 1
                        ELSE stagingStarts
    /\ UNCHANGED <<stagingData, stagingNewest, stagingDone, stagingDue, sfaults>>

\* systemctl stop of the path, unchecked: it stays enabled until the tool sets it.
StopPath(o) == Step(o, "stop", "release", [staging EXCEPT !.watching = FALSE])

\* _switch_link, twice, and _install_unit (a rollback keeps the unit).
SwitchRelease(o) == Step(o, "release", "venv", [staging EXCEPT !.release = sop[o].target])
SwitchVenv(o)    == Step(o, "venv", "unit", [staging EXCEPT !.venv = sop[o].target])
InstallUnit(o)   == Step(o, "unit", "isvc",
    IF sop[o].kind = "install" THEN [staging EXCEPT !.unit = sop[o].target] ELSE staging)

\* _install_ingest_units: two files, installed or removed one after the other.
InstallIngestService(o) ==
    Step(o, "isvc", "ipath", [staging EXCEPT !.isvc = IngestUnit(sop[o].target)])
InstallIngestPath(o) ==
    Step(o, "ipath", "restart", [staging EXCEPT !.ipath = IngestUnit(sop[o].target)])

\* Mutant: the app is not restarted when the link already pointed there.
RestartIfMoved(o) ==
    Step(o, "restart", "ready",
         [staging EXCEPT !.enabled = @ \/ ~sop[o].before.enabled,
                         !.runs = IF sop[o].before.release = sop[o].target /\ @ # None
                                  THEN @ ELSE Loaded(staging)])

\* daemon-reload, enable unless it was enabled, restart.
Restart(o) ==
    Step(o, "restart", "ready", [staging EXCEPT !.enabled = @ \/ ~sop[o].before.enabled,
                                                !.runs = Loaded(staging)])

\* _wait_for_app_readiness: retried until the timeout; it looks at the links and
\* the unit file, not at what the process has loaded.
Expected(o) == IF sop[o].kind = "install" THEN sop[o].target ELSE sop[o].before.unit
AppReady(o) == /\ staging.runs # None /\ staging.enabled
               /\ staging.release = sop[o].target /\ staging.venv = sop[o].target
               /\ staging.unit = Expected(o)

Ready(o) == /\ AppReady(o)
            /\ Step(o, "ready", IF sop[o].target \in Ingesting THEN "ingest" ELSE "watch", staging)

\* _run_initial_ingest: the oneshot unit is started and waited for; it ingests
\* everything the store holds.
InitialIngest(o) ==
    /\ sop[o].pc = "ingest"
    /\ staging.isvc # None
    /\ stagingDone' = stagingNewest
    /\ Goes(o, "watch")
    /\ UNCHANGED <<staging, stagingData, stagingNewest, stagingDue, stagingStarts, sfaults>>

\* _set_ingest_path_state.
Watch(o) == /\ sop[o].target \in Ingesting => staging.ipath # None
            /\ Step(o, "watch", "verify", [staging EXCEPT !.watching = sop[o].target \in Ingesting])

\* _verify_ingest_readiness.
IngestReady(o) == /\ staging.isvc = IngestUnit(sop[o].target)
                  /\ staging.ipath = IngestUnit(sop[o].target)
                  /\ staging.watching = (sop[o].target \in Ingesting)
                  /\ sop[o].target \in Ingesting => stagingDone >= sop[o].snap
Verify(o) == IngestReady(o) /\ Step(o, "verify", "again", staging)
Applied(o) == AppReady(o) /\ Step(o, "again", "applied", staging)

\* A check that stays false until its timeout, or that is made once and is
\* false, turns the operation back; so does any step that raises.
Refuted(o) == \/ sop[o].pc \in {"ready", "again"} /\ ~AppReady(o)
              \/ sop[o].pc = "ingest" /\ staging.isvc = None
              \/ sop[o].pc = "watch" /\ sop[o].target \in Ingesting /\ staging.ipath = None
              \/ sop[o].pc = "verify" /\ ~IngestReady(o)
TurnBack(o) == Refuted(o) /\ Step(o, sop[o].pc, "r_stop", staging)
Fault(o, to) ==
    /\ sfaults < MaxStagingFaults
    /\ sfaults' = sfaults + 1
    /\ Goes(o, to)
    /\ UNCHANGED <<staging, stagingData, stagingNewest, stagingDone, stagingDue, stagingStarts>>
Fails(o) == sop[o].pc \in Changing /\ Fault(o, "r_stop")
RestoreFails(o) == sop[o].pc \in Restoring /\ Fault(o, "restore_failed")
Kill(o) == Running(o) /\ Fault(o, "killed")

\* _rollback_failed_switch, in its order.
RestoreStop(o)    == Step(o, "r_stop", "r_release", [staging EXCEPT !.watching = FALSE])
RestoreRelease(o) == Step(o, "r_release", "r_venv", [staging EXCEPT !.release = sop[o].before.release])
RestoreVenv(o)    == Step(o, "r_venv", "r_unit", [staging EXCEPT !.venv = sop[o].before.venv])
RestoreUnit(o)    == Step(o, "r_unit", "r_isvc", [staging EXCEPT !.unit = sop[o].before.unit])
RestoreIngestService(o) == Step(o, "r_isvc", "r_ipath", [staging EXCEPT !.isvc = sop[o].before.isvc])
RestoreIngestPath(o)    == Step(o, "r_ipath", "r_restart", [staging EXCEPT !.ipath = sop[o].before.ipath])

\* Mutant: an app that is still running is left alone.
RestoreStarted(o) ==
    LET before == sop[o].before
    IN  Step(o, "r_restart", "r_watch",
             [staging EXCEPT !.enabled = before.enabled,
                             !.runs = IF before.runs # None /\ @ = None THEN Loaded(staging)
                                      ELSE @])

\* The app is restarted only if it was running, and only from the links it had.
RestoreRestart(o) ==
    LET before == sop[o].before
    IN  Step(o, "r_restart", "r_watch",
             [staging EXCEPT !.enabled = before.enabled,
                             !.runs = IF before.runs # None THEN Loaded(staging) ELSE None])
RestoreWatch(o) ==
    /\ sop[o].before.watching => staging.ipath # None
    /\ Step(o, "r_watch", "r_verify", [staging EXCEPT !.watching = sop[o].before.watching])

\* The capture is compared with the one made at the start; a difference that a
\* concurrent operation made ends in "ripristino non completato".
AsBefore(o) == /\ [staging EXCEPT !.runs = None] = [sop[o].before EXCEPT !.runs = None]
               /\ (staging.runs = None) = (sop[o].before.runs = None)
Restored(o) == AsBefore(o) /\ Step(o, "r_verify", "restored", staging)
NotRestored(o) ==
    /\ \/ sop[o].pc = "r_verify" /\ ~AsBefore(o)
       \/ sop[o].pc = "r_watch" /\ sop[o].before.watching /\ staging.ipath = None
    /\ Step(o, sop[o].pc, "restore_failed", staging)

\* The publisher archives the manifest of the next snapshot, and a path unit that is on
\* starts the ingest service (PathChanged: only a change it is there to see).
StagingPublish ==
    /\ stagingNewest < MaxStagingSnapshots
    /\ stagingNewest' = stagingNewest + 1
    /\ stagingDue' = (stagingDue \/ staging.watching)
    /\ UNCHANGED <<staging, stagingData, stagingDone, stagingStarts, sop, sfaults>>

\* Commands later, this publisher or the next one moves current.
StagingMoveCurrent ==
    /\ stagingData < stagingNewest
    /\ stagingData' = stagingNewest
    /\ UNCHANGED <<staging, stagingNewest, stagingDone, stagingDue, stagingStarts, sop, sfaults>>

\* The worker ingests what is archived, and current.
StagingIngest ==
    /\ stagingDue
    /\ stagingDue' = FALSE /\ stagingDone' = stagingNewest
    /\ UNCHANGED <<staging, stagingData, stagingNewest, stagingStarts, sop, sfaults>>

Activates(o) == \/ StopPath(o) \/ SwitchRelease(o) \/ SwitchVenv(o) \/ InstallUnit(o)
                \/ InstallIngestService(o) \/ InstallIngestPath(o) \/ Restart(o) \/ Ready(o)
                \/ InitialIngest(o) \/ Watch(o) \/ Verify(o) \/ Applied(o)
Restores(o) == \/ RestoreStop(o) \/ RestoreRelease(o) \/ RestoreVenv(o) \/ RestoreUnit(o)
               \/ RestoreIngestService(o) \/ RestoreIngestPath(o) \/ RestoreRestart(o)
               \/ RestoreWatch(o) \/ Restored(o) \/ NotRestored(o)

SNext == \/ \E o \in StagingOps : \/ Begin(o) \/ Activates(o) \/ Restores(o)
                                  \/ TurnBack(o) \/ Fails(o) \/ RestoreFails(o) \/ Kill(o)
         \/ StagingPublish \/ StagingMoveCurrent \/ StagingIngest

SSpec == SInit /\ [][SNext]_stagingVars

-----------------------------------------------------------------------------
\* Every variable keeps its type.
STypeOK ==
    /\ staging \in Installations
    /\ stagingNewest \in 1..MaxStagingSnapshots
    /\ stagingData \in 1..stagingNewest /\ stagingDone \in 0..stagingNewest
    /\ stagingDue \in BOOLEAN /\ stagingStarts \in 1..(1 + 2 * Cardinality(StagingOps))
    /\ sop \in [StagingOps -> Operations]
    /\ sfaults \in 0..MaxStagingFaults

\* An operation that reports success has left exactly its release behind: both
\* links, both ingest units, a process that has loaded it, the path unit on if it
\* has one, and the snapshot it was checked against in the ticket store.  An
\* operation killed earlier may have left any mixture to start from.  (Without a
\* lock this is promised to an operation that ran alone.)
AppliedExact == \A o \in StagingOps :
    sop[o].alone /\ sop[o].pc # "applied" /\ sop'[o].pc = "applied" =>
        /\ staging' = [Whole(sop[o].target) EXCEPT !.unit = Expected(o)]
        /\ sop[o].target \in Ingesting => stagingDone' >= sop[o].snap

\* An operation that was turned back and says so has put back every file and unit
\* state it found, and the app, if it ran, runs what the links say.
RestoredExact == \A o \in StagingOps :
    sop[o].alone /\ sop[o].pc # "restored" /\ sop'[o].pc = "restored" =>
        staging' = [sop[o].before EXCEPT
                      !.runs = IF @ = None THEN None ELSE Loaded(sop[o].before)]
=============================================================================
