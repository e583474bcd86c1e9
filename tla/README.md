# Verification of the DT-LAB control center

TLA+ models of the DT-LAB control center, the TLC configurations that check them on small
instances, and proofs that the TLA+ proof system (TLAPS) checks for every value of the
constants.  All source paths are relative to the repository root.

## 1. Inventory of the system

The control center collects a picture of an OT laboratory (an ESXi host and a Cisco Cyber
Vision center), publishes it as immutable snapshots, shows it in dashboards, and turns the
security signals of the snapshots, and of audit agents next to the PLCs, into tickets.

| Component | Where | State it keeps | Operations | What makes it correct |
|---|---|---|---|---|
| Local snapshot store | `src/dtlab/services/snapshot_store.py` | `objects/`, `manifests/`, three pointer files | `publish`, `prune_objects`, `load`, `load_best_available` | a pointer or an archive never names a missing object; `last_known_good` never regresses; retention is bounded; readers are served during a publication |
| Collection cycle | `src/dtlab/collector/sync.py`, `tools/live_sync.py` | the live-sync lock file, the cycle | collect, assemble, publish, prune, publish remotely | one live writer at a time; a failure never replaces `current`; an approved snapshot is complete |
| Verified publication | `tools/publish_verified_staging.py`, `tools/verify_staging_snapshot.py` | what the operator was shown | evaluate, dry run, confirmed run | what goes out is what the operator was shown, and still passes the gate |
| Remote publisher | `src/dtlab/collector/remote_publish.py` | the target's `objects/`, `manifests/`, pointers, `.publish.lock`, over ssh | `publish`, `publish_stored`, `publish_batch` | `current` moves last and only onto a verified object; one publisher at a time; an outage is made up for |
| Ticket store | `src/dtlab/services/ticket_store.py`, `ticket_policy.py`, `scripts/prune_ticket_store.py` | SQLite tables: signals, occurrences, tickets, tasks, comments, audit events | creation with a checklist, transitions, owner and priority, tasks, SLA recalculation, automatic policy, retention | the lifecycle graph; one ticket and one checklist per signal; an audit event per change; a deadline that follows priority and calendar; automation never lowers a priority |
| Signal ingest | `src/dtlab/services/signal_ingest.py`, `src/dtlab/services/ticket_ingest_worker.py` | the `snapshot_ingests` marker of each snapshot, signals and occurrences | backfill of archived snapshots in order, `current` from the worker and from the pages | every snapshot is counted exactly once; evidence newer than a decision resurfaces, older evidence does not |
| PLC endpoint audit agent | `integrations/plc_endpoint_audit/dtlab_plc_audit/` (`audit_hook.py`, `core.py`, `spool.py`, `runtime.py`) | the open episode of each peer, a sequence in a state file, a signed spool, a health file | observe a request, close quiet or disconnected episodes, append, stop, start | a finished episode is on the spool with all its writes, its revisions in order; a shutdown is spooled at once; a failing append shows |
| Event sender | `dtlab_plc_audit/sender.py` | a delivery cursor | read a batch, post, save the cursor, heartbeat | nothing lost or skipped; no heartbeat over a stuck record |
| Host-OT ingress | `src/dtlab/services/host_ot_ingress.py`, `host_ot_events.py`, `host_ot_status.py` | kept documents, signals and tickets, sensor status | authenticate, keep, validate, check the revision, ingest, apply the policy, store the status | evidence is never without its document; a replay adds nothing; a shutdown becomes a P1 |
| Deployment tools | `deploy/production_tool.py`, `deploy/staging_tool.py` | two links, three unit files, the services, a recovery marker, a lock file (production only) | plan, promote or install, roll back, restore | what a marker or a report says is what is installed; a torn installation is marked |
| Host-OT server bootstrap | `deploy/host_ot_server_bootstrap.py` | keys, users, directories | run once by an administrator | |
| Contracts and assembly | `src/dtlab/contract.py`, `contract_v3.py`, `src/dtlab/services/assembly.py`, `identity.py`, `src/dtlab/adapters/` | none | normalise, link the machines to the assets, assemble, validate | no reference to what the snapshot does not carry; a link is one to one; a missing capability is said to be missing |
| Source clients | `src/dtlab/collector/cybervision_collection.py`, `esxi_client.py`, `cybervision_client.py`, `credentials.py` | the answers of a cycle | HTTPS reads of the two sources, list by list and page by page | a list read while it moves is read whole; what fails in New UI stays in New UI |
| Operational history and settings | `src/dtlab/services/history_store.py`, `operational_settings.py` | a JSON file; the settings and operators tables of the ticket database | a trend file replaced atomically after each snapshot; one row per setting | |
| Dashboards and API | `src/dtlab/ui/`, `apps/api`, `apps/web`, `streamlit_app.py` | caches | reads of the store and the tickets | |

### How the components interact

```
 ESXi, Cyber Vision --(clients)--> run_sync --> local snapshot store --> dashboards, API
                                      ^                |
                  live_sync loop (one process lock)    | ssh, one lock directory per target
                                      |                v
                                      +---------> remote targets (staging, production)
                                                       |
                             archived manifests, current v
  PLC agent --spool--> sender --(signed HTTP)--> host-OT ingress --> ticket store <-- ingest worker
                                                                       ^         ^
                                                         analysts' pages         retention script
```

All coupling is through files, directories and one SQLite database; there is no broker and no
shared memory between components.  What makes the system hard is therefore what happens
between two file or database operations of two processes, and what a process that dies, or
an ssh command whose answer is lost, leaves behind:

- **Files.** Every file is written under a temporary name, flushed and renamed: single files
  are atomic, groups of files (object, archive, three pointers) are not.  The near-real-time
  loop holds a process lock, a manual sync does not, and readers take no lock.
- **Remote commands.** A timeout does not say whether the command had its effect.
- **Transactions.** Each operation of the ticket store is one `BEGIN IMMEDIATE` transaction,
  but what it is told to do was decided before: from a rendered page, an earlier
  transaction, or a calendar that was read before the lock was taken.

- **Callbacks.** The audit agent lives in the reactor of the PLC's server: what fails in one
  of its callbacks decides whether the next ones run, and a crash of the server is its crash.
- **Systemd.** The publication of a manifest starts the ingest worker through a path unit,
  which the deployment tools switch off and on, and which does not queue what it misses.

The hazards are listed one by one, with the line where each bites and the properties that
watch it, in `PROJECT.json`.

## 2. Plan

| Order | Module | Composes | Abstract specification | State |
|---|---|---|---|---|
| 1 | `SnapshotStore` | store, collection cycle, process lock, readers | `SnapshotRegister` | checked, proved |
| 2 | `RemotePublish` | publisher, live_sync loop, targets | | checked, safety and backlog proved |
| 3 | `TicketStore` | store, pages, policy, retention | `TicketLifecycle` | checked, safety and refinement proved |
| 4 | `SnapshotIngest` | worker, page, path unit, pruning, decisions | | checked, proved |
| 5 | `EndpointAudit` | the agent's callbacks, spool, state file and health | | checked, proved |
| 6 | `HostOtDelivery` | sender, ingress threads, database, status | `InOrderDelivery` | checked, safety and refinement proved |
| 7 | `StagingDeploy`, `ProductionDeploy` | the two deployment tools, each with its publisher and path unit, over `Installation` | | checked and proved through 8 |
| 8 | `Deployment` | both tools on one server | | checked, proved |
| 9 | `IdentityLinks` | a pure algorithm of the assembly | | proved |
| 10 | `Collection` | the questions of a cycle, the center that moves under them, `IdentityLinks`, contract, quality and gate | | checked, proved |
| 11 | `VerifiedStaging` | the operator's publication beside `Collection` | | checked, proved |

Every safety and action property of the passing runs is a theorem as well; what stays with TLC is
said at the end of section 5.

## 3. The modules

### SnapshotStore, SnapshotRegister

One step is one file read, one file written or one directory listed.  `pc` names the step of
a writer in `publish` and then `prune_objects`; `snap`, `seen`, `keep`, `listed`, `todo` are
the local variables of those functions.  Writers are live (they hold the `lock` of
`LiveSyncProcessLock`) or manual (`python -m dtlab.collector.sync`, no lock).  A writer may
die at any step (`Crash`), an `unlink` may be refused (`PruneFails`), and an object may be
damaged on disk (`Damage`, external).  Readers run `load_best_available`: a manifest is read,
then the object it named, then the next pointer.  Snapshots are numbered in writing order,
since their digests are unique and `prune_objects` orders objects by modification time; two
equal modification times are not modelled.

`SnapshotRegister` says what this adds up to: a register of immutable snapshots with three
names, switched one at a time.  `ImplementsRegister` is the refinement.

### RemotePublish

One step is one ssh command, or one upload (temporary file, verification, rename).  Every
command may be lost with or without its effect, and an upload may leave its temporary file
(`Command`, `Upload`).  `Publish(p)` follows `publish_batch` and `_publish_prepared`: check
the local pointers, take the lock directory, verify what is present, upload objects and
archives in chronological order, move `previous`, `last_known_good` and `current`, verify,
prune fail-closed, release.  `BeginLive` is the cycle of `live_sync` with its gate and its
backlog, `NextTarget` its loop over the targets, `BeginManual` a publisher that takes no
local lock.  `local` is the local store: its `current`, its `last_known_good` and the archives
that are left.  `Collect` ends as `run_sync` does, with `prune_objects`: the newest
`LocalRetention` snapshots stay, rejected ones among them (`kind` says whether a snapshot is fresh
and whether the gate approves it), and what the pointers name; as its errors are suppressed, any
part of the rest may go.  `batch` is what was approved and still archived when the cycle began.  A
manual publisher may lose such a file to a collection between choosing and sending it (`Ready`,
`UploadObject`).  `Debris` chooses what failures may leave on a target: `"temporary"` files, the
`"lock"` of a publisher that died.

### TicketStore, TicketLifecycle

One step begins an operation, reading what the page or the policy reads before the
transaction; another step is the transaction.  `job[p]` holds the arguments in between.
`ticket`, `task`, `audit`, `signal` are the tables, restricted to what the properties see:

| Model | Code |
|---|---|
| `ticket[s].due` | `sla_due_at`, as the priority and the calendar it was computed from (the anchor is always `created_at`) |
| `resolved`, `closed` | whether `resolved_at`, `closed_at` are set |
| `audit[s]` | the last value of each audited column according to the trail |
| `calendar` | the working calendar saved last; `Always` (0) is a store opened without operational settings, as the ingress does |
| `issued` | ticket ids are never used again |

`Observe`, `ReadSignal`, `CreateTicket`, `SetPriority` are the automatic policy: the signal
is committed, the ticket created or read, and its priority raised in a transaction of its
own.  `Begin...` are the forms of the pages, including `SaveCalendar`, whose save and
recalculation are two transactions; `OpenTicket`, which creates a ticket without its checklist, has
no page of its own, and `EnsureTasks` is the button that the page shows for such a ticket.
`Prune` is the retention script; which tickets are the
newest by `updated_at` is left open, so that its properties hold for any order.
`Fail` rolls an operation back: a locked database or a dying process.

`TicketLifecycle` sees only the phase of a ticket: opened once, decided, closed only after a
resolution, reopened only into investigation.

### SnapshotIngest

Snapshots are numbered by `generated_at`; what a snapshot says of a signal is a payload.  The
worker reads the markers, then the names of the archive, then loads one manifest after the
other, then `current`, and ingests what is missing from the oldest; the page of an analyst
ingests what it shows.  Both take their timestamp before they get the write lock: the stamp
and the transaction (`Commit`) are two steps.  `trigger` is the path unit: `Publish` sets it,
and may be missed while the worker runs.  `Prune` removes signals and leaves the markers.
`Decide`, `DecisionCommits` and `Reopen` are the analyst, as far as the return of a decided
signal to the inbox (`NeedsReview`, from `signal_needs_review`) depends on it.  Three
variables exist for the properties alone: `began`, `forgotten` and `ahead`.

### EndpointAudit

One step is one callback of the reactor, which is single threaded: a request (`Request`,
with everything the hook does: closing quiet episodes, the sequence, the aggregation, the
appends), a lost connection, a turn of the flush loop, the stop.  Only the start of the
sender, which shares the state file, runs beside it.  The clock counts turns of the loop.
A revision of the spool is its episode, its number and the aggregated data that the receiver
checks; a signature is modelled by whether the line verifies (`Garbled`).  `AppendFails` is a
full spool or a failing write, after as many lines of a callback as the spool has room for;
`Lost` says which episodes it costs a revision, the one whose line runs into a torn one
included; `Die` may leave a torn line and a sequence saved for an episode that was never spooled;
`Start` refuses a spool whose last line does not verify.

### HostOtDelivery, InOrderDelivery

A record is known by its place in the spool.  A step of the sender is a request or an answer;
a step of an ingress thread is one file operation or one database transaction of `accept`:
`StoreBody`, `CheckRevision`, `Ingest`, `ReadSignal`, `FileTicket`, `RaisePriority`,
`StoreStatus`.  A timed-out request goes on in its thread (`Abandoned`) while the sender's
retry gets another; either process may die, and any step of the ingress may be refused by a
locked database (`Fails`).  `InOrderDelivery` is what the two promise together: a log, of
which a prefix is acknowledged, a record being applied at least once before it is.
`ImplementsInOrder` is the refinement.

### Installation, StagingDeploy, ProductionDeploy, Deployment

`Installation` is the part of the server both tools act on: two links, three unit files, what
the app process has loaded, whether the path unit is on.  A release stands for everything
built from it; `Ingesting` are those that carry the ticket-ingest units.

`ProductionDeploy` follows `production_tool.py`: the plan and its confirmation before the
lock, the check of the plan under the lock, the preparation (marker, path off, archive,
inspection), the activation (marker, links, units, restart, initial ingest, path on, two
checks), and both ways back, `p_...` after a failed preparation and `r_...` in the order of
`_restore_transaction`.  `marker` is `recovery.json`.  Any step may fail or be the last one of
a killed process, and the publisher may work between any two.  A publication is two steps, as in
`remote_publish.py`: `Publish` writes the archive, the only thing the path unit watches, and
`MoveCurrent` moves `current` some commands later, or in a later publication.  The ingest takes the
archives as well as `current` (`IngestsAll`).  `missed` records the snapshots archived between the
initial ingest and the start of the path unit, until `current` comes to name them in time for the
last check.

`StagingDeploy` follows `staging_tool.py` in the same way.  It takes no lock: two operations
may overlap, and what it promises is promised to an operation that ran alone (`alone`).

`Deployment` puts both on one server: a promotion reads staging while staging changes.

### IdentityLinks, Collection, VerifiedStaging

`Collection` is one cycle of `run_sync`, question by question.  `Plan` is the order in which
`collect_cybervision_raw` asks, which depends on what was read before: the details of the
devices read, the differences of the baselines listed.  `ReadPage` is one request of
`classic_pages`: devices, components, activities and flows, whose records come and go with the
devices, are read page by page, and `results` is what has been read of the list so far.  The
other lists do not change in a cycle of the model, or are only read for whether they
name devices; they are answered in one step, since their pages fail as one.  `Appear`,
`Disappear` and `AlertMoves` are the center, which goes on discovering between two
questions; `Fail` is a question that fails, and the kind of the failure decides whether the
cycle, the source or one capability is lost (`Aborts`, `Together`).  `Assemble` is the
adapters, the identity links, the assembly and the contract: `UniqueIds`, `References` and
`Semantics` are what it refuses, and a snapshot it refuses ends the process.  `Approved` is
the gate of `verify_staging_snapshot.py`, with the quality score computed as the code
computes it: over the sixteen capabilities of `adapters/cybervision.py:1450` that are not excluded
and the coverage of the risk scores, banker's rounding included.

`IdentityLinks` translates `resolve_vm_asset_identities` as sets of pairs: best of the asset,
then best of the machine, ties dropped on both sides.

`VerifiedStaging` is an operator who publishes to staging what was verified.  The tool reads
`current` when it verifies, again before it publishes, and the publisher reads it a third
time, while the collector replaces it.

## 4. The runs

Passing runs, and why their bounds are enough:

| Run | Question | Bounds |
|---|---|---|
| `store` | publications, prunings, deaths, damage and a reader under the lock: safety, bounded retention, service of readers, refinement | 2 live writers, 1 reader, 7 snapshots with retention 3: each later publication prunes, orphans of a death are pruned by the next, and five publications may overtake one read, which is when it may fail with one fault; 1 fault anywhere |
| `remote_shared` | two publishers, one target, one fault | 4 snapshots with retention 3 on both sides: the last publication prunes the target, the last collection may prune what a publisher is about to send; one snapshot at most is partial (`MCFew`) |
| `remote_live` | the loop alone, two targets, order of the backlog and recovery, after an outage longer than the local retention too | 4 snapshots, at most one of them partial and at most one rejected (`MCFew`), with retention 3 on both sides: four collections before a publication succeeds leave a hole; 2 faults of any kind, each at any command; two targets are what "a target before it" needs |
| `tickets_desk` | races of two analysts and the policy on one ticket | 3 priorities (one below those of the policy), 2 calendars, retention 0 so that the ticket disappears under operations in flight, 2 tickets (the one after it); a ticket is given to nobody or to the analyst at work (`OwnTickets`: an owner is only copied to the trail) |
| `tickets_retention` | retention with tickets of security tests, and the checklist under concurrent creation | two overlapping situations of `MCTicketRetention`: 2 signals, retention 1, 4 tickets, 1 busy thread and 1 failed operation; 1 signal, 2 threads, 1 analyst on the checklist, 2 playbook tasks and 1 added by hand, under a title of the playbook or another; no owners, which neither question reads |
| `ingest` | each snapshot once, none lost, the newest evidence, the inbox | 1 signal with 2 payloads, 3 snapshots with 2 in the archive and 1 in the marker listing: the archive prunes and the listing is shorter than the markers; 1 decision, 1 fault |
| `endpoint_agent` | episodes, revisions, escalation and health over deaths, failing writes, a full spool and a reboot | 2 peers, 3 writes (what a shutdown sequence takes), 5 turns (an escalation before the emit interval, a quiet episode and the age of the health), room for 2 records, 2 boots, 1 fault |
| `delivery` | sender, ingress and tickets | 3 records of one episode in batches of 2, 2 threads (a late request and its retry), 2 faults |
| `deploy` | the two tools, alone and together | three scenarios of `MCDeployment`: 2 production operations, 2 staging operations, one of each; 2 releases, one with and one without ingest units, from every combination of first installations; 3 snapshots for production (one before the deploy, two within: the first is archived and made current, the second only archived, or both; the second only before anything has failed), 2 for staging; 1 failing step or kill anywhere |
| `collection` | a cycle over a center that moves, failures of every kind, the gate and the operator's publication | 4 devices and 2 that may appear, pages of 2 and at most 3 of them for each of the four paged lists (one more device makes a fourth page), details of 4 devices (a fifth truncates); 1 baseline, 1 sensor; 1 failure anywhere and 1 change, or 2 changes; 2 cycles, so that `current` is replaced between two readings of it |

Tickets of different signals share no row and no transaction but the recalculation and the
retention, so one signal is enough for `tickets_desk`, and rows of different signals are
ingested independently, so one is for `ingest`.  Episodes share nothing on the receiver but
the order of the sender, which one episode exercises.  A scenario of `MCDeployment` is
chosen in the initial state and only forbids steps, as the action constraints of
`MCTicketRetention`, `MCTicketStore` and `MCRemotePublish` do: what is left are behaviours of the specification.  So does
`Reduction` of `MCCollection`: the center changes between two pages of a list, before a list that
names its devices or before the details of one, and the alert before New UI asks for it (a change
elsewhere is seen by the same questions); a failure of the kind `other`
is treated like `server` except by `sensor_stats`, the list of devices and the raw store; and
only the first cycle is disturbed, since nothing of a cycle outlives it but `current`.

Runs that end in a violation, each a disagreement between the code and its own words:

| Run | What it shows |
|---|---|
| `tickets_lowered` | the policy lowers a priority that an analyst raised between its two transactions |
| `endpoint_refused` | an episode that zeroes the three registers slower than the shutdown window is rendered as a generic event, which the receiver refuses because it judges the whole episode; the in-order sender never gets past it |

Other disagreements met while modelling, which no run states: `prune_objects` removes the
archive that a manual sync wrote between its two listings, although the object stays
(`NewestSurvive` is about the objects only); a temporary file left on the first target makes
its retention fail in every later cycle, so that the second target is never published again
(`UnblockedRecover` exempts it); an outage longer than the local retention leaves a hole on the
target that nothing fills, since `prune_objects` (`sync.py:215`) keeps the newest 240 snapshots by
default, rejected ones included, whether or not a target has them, and `remote_retention`
(`config.py:62`, up to 10000) may ask the target for many more (`BacklogComplete` promises what is
still archived); a snapshot whose archive is written after the initial ingest of a promotion and before
the path unit is on, and which becomes `current` after the last check, is neither ingested nor
announced when the marker says `complete`, and waits for the next publication (`missed`); an operation
that read the calendar before a new one was
saved and applied leaves an open ticket on the old one; the deadlines of the automatic policy
ignore the calendar (`Always`); recalculation moves deadlines without a change of priority
although the comment at `ticket_store.py:46` calls that "the only operation" that does; a
connection lost at the last `sha256sum` of `current` (outside the `try` at
`remote_publish.py:590`) is reported as not committed; and `docs/DEPLOYMENT.md:125` promises
that the ticket database is restored where the tool records `never_automatic`.

### Exemptions

Some properties exempt what the code does not exclude, through a variable that records that
it happened: `ahead` (a page or worker ingested a snapshot before an older one), `overtaken`
(a slow thread wrote an older revision over a newer one: the revision is checked in one
transaction and written in another), `clobbered` (the sender reset the sequence under the
agent, as systemd starts the two in no order), `alone` (staging operations that overlapped), `missed` (a
publication spread over the end of a promotion, as just said),
`shaken` (between two pages of one of the four paged lists a whole page of devices appeared, or a
device left: the rest moves past the reader).
Everything else those properties say holds in spite of it.

### Fairness

`remote_live` checks `UnblockedRecover` under `LiveSpec`: weak fairness of `BeginLive` and of
the steps of the live publisher.  The scheduled task (`tools/run_near_realtime.ps1`) starts a
cycle again and again, and every remote command ends, with an answer or with its timeout.
`delivery` checks `Delivered` under weak fairness of the sender's steps (`run` is a loop) and
of its restart (systemd), and of every thread's (a transaction waits for the lock at most its
busy timeout, and then fails). 
Collections, new records and faults are not fair: a source may be silent for ever, and nothing
has to fail.  The bound on faults says that failures end, without which no recovery could be
promised.  The worker of `SnapshotIngest` promises nothing that needs fairness: `Attended`
says that whatever is left is in its sight.

### Deadlock

The ticket runs check deadlock: an operation always ends, if only by being refused.  The
others set `CHECK_DEADLOCK FALSE`: collectors, cycles, publishers, writes, records and
operations stop at their bounds, and an agent or a torn installation that waits for an operator
stops there.

## 5. The proofs

All theorems hold for any number of processes, snapshots, targets, signals and faults, under
the assumptions that each module names (`StoreAssumption`, `PublishAssumption`,
`TicketAssumption`, `IngestAssumption`, `EndpointAssumption`, `DeliveryAssumption`,
`IdentityAssumption`, `CollectionAssumption`, and for the deployment tools `ReleasesAssumption`,
`ProductionAssumption` and `DeploymentAssumption`) and that TLC evaluates on each run.

| Theorem | Says | Argument |
|---|---|---|
| `SnapshotStoreProofs!TypeCorrect` | types, locked or not | action by action |
| `RetentionSafe` | `NewestSurvive`: a pruning never removes an object among the newest, whoever writes beside it | `RetentionInv`: what a pruning is about to remove was not among the newest when it listed them, and a later object only pushes it further back |
| `LockedSafety` | `StoreSafe`: no dangling pointer or archive, every pointer archived, when all writers are live | `LockedInv` |
| `LkgMonotone`, `LockedRefinement` | `last_known_good` never regresses; the store implements the register | each step from `LockedInv` |
| `BoundedTheorem` | `RetentionBounded`: a pruning leaves the retained objects and two older ones at most, when all writers are live | `FewInv` beside `LockedInv` |
| `ReadersTheorem` | `ReadersServed`: a reader is refused only when retention has moved past it twice, when all writers are live | `ReadInv` beside `LockedInv` |
| `RemotePublishProofs!TypeCorrect` | types | action by action |
| `PublishSafety` | `TargetSafe`: one publisher at a time on a target, and no dangling manifest | `SafeInv` |
| `CommitReported` | `CommittedIsCurrent`: what is reported as published is `current` | `ReportInv`: from the verification to the release nobody else moves the pointer, by `SafeInv` |
| `BacklogTheorem`, `PointersTheorem` | `BacklogComplete`, whatever the local retention removes meanwhile, and `PointersNeverGoBack`, when live_sync is the only publisher | `LiveInv` |
| `TicketStoreProofs!RowsCorrect`, `TrailExplainsRows`, `ClocksAgree`, `DeadlinesBelong` | rows are typed, the trail explains them, decision times and deadline agree with status and priority | `Inv` |
| `PolicyReachesPriority` | the policy reaches its priority, whoever else writes | `WhoStops`: only its own transaction makes a thread idle |
| `LifecycleRefinement` | the store implements `TicketLifecycle` | under `Inv` the status alone gives the phase, and every step moves it as the graph does |
| `ChecklistTheorem` | `ChecklistOnce`: one checklist, its positions `1 .. n`, a title repeated only by a task added by hand | `TasksInv` |
| `RetentionTheorem` | `PruneKeepsTests`: retention spares a security test and keeps to its number | `FewTickets`: the tickets are finitely many, and then counting |
| `SnapshotIngestProofs!DatabaseTheorem`, `NothingLostTheorem`, `NewestEvidenceTheorem`, `AttentionTheorem` | `DatabaseExact`, `NothingLost`, `NewestEvidence`, `AttentionExact` | `Inv` of that module |
| `EndpointAuditProofs!TypeCorrect` | types, the size of the spool, the range of the sequence | action by action |
| `FailureTheorem` | `FailureShows`: a failed append shows within the age the sender accepts | `Shows`: a failure is in the health file, or the loop has ended and the file is no younger than the failure |
| `SpoolTheorem`, `RevisionsTheorem`, `ShutdownTheorem` | `SpoolAccounted`, `RevisionsIncrease`, `ShutdownSpooled` | `IInv` of that module |
| `HostOtDeliveryProofs!DeliveredSafely`, `HonestHeartbeats` | what the sender leaves behind is done and documented; no heartbeat over a stuck record | `IInv` |
| `RetriesNotCounted` | a signal counts each document once | `CountsDistinct` with `IInv`, and the cardinality of the documents ingested |
| `InOrderRefinement` | sender and ingress implement `InOrderDelivery` | `IInv` says that an answered record is applied, and none is applied beyond the one after the cursor |
| `DeploymentProofs!MarkedTheorem` | `MarkedExactly`: whatever is torn in production is announced by a marker | `PInv` |
| `UndoneTheorem`, `CompleteTheorem` | `UndoneExactly`, `CompleteExactly`: what a restore and a success report is so, with `current` ingested or announced but for `missed` | `Work`: what an activation or a restore has put in place at each of its steps |
| `PromotedTheorem` | `PromotedWasStaged`: nothing is promoted that staging does not vouch for | `SInv`: a release found in staging is `Vouched` |
| `StagingTheorem` | `StagingExact`: the report of a staging operation that ran alone is so | `SWork`, and the starts of the app counted by the operations past them |
| `CollectionProofs!LinksOneToOne`, `ConfirmedByAddress` | a machine has one asset and an asset one machine; a confirmed link shares the address the operator wrote down | a tie would be strictly below itself |
| `ContractTheorem` | `ContractKept`: whatever moved or failed, the records of a cycle keep the contract | `IInv`: nothing is read twice; the rest by what the plan asks |
| `ApprovedTheorem` | `ApprovedFaithful`: what the gate approves is complete, in each of the four paged lists unless one was `shaken` | `IInv` at the assembly, and the status of a capability read backwards: available means asked, in full, without a failure |
| `NewUiTheorem` | `NewUiApart`: New UI cannot degrade the Classic source | no capability belongs to both |
| `CollectsTheorem`, `StagedTheorem` | an operator beside it changes nothing for the collector; `StagedAsPlanned`: staging gets the snapshot of the confirmed plan | `StagingInv`: from the second reading on, what is to be sent is what the plan names |

**LockedInv.** `PointersResolve` is not inductive: a pruning in progress has read the
pointers some steps ago.  The invariant adds that at most one writer is past the lock
(`Exclusive`), that what it publishes is stored and newer than `current` (`Carried`), that
what each pointer names is in `keep` once the pruning has read it (`Protected`), and that an
archive goes before its object (`ArchivesFirst`).  It needs `ManualWriters = {}`; without
it the argument fails at `Protected`: a manual writer moves a pointer while a pruning is under way.

**FewInv.** What a pruning keeps is the newest objects and what the pointers named when it read
them.  That would be three more, but `current` is among the newest: `Latest` says that only a
dead publication leaves an object above `current`, and that one counts as retained.

**ReadInv.** A reader reads three pointers at three times, so what it holds is not what a pointer
names any more.  The invariant counts.  `Orphans` says that every snapshot written and not
published is one under way or a fault, so that a snapshot which is `Owed` so many others since the read
began is beyond retention only after as many publications and faults (`Overtaken`); to lose
`previous` as well, as many again (`OvertakenAgain`, `Outrun`).  The bound is the one proved: a
constant number of publications, which TLC would confirm for one fault, is wrong for two.

**SafeInv.** `Own(p)` says what a publisher relies on at each step: that its lock directory is
still there, that the objects it has seen are, and that no manifest needs the file it is
about to remove.  It survives the other publishers because a publisher inside the critical
section is the only one at its target (`OnePublisher`, part of `TargetSafe`), and it survives lost commands because a
lost command has all of its effect or none.

**LiveInv.** `Complete(t)` says of a target what `BacklogComplete` says; it is kept only because
of what the attempt under way knows (`Attempt`): the local store stands still, the queue is what
the target lacks of the batch, and by the time a pointer moves or the retention starts the whole batch
has arrived.  `Recent` says what the batch cannot lack: the local store has the last
`LocalRetention` snapshots, whatever its prunings left out or failed at, so a `current` that moves
brings every approved one of them.  A collection only makes the debt smaller: what it prunes is no
longer owed.  Uploading in order is what keeps the part up to the newest archive: a batch cut
short leaves the newer ones out, never one in the middle.  A manual publisher sends one snapshot
without the backlog, so the hypothesis is `Manuals = {}`.

**IInv.** (`HostOtDeliveryProofs`.)  `AckedDone` is about records the sender has left behind;
what makes them done happened in threads, some of them no longer waited for.  `WorkDone(t)`
says what a thread has achieved for its record at each of its places, and it is kept by the
steps of all the others because what it says only grows (`Grows`): documents, ingested
records, tickets and P1s are never taken back.  `Evident` says that the evidence of an
episode is one of its own ingested events, and the latest unless overtaken; with
`Accumulated`, that the writes of an episode accumulate, a thread that reads the signal late
still sees the shutdown its own record told of.  `Waits` ties the answer to the record after the
cursor, and `Attempts` bounds what was ever tried, which the heartbeat needs.

**Inv** (`TicketStoreProofs`). The three properties of a row are inductive with the types of the rows: every
transaction writes one well-typed row and logs the columns it changes (`WriteRow`).  The
decision times need a fact about the graph alone, `Onward`: a decision is only left by
reopening the ticket, or, for a resolution, by closing it.

**TasksInv.** A task added by a playbook goes to `MAX(position) + 1`, so positions are unique only
if they have no gap: `Ordered` says that they are `1 .. n`, and that of two tasks with one title the
later was added by hand.  The playbook adds only titles that no task has, typed ones included, and
`add_task` any title at all; `AddsManual` says that a request in flight carries one of the typed
titles, which may be those of the playbook.

**Inv** (`SnapshotIngestProofs`). A count is exact because a row says what the snapshot it names says and
the markers say which were ingested (`RowExact`).  The newest evidence needs what the writers still have in hand:
`InOrder` says that whatever may still be ingested (the worker's list, the page, what is to
be published) comes after what was, unless `ahead` says otherwise, and `Remembered` ties the
time stamp of a decision, which may be older than the commit it follows, to the snapshot the
analyst saw.  `Swept` is the loop of the worker.

**IInv** (`EndpointAuditProofs`). An episode that is over is accounted for only because of what it was
while open: `Held` says that its writes are its `count`, that the spool has no revision beyond its
own, and that what it does not keep for its next revision (`dirty`) is in its last one, shutdown
included (`Spooled`).  A new episode then needs an identifier that nobody used: `Allocated` says that
an identifier in use lies below the sequence in the state file of its boot.  That is what a save by
the sender undoes, so all of it is conditional on `clobbered`.  `Silent` and `Told` are the two things a
callback can do to an episode: say nothing of it, or one revision more.

**IInv** (`DeploymentProofs`), `PInv` for production and `SInv` for staging. `MarkedExactly` speaks of
the moment; the restore speaks of the installation found under the lock, any number of steps and faults
ago.  `Work(o)` says, of the operation that holds the lock, which parts are those of the target
and which those of `plan.before` at each of its places, that this is the installation found
(`base`), and that it was `Healthy`, or else the marker of an earlier operation still tells: so
a restore that goes through all its places ends at `base`, and one killed on the way leaves a
marker that `MarkerTells`.  `Covered` is what an activation past its initial ingest knows of every
snapshot archived so far: ingested, announced, `missed`, or, until the last check has looked for
it, made current after the first.  In staging there is no lock, so
`SWork` says the same only of an operation that runs alone.  A release found there is `Vouched`
for: it was proven, or an operation on it failed to restore, was killed or was overtaken
(`Always`, which nothing undoes), or one is still under way.  An operation under way when another
begins is no longer alone, so it vouches for good; that is what makes `Vouched` inductive.
`SStarts` bounds the starts of the app by the number of operations past their restart, twice, for the
restart and for the one of the restore; it is why `StagingOps` is assumed finite.

**IInv** (`CollectionProofs`).  A device that stayed is among the assets of an approved snapshot
because no page passed it by, and that is a fact about positions.  `PagesRead` says, between two pages, that
whatever stayed and lies where the pages have been was read, and that whatever lies further back than
they have been, by more than was inserted since the last one, was not.  The second half is
what ends the list: `classic_pages` stops at a page that brings nothing new, and with fewer insertions
than a page has places the last place of a full page is new, so such a page cannot come.  An insertion
moves the rest back by one, which `inserted` makes up for; a removal moves it forward, which
nothing makes up for, hence `shaken`.  The same holds of each of the four paged lists (`Pages`), and
`results` starts empty with each.  `Heard` says that each list asked
so far failed or was recorded, `Present` that what was recorded has the devices that stayed unless
its pages were `shaken`, `Complete` the same of the list of devices.  They need to know which question is asked at which place of
a plan that changes while it is followed: `PlanIs` says what the plan is made of, `Placed` which
question stands where, and `PlanGoesOn` that the place after the next answer is still in it, since the plan
only changes at the lists of devices, baselines and sensors, all of them before the first question
about a record.  `Course` adds that only a lost cycle is assembled before the plan is at its end.

**Induction over data.**  The library's induction theorems take an operator as a parameter and cannot
be instantiated.  `Least` and `UpTo` say the same of a set of numbers, from the
well-foundedness of the naturals, and carry the one recursion that a proof needs: the records of a page
that are new (`NewItems`).  The definitions of `Collection` that build sequences are functions on `1 .. n`
for the same reason.

Only model-checked: liveness (`UnblockedRecover`, `Delivered`), which with fairness and `ENABLED` is outside
what the prover handles.  And no theorem speaks of the value of the quality score: the properties
only need that the gate compares it with a threshold, and it is a sum over a set by a fold.

## 6. What is not modelled

- **Paged records other than devices.**  A component, an activity or a flow is modelled by the device
  it names, one record for each device and in the order of the devices; the code reads many, in an
  order of their own.  There one device may move a list by several places: `shaken` exempts any
  removal, but counts insertions by the device, where the pages move by the record.  The differences of a
  baseline and the vulnerabilities of a device are paged as well, and answered in one step.
- **A health file that cannot be written, and an `fsync` that fails after a whole line.**  In
  `EndpointAudit` the health is always written, and a failing append leaves a torn line or none.
- **The order of storing and validating a refused document.**  `HostOtDelivery` stores the document of
  every record before anything may refuse it; the code validates before it stores, so that some
  refused records leave no document.  The properties are about records that were accepted.
- **A command that takes effect after its publisher gave up.** A lost ssh command has its
  effect at the time of the loss or never.  A remote `mv` delayed beyond the release of the
  lock could move a pointer under the next publisher.
- **The local age gate** of `publish_current` (a snapshot that expires between collection and
  publication): approval is a constant of a snapshot here.
- **Exports, the text of comments and task audit events** of the tickets: rows that nothing reads
  back.
- **The API's ticket service** (`apps/api/dtlab_api/ticketing.py`) calls the same operations.
- **The builders of signals** from a snapshot (`signal_ingest.py`): pure functions of the
  snapshot; a payload stands for what they yield.  Events and baseline differences, which never
  come back to the inbox, are left out.
- **`export_event`**, the outbox mode of the sender: nothing in the repository reads it.
- **Authentication of the ingress and `sensor_coverage`**: a filter in front of `accept`, and a
  computation on the status when a page shows it.
- **Two PLC clocks**: the agent's clock is monotonic within a boot and the windows are compared
  within an episode, which does not outlive its boot.
- **Verification of trees, units, environments and bundles** in the deployment tools: modelled by
  what it accepts.  The unpacking of a bundle, the installation of its environment and the
  `bootstrap` of users and directories come before anything that the models start from.  The
  ticket database is copied by a promotion and never put back by the tool.
- **`host_ot_server_bootstrap.py`**: a linear script run once, with nothing concurrent and nothing
  to restore.
- **The fields of a record.**  Of what the sources report, `Collection` keeps devices, the
  references to them, the status of a capability and the score; names, protocols, counts, the
  topology and the migration of older contracts are left out, as are the sessions and the
  credentials of the clients.
- **Exports and dashboards**: read-only views and formatting.
- **History and settings**: a file, or one row, replaced as a whole; the calendar, which other
  components read, is part of `TicketStore`.
