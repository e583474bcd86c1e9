---------------------------- MODULE SnapshotIngest ----------------------------
(***************************************************************************)
(* The way of a published snapshot into the signals of the ticket database: *)
(* the worker that systemd starts when the directory of manifests changes   *)
(* (ticket_ingest_worker.py), the page of an analyst that ingests what it   *)
(* shows (ui/views/operations.py), the transaction they share               *)
(* (ingest_snapshot_signals), the pruning script, and the rule by which a   *)
(* decided signal comes back to the inbox (signal_needs_review).            *)
(*                                                                         *)
(* Snapshots are numbered in the order of their generated_at, which is the  *)
(* order of their publication.  A writer of the database takes its          *)
(* timestamp before it gets the write lock: the stamp and the transaction   *)
(* are two steps.                                                           *)
(***************************************************************************)
EXTENDS Naturals, FiniteSets, FiniteSetsExt

CONSTANTS
    Signals,        \* fingerprints of persistent conditions: findings, vulnerabilities, alerts
    Payloads,       \* what a snapshot may say of a signal
    KnownLimit,     \* list_snapshot_ingests(limit=...)
    Retain,         \* archived manifests the publisher's retention leaves
    MaxSnapshots,   \* bound: publications
    MaxDecisions,   \* bound: decisions of the analyst
    MaxFaults       \* bound: deaths, damaged objects, failing transactions, missed triggers

ASSUME IngestAssumption ==
    /\ KnownLimit \in Nat /\ Retain \in Nat \ {0}
    /\ MaxSnapshots \in Nat /\ MaxDecisions \in Nat /\ MaxFaults \in Nat

Absent == "absent"
Snapshots == 1 .. MaxSnapshots
Contents  == [Signals -> Payloads \cup {Absent}]
None      == 0      \* no snapshot, no time

VARIABLES
    published,      \* the last snapshot published: current
    contents,       \* what each snapshot says
    archived,       \* manifests in the archive
    damaged,        \* snapshots that do not load
    trigger,        \* the path unit has seen a change and will start the worker
    worker,         \* at, the markers it knows, the manifests left to load, the snapshots to ingest, its stamp
    page,           \* the snapshot an analyst's page ingests, and its stamp
    clock,          \* the last timestamp taken
    markers,        \* snapshot_ingests
    signal,         \* the row of each signal
    ticket,         \* of each signal
    desk,           \* the decision under way
    decisions, faults,
    began,          \* what was archived when the worker's run began
    forgotten,      \* the snapshots ingested before a signal was last pruned
    ahead           \* signals ingested from a snapshot before an older one

archive == <<published, contents, archived, damaged>>
db      == <<markers, signal, ticket>>
bounds  == <<decisions, faults>>
ghost   == <<began, forgotten, ahead>>
vars    == <<archive, trigger, worker, page, clock, db, desk, bounds, ghost>>

NoSignal == [at |-> None, payload |-> Absent, count |-> 0, changed |-> None]
NoTicket == [status |-> "none", decided |-> None, seen |-> None]
Idle     == [at |-> "idle", known |-> {}, left |-> {}, todo |-> {}, stamp |-> None]
NoPage   == [shows |-> None, stamp |-> None]
NoDesk   == [signal |-> "none", stamp |-> None, seen |-> None]

Init ==
    /\ published = None /\ contents = [s \in Snapshots |-> [g \in Signals |-> Absent]]
    /\ archived = {} /\ damaged = {}
    /\ trigger = FALSE /\ worker = Idle /\ page = NoPage /\ clock = 0
    /\ markers = {} /\ signal = [g \in Signals |-> NoSignal]
    /\ ticket = [g \in Signals |-> NoTicket] /\ desk = NoDesk
    /\ decisions = 0 /\ faults = 0
    /\ began = {} /\ forgotten = [g \in Signals |-> {}] /\ ahead = {}

Newest(n, S) == {s \in S : Cardinality({r \in S : r > s}) < n}
Readable(s)  == s \in archived \ damaged

Fault == faults < MaxFaults /\ faults' = faults + 1 /\ UNCHANGED decisions

-----------------------------------------------------------------------------
\* The snapshot store, as the publisher leaves it.

\* The archive of a snapshot is written, old ones are pruned, and the path unit is triggered;
\* what changes while the worker runs may escape the unit.
Publish(c) ==
    /\ published < MaxSnapshots
    /\ published' = published + 1
    /\ contents' = [contents EXCEPT ![published + 1] = c]
    /\ archived' = Newest(Retain, archived \cup {published + 1})
    /\ \/ trigger' = TRUE /\ UNCHANGED bounds
       \/ worker # Idle /\ UNCHANGED trigger /\ Fault
    /\ UNCHANGED <<damaged, worker, page, clock, db, desk, ghost>>

Damage(s) ==
    /\ s \in archived \ damaged
    /\ Fault
    /\ damaged' = damaged \cup {s}
    /\ UNCHANGED <<published, contents, archived, trigger, worker, page, clock, db, desk, ghost>>

-----------------------------------------------------------------------------
\* The transaction (ticket_store.py).

Known(g, s) == contents[s][g] # Absent

Row(g, s, stamp) ==
    LET old == signal[g]
    IN IF ~Known(g, s) \/ old.at = s THEN old
       ELSE [at |-> s, payload |-> contents[s][g], count |-> old.count + 1,
             changed |-> IF old.payload # contents[s][g] THEN stamp ELSE old.changed]

\* Mutant: the marker is looked for before the transaction only.
MarkedNever(s) == FALSE

Marked(s) == s \in markers

\* ingest_snapshot_signals: the rows and the marker, in one transaction, while others are
\* waiting to be ingested from elsewhere.
Commit(s, stamp, waiting) ==
    /\ UNCHANGED ticket
    /\ IF Marked(s) THEN UNCHANGED <<markers, signal, ahead>>
       ELSE /\ signal' = [g \in Signals |-> Row(g, s, stamp)]
            /\ markers' = markers \cup {s}
            /\ ahead' = ahead \cup {g \in Signals :
                                       \E r \in waiting \ markers : r \in 1 .. s - 1 /\ Known(g, r)}

-----------------------------------------------------------------------------
\* The worker (ticket_ingest_worker.py).

\* Mutant: whatever is older than the newest marker passes for ingested.
HighWater == 1 .. Max(markers \cup {0})

KnownMarkers == Newest(KnownLimit, markers)

\* ingest_available_snapshots: the markers, then the names of the archive.
WorkerStarts ==
    /\ worker = Idle /\ trigger
    /\ trigger' = FALSE
    /\ worker' = [Idle EXCEPT !.at = "listing", !.known = KnownMarkers]
    /\ began' = archived
    /\ UNCHANGED <<archive, page, clock, db, desk, bounds, forgotten, ahead>>

WorkerLists ==
    /\ worker.at = "listing"
    /\ worker' = [worker EXCEPT !.at = "loading", !.left = archived]
    /\ UNCHANGED <<archive, trigger, page, clock, db, desk, bounds, ghost>>

\* Mutant: an archive that does not load ends the search.
LeftAtError(s) == IF Readable(s) THEN worker.left \ {s} ELSE {}

Left(s) == worker.left \ {s}

\* One manifest of _load_candidates: one that does not load is only reported.
WorkerLoads(s) ==
    /\ worker.at = "loading" /\ s \in worker.left
    /\ worker' = [worker EXCEPT !.left = Left(s),
                                !.todo = IF Readable(s) /\ s \notin worker.known
                                         THEN @ \cup {s} ELSE @]
    /\ UNCHANGED <<archive, trigger, page, clock, db, desk, bounds, ghost>>

\* load("current"): mandatory, whatever the archive holds.
WorkerLoadsCurrent ==
    /\ worker.at = "loading" /\ worker.left = {}
    /\ worker' = IF published = None \/ published \in damaged THEN Idle
                 ELSE [worker EXCEPT !.at = "ingesting",
                                     !.todo = IF published \in worker.known THEN @
                                              ELSE @ \cup {published}]
    /\ UNCHANGED <<archive, trigger, page, clock, db, desk, bounds, ghost>>

\* Mutant: the candidates are ingested from the newest.
NewestFirst == Max(worker.todo)

Oldest == Min(worker.todo)

Done == [worker EXCEPT !.at = "ingesting", !.todo = @ \ {Oldest}, !.stamp = None]

\* snapshot_ingested, and the timestamp of the transaction to come.
WorkerChecks ==
    /\ worker.at = "ingesting" /\ worker.todo # {}
    /\ IF Oldest \in markers
       THEN worker' = Done /\ UNCHANGED clock
       ELSE /\ worker' = [worker EXCEPT !.at = "committing", !.stamp = clock + 1]
            /\ clock' = clock + 1
    /\ UNCHANGED <<archive, trigger, page, db, desk, bounds, ghost>>

WorkerCommits ==
    /\ worker.at = "committing"
    /\ Commit(Oldest, worker.stamp, (archived \ worker.todo) \cup {page.shows})
    /\ worker' = Done
    /\ UNCHANGED <<archive, trigger, page, clock, desk, bounds, began, forgotten>>

WorkerEnds ==
    /\ worker.at = "ingesting" /\ worker.todo = {}
    /\ worker' = Idle
    /\ UNCHANGED <<archive, trigger, page, clock, db, desk, bounds, ghost>>

\* The worker dies, or the database stays locked: its service is not started again.
WorkerFails ==
    /\ worker # Idle /\ Fault
    /\ worker' = Idle
    /\ UNCHANGED <<archive, trigger, page, clock, db, desk, ghost>>

-----------------------------------------------------------------------------
\* The analyst's page (ui/views/operations.py).

\* load_best_available: the current snapshot, or one of the archive when it is damaged.  A page
\* whose snapshot is ingested already changes nothing and is left out.
Render(s) ==
    /\ page = NoPage /\ s \notin damaged \cup markers
    /\ IF published \in damaged THEN s \in archived ELSE s = published /\ s # None
    /\ page' = [shows |-> s, stamp |-> None]
    /\ UNCHANGED <<archive, trigger, worker, clock, db, desk, bounds, ghost>>

\* sync_ticket_store
PageStamps ==
    /\ page.shows # None /\ page.stamp = None
    /\ clock' = clock + 1 /\ page' = [page EXCEPT !.stamp = clock + 1]
    /\ UNCHANGED <<archive, trigger, worker, db, desk, bounds, ghost>>

PageCommits ==
    /\ page.stamp # None
    /\ Commit(page.shows, page.stamp, archived \cup worker.todo)
    /\ page' = NoPage
    /\ UNCHANGED <<archive, trigger, worker, clock, desk, bounds, began, forgotten>>

\* The analyst decides the ticket of a signal (resolved, closed, ...): the timestamp first.
Decide(g) ==
    /\ desk = NoDesk /\ signal[g] # NoSignal /\ ticket[g].status # "decided"
    /\ decisions < MaxDecisions
    /\ clock' = clock + 1
    /\ desk' = [signal |-> g, stamp |-> clock + 1, seen |-> signal[g].at]
    /\ decisions' = decisions + 1
    /\ UNCHANGED <<archive, trigger, worker, page, db, faults, ghost>>

DecisionCommits ==
    /\ desk # NoDesk
    /\ ticket' = [ticket EXCEPT ![desk.signal] =
                     IF signal[desk.signal] = NoSignal THEN @
                     ELSE [status |-> "decided", decided |-> desk.stamp, seen |-> desk.seen]]
    /\ desk' = NoDesk
    /\ UNCHANGED <<archive, trigger, worker, page, clock, markers, signal, bounds, ghost>>

Reopen(g) ==
    /\ ticket[g].status = "decided"
    /\ ticket' = [ticket EXCEPT ![g] = [NoTicket EXCEPT !.status = "open"]]
    /\ UNCHANGED <<archive, trigger, worker, page, clock, markers, signal, desk, bounds, ghost>>

\* Mutant: a pruned signal leaves its row behind.
PrunedKept(K) == signal

Pruned(K) == [g \in Signals |-> IF g \in K THEN signal[g] ELSE NoSignal]

\* prune_ticket_store.py: the signals of the tickets it keeps stay, the markers all do.
Prune(K) ==
    /\ K \subseteq {g \in Signals : ticket[g].status # "none"}
    /\ desk = NoDesk
    /\ \E g \in Signals \ K : signal[g] # NoSignal
    /\ signal' = Pruned(K)
    /\ ticket' = [g \in Signals |-> IF g \in K THEN ticket[g] ELSE NoTicket]
    /\ forgotten' = [g \in Signals |-> IF g \in K THEN forgotten[g] ELSE markers]
    /\ UNCHANGED <<archive, trigger, worker, page, clock, markers, desk, bounds, began, ahead>>

\* Mutant: a decided signal comes back whenever it is seen again.
ReviewWhenSeen(g) == signal[g].at > ticket[g].seen

Newer(g) == signal[g].changed > ticket[g].decided

\* signal_needs_review.  Events and baseline differences, which never come back, are left out.
NeedsReview(g) ==
    /\ signal[g] # NoSignal
    /\ \/ ticket[g].status = "none"
       \/ ticket[g].status = "decided" /\ Newer(g)

Works ==
    \/ WorkerStarts \/ WorkerLists \/ WorkerLoadsCurrent \/ WorkerChecks \/ WorkerCommits
    \/ WorkerEnds \/ \E s \in Snapshots : WorkerLoads(s)

Next ==
    \/ \E c \in Contents : Publish(c)
    \/ \E s \in Snapshots : Damage(s) \/ Render(s)
    \/ Works \/ WorkerFails
    \/ PageStamps \/ PageCommits
    \/ \E g \in Signals : Decide(g) \/ Reopen(g)
    \/ DecisionCommits
    \/ \E K \in SUBSET Signals : Prune(K)

Spec == Init /\ [][Next]_vars

-----------------------------------------------------------------------------
Rows == [at : 0 .. MaxSnapshots, payload : Payloads \cup {Absent}, count : 0 .. MaxSnapshots,
         changed : Nat]

\* Every variable keeps its type, and nothing is archived or marked that is not published.
TypeOK ==
    /\ published \in 0 .. MaxSnapshots /\ contents \in [Snapshots -> Contents]
    /\ archived \subseteq 1 .. published /\ damaged \subseteq 1 .. published
    /\ trigger \in BOOLEAN
    /\ worker \in [at : {"idle", "listing", "loading", "ingesting", "committing"},
                   known : SUBSET Snapshots, left : SUBSET Snapshots, todo : SUBSET Snapshots,
                   stamp : Nat]
    /\ page \in [shows : 0 .. MaxSnapshots, stamp : Nat] /\ clock \in Nat
    /\ markers \subseteq 1 .. published /\ signal \in [Signals -> Rows]
    /\ ticket \in [Signals -> [status : {"none", "open", "decided"}, decided : Nat,
                               seen : 0 .. MaxSnapshots]]
    /\ desk \in [signal : Signals \cup {"none"}, stamp : Nat, seen : 0 .. MaxSnapshots]
    /\ decisions \in 0 .. MaxDecisions /\ faults \in 0 .. MaxFaults
    /\ began \subseteq Snapshots /\ forgotten \in [Signals -> SUBSET Snapshots]
    /\ ahead \subseteq Signals

\* The snapshots whose observation of a signal the database still knows.
Ingested(g) == {s \in markers \ forgotten[g] : Known(g, s)}

\* Page and worker ingest each snapshot once, whatever runs beside or is run again: a signal
\* counts the snapshots that tell of it (ARCHITECTURE.md: "snapshot_ingests rende l'ingest
\* idempotente").
CountsOnce ==
    \A g \in Signals : signal[g].count = Cardinality(Ingested(g))

\* The database is well formed, and so are its counters (the variables keep their types, and
\* CountsOnce).
DatabaseExact == TypeOK /\ CountsOnce

\* A run that gets to its end has ingested all that was archived when it began and can still
\* be read, the snapshots whose own change of the directory went unnoticed included.
NothingLost ==
    (worker.at = "ingesting" /\ worker.todo = {}) =>
        \A s \in began : Readable(s) => s \in markers

\* A signal holds the latest of its observations, unless a page or a worker that found
\* current published meanwhile has ingested a snapshot ahead of an older one.
NewestEvidence ==
    \A g \in Signals \ ahead :
        Ingested(g) # {} => signal[g].at = Max(Ingested(g))

\* The snapshots that changed what was said of a signal after the analyst who decided it had
\* taken the time of the decision.
Changes(g) ==
    {s \in Ingested(g) : /\ s > ticket[g].seen
                         /\ contents[s][g] # contents[Max({r \in Ingested(g) : r < s})][g]}

Decided(g) == ticket[g].status = "decided" /\ g \notin ahead

\* A decided signal comes back only for a change of its content, not because a later snapshot
\* repeats it (ARCHITECTURE.md: "soltanto dopo un aggiornamento semantico").
ReviewJustified == \A g \in Signals : Decided(g) /\ NeedsReview(g) => Changes(g) # {}

\* As long as nothing fails, no snapshot is left behind: one that is archived and not ingested
\* is about to be seen by the worker, even when a page has ingested a later one before.
Attended ==
    faults = 0 => \A s \in archived \ markers :
        trigger \/ worker.at = "listing" \/ s \in worker.left \cup worker.todo

\* The analysts' attention goes to what deserves it: no decided signal comes back without a
\* change, and no snapshot stays out of the worker's sight (ReviewJustified and Attended).
AttentionExact == ReviewJustified /\ Attended
=============================================================================
