------------------------ MODULE SnapshotIngestProofs -------------------------
(***************************************************************************)
(* Proofs about SnapshotIngest, for any signals, contents, retention,       *)
(* decisions and failures: whatever the worker, the page, the analyst and   *)
(* the pruning script interleave, a signal counts the snapshots that tell   *)
(* of it, a run that ends has lost nothing, a signal holds its latest       *)
(* observation, and a decided one comes back only for a change.             *)
(*                                                                         *)
(* The invariant adds to these what the writers still have in hand: the     *)
(* snapshots that may yet be ingested come after those that were, unless    *)
(* ahead says otherwise, and a decision remembers a snapshot the database   *)
(* knows.                                                                   *)
(***************************************************************************)
EXTENDS SnapshotIngest, FiniteSetTheorems, NaturalsInduction, WellFoundedInduction, TLAPS

(* Least and greatest elements.                                             *)

LEMMA LeastElement ==
    ASSUME NEW S \in SUBSET Nat, S # {}
    PROVE  \E n \in S : \A m \in S : n <= m
<1> DEFINE R == {p \in Nat \X Nat : p[1] < p[2]}
<1>1. IsWellFoundedOn(R, Nat)
  BY NatLessThanWellFounded DEF OpToRel
<1> HIDE DEF R
<1>2. PICK n \in S : \A m \in S : <<m, n>> \notin R
  BY <1>1, WFMin
<1>3. ASSUME NEW m \in S PROVE ~(m < n)
  <2>1. m \in Nat /\ n \in Nat /\ <<m, n>> \notin R
    BY <1>2
  <2> QED BY <2>1 DEF R
<1> QED BY <1>3

LEMMA MinElement ==
    ASSUME NEW S \in SUBSET Nat, S # {}
    PROVE  Min(S) \in S /\ \A m \in S : Min(S) <= m
  BY LeastElement DEF Min

LEMMA MaxElement ==
    ASSUME NEW S \in SUBSET Nat, NEW n \in S, \A m \in S : m <= n
    PROVE  Max(S) = n
<1>1. \E x \in S : \A y \in S : x >= y
  OBVIOUS
<1>2. Max(S) \in S /\ \A y \in S : Max(S) >= y
  BY <1>1 DEF Max
<1>3. Max(S) \in Nat /\ n \in Nat /\ Max(S) >= n /\ Max(S) <= n
  BY <1>2
<1> QED BY <1>3

LEMMA GreatestElement ==
    ASSUME NEW S \in SUBSET Nat, S # {}, NEW N \in Nat, \A m \in S : m <= N
    PROVE  Max(S) \in S /\ \A m \in S : m <= Max(S)
<1> DEFINE T == {N - m : m \in S}
<1>1. T \in SUBSET Nat /\ T # {}
  <2>1. \A m \in S : N - m \in Nat
    OBVIOUS
  <2> QED BY <2>1
<1>2. PICK t \in T : \A u \in T : t <= u
  BY <1>1, LeastElement
<1>3. PICK n \in S : t = N - n
  BY <1>2
<1>4. \A m \in S : m <= n
  <2> SUFFICES ASSUME NEW m \in S PROVE m <= n
    OBVIOUS
  <2>1. N - n <= N - m
    BY <1>2, <1>3
  <2> QED BY <2>1
<1> HIDE DEF T
<1> QED BY <1>3, <1>4, MaxElement
-----------------------------------------------------------------------------
(* The invariant.                                                           *)

\* The snapshots a writer may still ingest, beside those to be published.
Candidates == archived \cup worker.todo \cup ({page.shows} \ {None})

\* What the writers hold is published, the current snapshot is archived, and no time that was
\* taken is ahead of the clock.
Files ==
    /\ worker.left \subseteq 1 .. published /\ worker.todo \subseteq 1 .. published
    /\ began \subseteq 1 .. published
    /\ page.shows \in 0 .. published
    /\ published # None => published \in archived
    /\ worker.known \subseteq markers
    /\ page.shows = None => page.stamp = None
    /\ worker.at = "committing" => worker.todo # {}
    /\ worker.at \in {"ingesting", "committing"} => worker.left = {}
    /\ faults = 0 => damaged = {}
    /\ desk # NoDesk => desk.signal \in Signals

Times ==
    /\ worker.stamp <= clock /\ page.stamp <= clock
    /\ \A g \in Signals : signal[g].changed <= clock

\* A row says what the snapshot it names says, and that snapshot was ingested.
RowExact(g) ==
    /\ forgotten[g] \subseteq markers
    /\ signal[g].count = Cardinality(Ingested(g))
    /\ IF Ingested(g) = {} THEN signal[g] = NoSignal
       ELSE /\ signal[g].at \in Ingested(g)
            /\ signal[g].payload = contents[signal[g].at][g]

RowsExact == \A g \in Signals : RowExact(g)

\* A snapshot that may still be ingested comes after those that were.
InOrder(g) ==
    /\ \A r \in Ingested(g) : r <= signal[g].at
    /\ \A s \in Candidates \ markers : Known(g, s) => \A r \in Ingested(g) : r < s

\* The snapshots that changed what was said of a signal after the one that was seen.
Since(g, seen) ==
    {s \in Ingested(g) : /\ s > seen
                         /\ contents[s][g] # contents[Max({r \in Ingested(g) : r < s})][g]}

\* A decision remembers an ingested snapshot, and whatever changed the row since is one of
\* the changes after it.
Remembers(g, stamp, seen) ==
    /\ seen \in Ingested(g)
    /\ signal[g].changed > stamp => Since(g, seen) # {}

Remembered(g) ==
    /\ ticket[g].status = "decided" => Remembers(g, ticket[g].decided, ticket[g].seen)
    /\ desk # NoDesk /\ desk.signal = g => Remembers(g, desk.stamp, desk.seen)

Orderly == \A g \in Signals \ ahead : InOrder(g) /\ Remembered(g)

\* The worker of a run has in hand what was archived when it began.
Swept ==
    worker.at \in {"loading", "ingesting", "committing"} =>
        \A s \in began : Readable(s) => s \in worker.left \cup worker.todo \cup markers

Inv == TypeOK /\ Files /\ Times /\ RowsExact /\ Orderly /\ Swept /\ Attended

LEMMA IngestedFinite ==
    ASSUME TypeOK, NEW g \in Signals
    PROVE  /\ Ingested(g) \subseteq markers /\ markers \subseteq 1 .. published
           /\ markers \subseteq Nat /\ IsFiniteSet(Ingested(g))
           /\ Cardinality(Ingested(g)) \in 0 .. MaxSnapshots
<1>1. /\ Ingested(g) \subseteq markers /\ markers \subseteq 1 .. published
      /\ published \in Nat /\ published <= MaxSnapshots
  BY IngestAssumption DEF TypeOK, Ingested
<1>2. Ingested(g) \in SUBSET (1 .. MaxSnapshots)
  <2>1. 1 .. published \subseteq 1 .. MaxSnapshots
    BY <1>1, IngestAssumption
  <2> QED BY <1>1, <2>1
<1>3. IsFiniteSet(1 .. MaxSnapshots) /\ Cardinality(1 .. MaxSnapshots) = MaxSnapshots
  <2>1. 1 \in Int /\ MaxSnapshots \in Int
    BY IngestAssumption
  <2>2. /\ IsFiniteSet(1 .. MaxSnapshots)
        /\ Cardinality(1 .. MaxSnapshots) = IF 1 > MaxSnapshots THEN 0 ELSE MaxSnapshots - 1 + 1
    BY <2>1, FS_Interval
  <2> QED BY <2>2, IngestAssumption
<1>4. /\ IsFiniteSet(Ingested(g)) /\ Cardinality(Ingested(g)) <= MaxSnapshots
  BY <1>2, <1>3, FS_Subset
<1>5. Cardinality(Ingested(g)) \in Nat
  BY <1>4, FS_CardinalityType
<1> QED BY <1>1, <1>4, <1>5, IngestAssumption

LEMMA InvInit == Init => Inv
<1> SUFFICES ASSUME Init PROVE Inv
  OBVIOUS
<1>1. \A g \in Signals : Ingested(g) = {}
  BY DEF Init, Ingested
<1>2. TypeOK
  <2>1. NoSignal \in Rows
    BY IngestAssumption DEF NoSignal, Rows, None
  <2>2. contents \in [Snapshots -> Contents]
    BY DEF Init, Contents
  <2>3. /\ forgotten \in [Signals -> SUBSET Snapshots] /\ began \subseteq Snapshots
        /\ signal \in [Signals -> Rows]
    BY <2>1 DEF Init
  <2>4. /\ ticket \in [Signals -> [status : {"none", "open", "decided"}, decided : Nat,
                                  seen : 0 .. MaxSnapshots]]
        /\ desk \in [signal : Signals \cup {"none"}, stamp : Nat, seen : 0 .. MaxSnapshots]
        /\ page \in [shows : 0 .. MaxSnapshots, stamp : Nat]
    BY IngestAssumption DEF Init, NoTicket, NoDesk, NoPage, None
  <2>5. worker \in [at : {"idle", "listing", "loading", "ingesting", "committing"},
                    known : SUBSET Snapshots, left : SUBSET Snapshots, todo : SUBSET Snapshots,
                    stamp : Nat]
    BY DEF Init, Idle, None
  <2>6. /\ published \in 0 .. MaxSnapshots /\ clock \in Nat
        /\ decisions \in 0 .. MaxDecisions /\ faults \in 0 .. MaxFaults
    BY IngestAssumption DEF Init, None
  <2>7. /\ archived \subseteq 1 .. published /\ damaged \subseteq 1 .. published
        /\ markers \subseteq 1 .. published /\ ahead \subseteq Signals /\ trigger \in BOOLEAN
    BY DEF Init
  <2> QED BY <2>2, <2>3, <2>4, <2>5, <2>6, <2>7 DEF TypeOK
<1>3. Files /\ Times /\ Swept /\ Attended
  BY DEF Init, Files, Times, Swept, Attended, Idle, NoPage, NoDesk, NoSignal, None
<1>4. RowsExact
  BY <1>1, FS_EmptySet DEF Init, RowsExact, RowExact, NoSignal
<1>5. Orderly
  BY <1>1 DEF Init, Orderly, InOrder, Remembered, NoTicket
<1> QED BY <1>2, <1>3, <1>4, <1>5 DEF Inv
-----------------------------------------------------------------------------
(* What the writers hold.                                                   *)

WorkerType ==
    [at : {"idle", "listing", "loading", "ingesting", "committing"},
     known : SUBSET Snapshots, left : SUBSET Snapshots, todo : SUBSET Snapshots, stamp : Nat]

\* The worker's next candidate is one of those it has to ingest, and the first of them.
LEMMA OldestCandidate ==
    ASSUME TypeOK, worker.todo # {}
    PROVE  Oldest \in worker.todo /\ \A s \in worker.todo : Oldest <= s
<1>1. worker.todo \in SUBSET Nat
  BY DEF TypeOK, Snapshots
<1> QED BY <1>1, MinElement DEF Oldest

LEMMA NewestArchived ==
    ASSUME Inv, NEW c, Publish(c)
    PROVE  /\ published' = published + 1 /\ published' \in archived'
           /\ published' \in Snapshots /\ published \in Nat
           /\ archived' \subseteq archived \cup {published'}
           /\ archived \subseteq 1 .. published
<1> DEFINE S == archived \cup {published + 1}
<1>1. /\ published' = published + 1 /\ published \in 0 .. MaxSnapshots
      /\ published < MaxSnapshots /\ archived \subseteq 1 .. published
      /\ archived' = Newest(Retain, S)
  BY DEF Publish, Inv, TypeOK
<1>2. {r \in S : r > published + 1} = {}
  <2>1. \A r \in S : r \in Nat /\ r <= published + 1
    BY <1>1
  <2> HIDE DEF S
  <2> QED BY <1>1, <2>1
<1>3. published + 1 \in Newest(Retain, S)
  BY <1>2, FS_EmptySet, IngestAssumption DEF Newest
<1>4. Newest(Retain, S) \subseteq S
  BY DEF Newest
<1> QED BY <1>1, <1>3, <1>4, IngestAssumption DEF Snapshots

LEMMA WorkerTyped ==
    ASSUME Inv
    PROVE  /\ worker \in WorkerType
           /\ worker.left \subseteq Snapshots /\ worker.todo \subseteq Snapshots
           /\ worker.known \subseteq Snapshots /\ worker.stamp \in Nat
           /\ Idle \in WorkerType
           /\ 1 .. published \subseteq Snapshots /\ published \in Nat /\ clock \in Nat
  BY IngestAssumption DEF Inv, TypeOK, WorkerType, Idle, Snapshots, None

\* The worker after a snapshot is done with.
LEMMA DoneTyped ==
    ASSUME Inv
    PROVE  /\ Done \in WorkerType
           /\ Done.at = "ingesting" /\ Done.left = worker.left /\ Done.known = worker.known
           /\ Done.todo = worker.todo \ {Oldest} /\ Done.stamp = 0
  BY WorkerTyped DEF Done, WorkerType, None

\* The steps of the worker but its transaction.
LEMMA WorkerFiles ==
    ASSUME Inv, \/ WorkerStarts \/ WorkerLists \/ (\E s \in Snapshots : WorkerLoads(s))
                \/ WorkerLoadsCurrent \/ WorkerChecks \/ WorkerEnds \/ WorkerFails
    PROVE  TypeOK' /\ Files' /\ Times'
<1> USE WorkerTyped
<1>1. CASE WorkerStarts
  <2>1. KnownMarkers \subseteq markers
    BY DEF KnownMarkers, Newest
  <2>2. worker' \in WorkerType
    BY <1>1, <2>1 DEF WorkerStarts, Inv, TypeOK, WorkerType, Idle
  <2> QED BY <1>1, <2>1, <2>2 DEF WorkerStarts, Inv, TypeOK, Files, Times, WorkerType, archive, db,
                                  bounds, Idle, None
<1>2. CASE WorkerLists
  <2>1. worker' \in WorkerType
    BY <1>2 DEF WorkerLists, Inv, TypeOK, WorkerType
  <2> QED BY <1>2, <2>1 DEF WorkerLists, Inv, TypeOK, Files, Times, WorkerType, archive, db,
                            bounds, ghost
<1>3. ASSUME NEW s \in Snapshots, WorkerLoads(s) PROVE TypeOK' /\ Files' /\ Times'
  <2>1. worker' \in WorkerType
    BY <1>3 DEF WorkerLoads, WorkerType, Left
  <2> QED BY <1>3, <2>1 DEF WorkerLoads, Inv, TypeOK, Files, Times, WorkerType, archive, db,
                            bounds, ghost, Left
<1>4. CASE WorkerLoadsCurrent
  <2>1. worker' \in WorkerType
    <3>1. CASE published = None \/ published \in damaged
      BY <1>4, <3>1 DEF WorkerLoadsCurrent
    <3>2. CASE ~(published = None \/ published \in damaged)
      <4>1. published \in Snapshots
        BY <3>2 DEF None, Inv, TypeOK, Snapshots
      <4>2. \E T \in SUBSET Snapshots :
              worker' = [worker EXCEPT !.at = "ingesting", !.todo = T]
        BY <1>4, <3>2, <4>1 DEF WorkerLoadsCurrent
      <4> QED BY <4>2 DEF WorkerType
    <3> QED BY <3>1, <3>2
  <2> QED BY <1>4, <2>1 DEF WorkerLoadsCurrent, Inv, TypeOK, Files, Times, WorkerType, archive, db,
                            bounds, ghost, Idle, None
<1>5. CASE WorkerChecks
  <2>1. CASE Oldest \in markers
    <3>1. worker' = Done /\ UNCHANGED <<archive, trigger, page, clock, db, desk, bounds, ghost>>
      BY <1>5, <2>1 DEF WorkerChecks
    <3> QED BY <1>5, <3>1, DoneTyped DEF WorkerChecks, Inv, TypeOK, Files, Times, WorkerType,
                                         archive, db, bounds, ghost
  <2>2. CASE Oldest \notin markers
    <3>1. /\ worker' = [worker EXCEPT !.at = "committing", !.stamp = clock + 1]
          /\ clock' = clock + 1
          /\ UNCHANGED <<archive, trigger, page, db, desk, bounds, ghost>>
      BY <1>5, <2>2 DEF WorkerChecks
    <3>2. /\ worker' \in WorkerType
          /\ worker'.at = "committing" /\ worker'.stamp = clock'
          /\ worker'.left = worker.left /\ worker'.todo = worker.todo
          /\ worker'.known = worker.known
      <4> DEFINE n == clock + 1
      <4>1. n \in Nat /\ clock' = n /\ worker' = [worker EXCEPT !.at = "committing", !.stamp = n]
        BY <3>1
      <4> HIDE DEF n
      <4> QED BY <4>1 DEF WorkerType
    <3>3. \A n \in Nat : n <= clock => n <= clock'
      BY <3>1
    <3>4. \A g \in Signals : signal[g].changed \in Nat
      BY DEF Inv, TypeOK, Rows
    <3>5. page.stamp \in Nat /\ page.stamp <= clock
      BY DEF Inv, TypeOK, Times
    <3> QED BY <1>5, <3>1, <3>2, <3>3, <3>4, <3>5
            DEF WorkerChecks, Inv, TypeOK, Files, Times, WorkerType, archive, db, bounds, ghost
  <2> QED BY <2>1, <2>2
<1>6. CASE WorkerEnds
  BY <1>6 DEF WorkerEnds, Inv, TypeOK, Files, Times, WorkerType, archive, db, bounds, ghost, Idle, None
<1>7. CASE WorkerFails
  <2>1. faults' \in 1 .. MaxFaults /\ worker' = Idle
    BY <1>7, IngestAssumption DEF WorkerFails, Fault, Inv, TypeOK
  <2> QED BY <1>7, <2>1 DEF WorkerFails, Fault, Inv, TypeOK, Files, Times, WorkerType, archive, db, ghost, Idle, None
<1> QED BY <1>1, <1>2, <1>3, <1>4, <1>5, <1>6, <1>7

\* The steps of the others but the transaction of the page.
LEMMA OtherFiles ==
    ASSUME Inv, \/ (\E c \in Contents : Publish(c))
                \/ (\E s \in Snapshots : Damage(s) \/ Render(s))
                \/ PageStamps \/ DecisionCommits
                \/ (\E g \in Signals : Decide(g) \/ Reopen(g))
                \/ (\E K \in SUBSET Signals : Prune(K))
    PROVE  TypeOK' /\ Files' /\ Times'
<1> USE WorkerTyped
<1> DEFINE TicketType == [status : {"none", "open", "decided"}, decided : Nat,
                          seen : 0 .. MaxSnapshots]
           DeskType == [signal : Signals \cup {"none"}, stamp : Nat, seen : 0 .. MaxSnapshots]
<1>1. ASSUME NEW c \in Contents, Publish(c) PROVE TypeOK' /\ Files' /\ Times'
  <2>1. /\ published' = published + 1 /\ published' \in archived' /\ published' \in Snapshots
        /\ archived' \subseteq archived \cup {published'} /\ archived \subseteq 1 .. published
    BY <1>1, NewestArchived
  <2>2. /\ 1 .. published \subseteq 1 .. published' /\ published' \in 0 .. MaxSnapshots
        /\ archived' \subseteq 1 .. published'
    BY <2>1, IngestAssumption DEF Inv, TypeOK, Snapshots
  <2>3. contents' \in [Snapshots -> Contents]
    BY <1>1 DEF Publish, Inv, TypeOK
  <2>4. /\ trigger' \in BOOLEAN /\ decisions' \in 0 .. MaxDecisions /\ faults' \in 0 .. MaxFaults
        /\ faults' = 0 => faults = 0
    <3>1. /\ trigger \in BOOLEAN /\ decisions \in 0 .. MaxDecisions /\ faults \in 0 .. MaxFaults
      BY DEF Inv, TypeOK
    <3>2. \/ trigger' = TRUE /\ UNCHANGED <<decisions, faults>>
          \/ trigger' = trigger /\ Fault
      BY <1>1 DEF Publish, bounds
    <3>3. CASE trigger' = TRUE /\ UNCHANGED <<decisions, faults>>
      BY <3>1, <3>3
    <3>4. CASE trigger' = trigger /\ Fault
      <4>1. faults < MaxFaults /\ faults' = faults + 1 /\ decisions' = decisions
        BY <3>4 DEF Fault
      <4>2. faults' \in 1 .. MaxFaults
        BY <3>1, <4>1, IngestAssumption
      <4> QED BY <3>1, <3>4, <4>1, <4>2
    <3> QED BY <3>2, <3>3, <3>4
  <2>5. /\ UNCHANGED <<damaged, worker, page, clock, db, desk, ghost>>
        /\ published' # None
    BY <1>1, <2>1 DEF Publish, None
  <2>6. TypeOK'
    BY <2>2, <2>3, <2>4, <2>5 DEF Inv, TypeOK, db, ghost
  <2>7. page.shows \in 0 .. published'
    BY <2>1 DEF Inv, Files
  <2>8. Files' /\ Times'
    BY <2>1, <2>2, <2>4, <2>5, <2>7 DEF Inv, Files, Times, db, ghost
  <2> QED BY <2>6, <2>8
<1>2. ASSUME NEW s \in Snapshots, Damage(s) PROVE TypeOK' /\ Files' /\ Times'
  <2>1. faults' \in 1 .. MaxFaults /\ damaged' \subseteq 1 .. published
    BY <1>2, IngestAssumption DEF Damage, Fault, Inv, TypeOK
  <2> QED BY <1>2, <2>1 DEF Damage, Fault, Inv, TypeOK, Files, Times, db, ghost
<1>3. ASSUME NEW s \in Snapshots, Render(s) PROVE TypeOK' /\ Files' /\ Times'
  <2>1. s \in 1 .. published
    <3>1. /\ s \in archived \/ s = published
          /\ s \in 1 .. MaxSnapshots /\ archived \subseteq 1 .. published
      BY <1>3 DEF Render, Inv, TypeOK, Snapshots
    <3> QED BY <3>1
  <2>2. page' \in [shows : 0 .. MaxSnapshots, stamp : Nat] /\ page'.shows = s /\ page'.stamp = 0
    BY <1>3, IngestAssumption DEF Render, Snapshots, None
  <2> QED BY <1>3, <2>1, <2>2 DEF Render, Inv, TypeOK, Files, Times, archive, db, bounds, ghost, None
<1>4. CASE PageStamps
  <2> DEFINE n == clock + 1
  <2>1. n \in Nat /\ clock' = n /\ page' = [page EXCEPT !.stamp = n] /\ clock <= n
        /\ page.shows # None
    BY <1>4 DEF PageStamps
  <2> HIDE DEF n
  <2>2. page' \in [shows : 0 .. MaxSnapshots, stamp : Nat] /\ page'.shows = page.shows
        /\ page'.stamp = clock'
    BY <2>1 DEF Inv, TypeOK
  <2>3. \A g \in Signals : signal[g].changed \in Nat
    BY DEF Inv, TypeOK, Rows
  <2> QED BY <1>4, <2>1, <2>2, <2>3
          DEF PageStamps, Inv, TypeOK, Files, Times, archive, db, bounds, ghost
<1>5. CASE DecisionCommits
  <2>1. ticket' \in [Signals -> TicketType]
    BY <1>5 DEF DecisionCommits, Inv, TypeOK
  <2>2. NoDesk \in DeskType
    BY IngestAssumption DEF NoDesk, None
  <2> QED BY <1>5, <2>1, <2>2 DEF DecisionCommits, Inv, TypeOK, Files, Times, archive, bounds, ghost
<1>6. ASSUME NEW g \in Signals, Decide(g) PROVE TypeOK' /\ Files' /\ Times'
  <2> DEFINE n == clock + 1
  <2>1. n \in Nat /\ clock' = n /\ clock <= n
        /\ desk' = [signal |-> g, stamp |-> n, seen |-> signal[g].at]
    BY <1>6 DEF Decide
  <2>2. decisions' \in 0 .. MaxDecisions
    BY <1>6, IngestAssumption DEF Decide, Inv, TypeOK
  <2> HIDE DEF n
  <2>3. desk' \in DeskType /\ desk'.signal = g
    BY <2>1 DEF Inv, TypeOK, Rows
  <2>4. \A h \in Signals : signal[h].changed \in Nat
    BY DEF Inv, TypeOK, Rows
  <2>5. page.stamp \in Nat
    BY DEF Inv, TypeOK
  <2> QED BY <1>6, <2>1, <2>2, <2>3, <2>4, <2>5
          DEF Decide, Inv, TypeOK, Files, Times, archive, db, ghost
<1>7. ASSUME NEW g \in Signals, Reopen(g) PROVE TypeOK' /\ Files' /\ Times'
  <2>1. [NoTicket EXCEPT !.status = "open"] \in TicketType
    BY IngestAssumption DEF NoTicket, None
  <2>2. ticket' \in [Signals -> TicketType]
    BY <1>7, <2>1 DEF Reopen, Inv, TypeOK
  <2> QED BY <1>7, <2>2 DEF Reopen, Inv, TypeOK, Files, Times, archive, bounds, ghost
<1>8. ASSUME NEW K \in SUBSET Signals, Prune(K) PROVE TypeOK' /\ Files' /\ Times'
  <2>1. NoTicket \in TicketType /\ NoSignal \in Rows /\ NoSignal.changed = 0
    BY IngestAssumption DEF NoTicket, NoSignal, Rows, None
  <2>2. ticket' \in [Signals -> TicketType] /\ signal' \in [Signals -> Rows]
    BY <1>8, <2>1 DEF Prune, Pruned, Inv, TypeOK
  <2>3. forgotten' \in [Signals -> SUBSET Snapshots]
    BY <1>8 DEF Prune, Inv, TypeOK
  <2>4. \A g \in Signals : signal'[g].changed <= clock
    BY <1>8, <2>1 DEF Prune, Pruned, Inv, Times
  <2> QED BY <1>8, <2>2, <2>3, <2>4 DEF Prune, Inv, TypeOK, Files, Times, archive, bounds
<1> QED BY <1>1, <1>2, <1>3, <1>4, <1>5, <1>6, <1>7, <1>8
-----------------------------------------------------------------------------
(* The rows and the order of the ingestions.                                *)

LEMMA SameIngested ==
    ASSUME Inv, NEW g \in Signals, markers' = markers, forgotten'[g] = forgotten[g],
           \A s \in markers : contents'[s] = contents[s]
    PROVE  /\ Ingested(g)' = Ingested(g)
           /\ \A seen \in Ingested(g) : Since(g, seen)' = Since(g, seen)
<1>1. Ingested(g)' = Ingested(g)
  BY DEF Ingested, Known
<1>2. Ingested(g) \subseteq markers /\ Ingested(g) \subseteq Nat
  BY IngestedFinite DEF Inv
<1> DEFINE before(s) == {r \in Ingested(g) : r < s}
<1>3. ASSUME NEW seen \in Ingested(g), NEW s \in Ingested(g), s > seen
      PROVE  contents'[Max(before(s))][g] = contents[Max(before(s))][g]
  <2>1. before(s) \in SUBSET Nat /\ seen \in before(s) /\ s \in Nat
    BY <1>2, <1>3
  <2>2. \A m \in before(s) : m <= s
    BY <1>2
  <2> HIDE DEF before
  <2>3. Max(before(s)) \in before(s)
    BY <2>1, <2>2, GreatestElement
  <2>4. Max(before(s)) \in markers
    BY <1>2, <2>3 DEF before
  <2> QED BY <2>4
<1>4. \A s \in Ingested(g) : contents'[s][g] = contents[s][g]
  BY <1>2
<1>5. ASSUME NEW seen \in Ingested(g)
      PROVE  Since(g, seen)' = Since(g, seen)
  <2>1. Since(g, seen)' =
          {s \in Ingested(g) : s > seen /\ contents'[s][g] # contents'[Max(before(s))][g]}
    BY <1>1 DEF Since
  <2>2. Since(g, seen) =
          {s \in Ingested(g) : s > seen /\ contents[s][g] # contents[Max(before(s))][g]}
    BY DEF Since
  <2> HIDE DEF before
  <2> QED BY <1>3, <1>4, <2>1, <2>2
<1> QED BY <1>1, <1>5

LEMMA CandidatesPublished ==
    ASSUME Inv
    PROVE  Candidates \subseteq 1 .. published /\ Candidates \subseteq Nat \ {0}
<1>1. /\ worker.todo \subseteq 1 .. published /\ page.shows \in 0 .. published
      /\ archived \subseteq 1 .. published /\ published \in Nat
  BY WorkerTyped DEF Inv, Files, TypeOK
<1>2. {page.shows} \ {0} \subseteq 1 .. published
  BY <1>1
<1>3. Candidates \subseteq 1 .. published
  BY <1>1, <1>2 DEF Candidates, None
<1>4. 1 .. published \subseteq Nat \ {0}
  BY <1>1
<1> QED BY <1>3, <1>4

\* What leaves the rows alone leaves them exact, and in order if what may be ingested next
\* was a candidate already or is newer than all that was ingested.
LEMMA RowsKept ==
    ASSUME Inv, UNCHANGED <<markers, signal, forgotten, ahead>>,
           \A s \in markers : contents'[s] = contents[s],
           \A s \in Candidates' \ markers : \/ s \in Candidates /\ contents'[s] = contents[s]
                                            \/ \A r \in markers : r < s
    PROVE  RowsExact' /\ \A g \in Signals \ ahead : InOrder(g)'
<1>1. \A g \in Signals : Ingested(g)' = Ingested(g) /\ Ingested(g) \subseteq markers
  BY SameIngested, IngestedFinite DEF Inv
<1>2. RowsExact'
  BY <1>1 DEF Inv, RowsExact, RowExact
<1>3. ASSUME NEW g \in Signals \ ahead PROVE InOrder(g)'
  <2>1. InOrder(g)
    BY DEF Inv, Orderly
  <2>2. ASSUME NEW s \in Candidates' \ markers', Known(g, s)'
        PROVE  \A r \in Ingested(g)' : r < s
    BY <1>1, <2>1, <2>2 DEF InOrder, Known
  <2> QED BY <1>1, <2>1, <2>2 DEF InOrder
<1> QED BY <1>2, <1>3

\* What leaves rows and decisions alone leaves the decisions remembered.
LEMMA DecisionsKept ==
    ASSUME Inv, UNCHANGED <<markers, signal, forgotten, ticket, desk>>,
           \A s \in markers : contents'[s] = contents[s],
           NEW g \in Signals \ ahead
    PROVE  Remembered(g)'
<1>1. /\ Ingested(g)' = Ingested(g)
      /\ \A seen \in Ingested(g) : Since(g, seen)' = Since(g, seen)
  BY SameIngested
<1>2. Remembered(g)
  BY DEF Inv, Orderly
<1> QED BY <1>1, <1>2 DEF Remembered, Remembers

\* A step that only moves candidates about, or takes some away.
LEMMA OrderKept ==
    ASSUME Inv, UNCHANGED <<contents, db, desk, forgotten, ahead>>, Candidates' \subseteq Candidates
    PROVE  RowsExact' /\ Orderly'
<1>1. RowsExact' /\ \A g \in Signals \ ahead : InOrder(g)'
  BY RowsKept DEF db
<1>2. \A g \in Signals \ ahead : Remembered(g)'
  BY DecisionsKept DEF db
<1> QED BY <1>1, <1>2 DEF Orderly

LEMMA QuietOrder ==
    ASSUME Inv, \/ WorkerStarts \/ WorkerLists \/ (\E s \in Snapshots : WorkerLoads(s))
                \/ WorkerLoadsCurrent \/ WorkerChecks \/ WorkerEnds \/ WorkerFails
                \/ (\E s \in Snapshots : Damage(s) \/ Render(s))
                \/ PageStamps
    PROVE  RowsExact' /\ Orderly'
<1> USE WorkerTyped
<1>1. CASE WorkerStarts \/ WorkerLists \/ WorkerEnds \/ WorkerFails
  <2>1. worker'.todo \subseteq worker.todo
    <3>1. WorkerStarts => worker'.todo = {}
      BY DEF WorkerStarts, Idle
    <3>2. WorkerEnds \/ WorkerFails => worker'.todo = {}
      BY DEF WorkerEnds, WorkerFails, Idle
    <3>3. WorkerLists => worker'.todo = worker.todo
      BY DEF WorkerLists, WorkerType
    <3> QED BY <1>1, <3>1, <3>2, <3>3
  <2> QED BY <1>1, <2>1, OrderKept DEF WorkerStarts, WorkerLists, WorkerEnds, WorkerFails, archive,
                                       ghost, Candidates
<1>2. ASSUME NEW s \in Snapshots, WorkerLoads(s) PROVE RowsExact' /\ Orderly'
  <2>1. worker'.todo \subseteq worker.todo \cup archived
    BY <1>2 DEF WorkerLoads, WorkerType, Readable
  <2> QED BY <1>2, <2>1, OrderKept DEF WorkerLoads, archive, ghost, Candidates
<1>3. CASE WorkerLoadsCurrent
  <2>1. worker'.todo \subseteq worker.todo \cup archived
    BY <1>3 DEF WorkerLoadsCurrent, WorkerType, Idle, Inv, Files
  <2> QED BY <1>3, <2>1, OrderKept DEF WorkerLoadsCurrent, archive, ghost, Candidates
<1>4. CASE WorkerChecks
  <2>1. worker'.todo \subseteq worker.todo
    <3>1. CASE Oldest \in markers
      BY <1>4, <3>1, DoneTyped DEF WorkerChecks
    <3>2. CASE Oldest \notin markers
      BY <1>4, <3>2 DEF WorkerChecks, WorkerType
    <3> QED BY <3>1, <3>2
  <2> QED BY <1>4, <2>1, OrderKept DEF WorkerChecks, archive, ghost, Candidates
<1>5. ASSUME NEW s \in Snapshots, Damage(s) PROVE RowsExact' /\ Orderly'
  BY <1>5, OrderKept DEF Damage, ghost, Candidates
<1>6. ASSUME NEW s \in Snapshots, Render(s) PROVE RowsExact' /\ Orderly'
  <2>1. page'.shows \in archived
    BY <1>6 DEF Render, Inv, Files
  <2> QED BY <1>6, <2>1, OrderKept DEF Render, archive, ghost, Candidates
<1>7. CASE PageStamps
  <2>1. page'.shows = page.shows
    BY <1>7 DEF PageStamps, Inv, TypeOK
  <2> QED BY <1>7, <2>1, OrderKept DEF PageStamps, archive, ghost, Candidates
<1> QED BY <1>1, <1>2, <1>3, <1>4, <1>5, <1>6, <1>7

\* A new snapshot is newer than all that were ingested.
LEMMA PublishOrder ==
    ASSUME Inv, NEW c \in Contents, Publish(c)
    PROVE  RowsExact' /\ Orderly'
<1>1. /\ published' = published + 1 /\ published \in Nat
      /\ archived' \subseteq archived \cup {published'} /\ archived \subseteq 1 .. published
  BY NewestArchived
<1>2. /\ contents' = [contents EXCEPT ![published + 1] = c]
      /\ UNCHANGED <<worker, page, db, desk, ghost>>
  BY DEF Publish
<1>3. markers \subseteq 1 .. published
  BY DEF Inv, TypeOK
<1>4. \A s \in 1 .. published : contents'[s] = contents[s]
  BY <1>1, <1>2 DEF Inv, TypeOK
<1>5. Candidates \subseteq 1 .. published
  BY CandidatesPublished
<1>6. Candidates' \subseteq Candidates \cup {published'}
  BY <1>1, <1>2 DEF Candidates
<1>7. \A r \in markers : r < published'
  BY <1>1, <1>3
<1>8. RowsExact' /\ \A g \in Signals \ ahead : InOrder(g)'
  BY <1>2, <1>3, <1>4, <1>5, <1>6, <1>7, RowsKept DEF db, ghost
<1>9. \A g \in Signals \ ahead : Remembered(g)'
  BY <1>2, <1>3, <1>4, DecisionsKept DEF db, ghost
<1> QED BY <1>2, <1>8, <1>9 DEF Orderly, ghost

\* The analyst decides, or reopens what was decided.
LEMMA DeskOrder ==
    ASSUME Inv, DecisionCommits \/ \E g \in Signals : Decide(g) \/ Reopen(g)
    PROVE  RowsExact' /\ Orderly'
<1>1. UNCHANGED <<archive, worker, page, markers, signal, ghost>>
  BY DEF DecisionCommits, Decide, Reopen, db
<1>2. RowsExact' /\ \A g \in Signals \ ahead : InOrder(g)'
  BY <1>1, RowsKept DEF archive, ghost, Candidates
<1>3. \A g \in Signals : /\ Ingested(g)' = Ingested(g)
                         /\ \A seen \in Ingested(g) : Since(g, seen)' = Since(g, seen)
  BY <1>1, SameIngested DEF archive, ghost
<1>4. \A g \in Signals : \A stamp, seen : Remembers(g, stamp, seen) => Remembers(g, stamp, seen)'
  BY <1>1, <1>3 DEF Remembers
<1>5. \A g \in Signals \ ahead : Remembered(g)
  BY DEF Inv, Orderly
<1>6. ASSUME NEW g \in Signals \ ahead PROVE Remembered(g)'
  <2>1. CASE DecisionCommits
    <3>1. desk' = NoDesk
      BY <2>1 DEF DecisionCommits
    <3>2. \/ ticket'[g] = ticket[g]
          \/ /\ desk # NoDesk /\ desk.signal = g
             /\ ticket'[g] = [status |-> "decided", decided |-> desk.stamp, seen |-> desk.seen]
      BY <2>1 DEF DecisionCommits, Inv, TypeOK
    <3>3. CASE ticket'[g] = ticket[g]
      <4>1. ticket[g].status = "decided" => Remembers(g, ticket[g].decided, ticket[g].seen)
        BY <1>5 DEF Remembered
      <4> QED BY <1>4, <3>1, <3>3, <4>1 DEF Remembered
    <3>4. CASE /\ desk # NoDesk /\ desk.signal = g
               /\ ticket'[g] = [status |-> "decided", decided |-> desk.stamp, seen |-> desk.seen]
      <4>1. PICK stamp, seen : stamp = desk.stamp /\ seen = desk.seen
        OBVIOUS
      <4>2. Remembers(g, stamp, seen)'
        BY <1>4, <1>5, <3>4, <4>1 DEF Remembered
      <4>3. ticket'[g].decided = stamp /\ ticket'[g].seen = seen
        BY <3>4, <4>1
      <4> QED BY <3>1, <4>2, <4>3 DEF Remembered
    <3> QED BY <3>2, <3>3, <3>4
  <2>2. ASSUME NEW h \in Signals, Decide(h) PROVE Remembered(g)'
    <3>1. /\ ticket' = ticket /\ signal[h] # NoSignal
          /\ desk' = [signal |-> h, stamp |-> clock + 1, seen |-> signal[h].at]
      BY <2>2 DEF Decide, db
    <3>2. ticket[g].status = "decided" => Remembers(g, ticket[g].decided, ticket[g].seen)
      BY <1>5 DEF Remembered
    <3>3. Remembers(h, clock + 1, signal[h].at)
      <4>1. signal[h].at \in Ingested(h)
        BY <3>1 DEF Inv, RowsExact, RowExact
      <4>2. signal[h].changed <= clock /\ signal[h].changed \in Nat /\ clock \in Nat
        BY DEF Inv, Times, TypeOK, Rows
      <4> QED BY <4>1, <4>2 DEF Remembers
    <3>4. desk'.signal = h /\ desk'.stamp = clock + 1 /\ desk'.seen = signal[h].at
      BY <3>1
    <3> QED BY <1>4, <3>1, <3>2, <3>3, <3>4 DEF Remembered
  <2>3. ASSUME NEW h \in Signals, Reopen(h) PROVE Remembered(g)'
    <3>1. desk' = desk /\ ticket' = [ticket EXCEPT ![h] = [NoTicket EXCEPT !.status = "open"]]
      BY <2>3 DEF Reopen
    <3>2. ticket'[g] = ticket[g] \/ ticket'[g].status # "decided"
      BY <3>1 DEF Inv, TypeOK, NoTicket
    <3>3. ticket[g].status = "decided" => Remembers(g, ticket[g].decided, ticket[g].seen)
      BY <1>5 DEF Remembered
    <3>4. desk # NoDesk /\ desk.signal = g => Remembers(g, desk.stamp, desk.seen)
      BY <1>5 DEF Remembered
    <3> QED BY <1>4, <3>1, <3>2, <3>3, <3>4 DEF Remembered
  <2> QED BY <2>1, <2>2, <2>3
<1> QED BY <1>1, <1>2, <1>6 DEF Orderly, ghost

\* The pruning script forgets whole signals, with their tickets and what was ingested of them.
LEMMA PruneOrder ==
    ASSUME Inv, NEW K \in SUBSET Signals, Prune(K)
    PROVE  RowsExact' /\ Orderly'
<1>1. /\ UNCHANGED <<archive, worker, page, markers, desk, ahead>> /\ desk = NoDesk
      /\ signal' = [g \in Signals |-> IF g \in K THEN signal[g] ELSE NoSignal]
      /\ ticket' = [g \in Signals |-> IF g \in K THEN ticket[g] ELSE NoTicket]
      /\ forgotten' = [g \in Signals |-> IF g \in K THEN forgotten[g] ELSE markers]
  BY DEF Prune, Pruned
<1>2. \A g \in Signals \ K : Ingested(g)' = {}
  BY <1>1 DEF Ingested
<1>3. \A g \in K : /\ Ingested(g)' = Ingested(g)
                   /\ \A seen \in Ingested(g) : Since(g, seen)' = Since(g, seen)
  BY <1>1, SameIngested DEF archive
<1>4. RowsExact'
  <2>1. ASSUME NEW g \in K PROVE RowExact(g)'
    BY <1>1, <1>3, <2>1 DEF Inv, RowsExact, RowExact, archive
  <2>2. ASSUME NEW g \in Signals \ K PROVE RowExact(g)'
    BY <1>1, <1>2, <2>2, FS_EmptySet DEF RowExact, NoSignal
  <2> QED BY <2>1, <2>2 DEF RowsExact
<1>5. ASSUME NEW g \in Signals \ ahead PROVE InOrder(g)' /\ Remembered(g)'
  <2>1. CASE g \in K
    <3>1. InOrder(g) /\ Remembered(g)
      BY DEF Inv, Orderly
    <3>2. Candidates' = Candidates
      BY <1>1 DEF Candidates, archive
    <3>3. signal'[g] = signal[g] /\ ticket'[g] = ticket[g]
      BY <1>1, <2>1
    <3>4. InOrder(g)'
      BY <1>1, <1>3, <2>1, <3>1, <3>2, <3>3 DEF InOrder, Known, archive
    <3>5. Remembered(g)'
      BY <1>1, <1>3, <2>1, <3>1, <3>3 DEF Remembered, Remembers
    <3> QED BY <3>4, <3>5
  <2>2. CASE g \notin K
    BY <1>1, <1>2, <2>2 DEF InOrder, Remembered, NoTicket
  <2> QED BY <2>1, <2>2
<1> QED BY <1>1, <1>4, <1>5 DEF Orderly

\* The transaction of a candidate: those that were waiting before it put its signals ahead.
LEMMA CommitOrder ==
    ASSUME Inv, NEW s \in Candidates, NEW stamp \in Nat, NEW waiting, Commit(s, stamp, waiting),
           UNCHANGED <<contents, desk, forgotten>>,
           Candidates' \subseteq Candidates,
           \A q \in Candidates' : q \in waiting \/ q >= s
    PROVE  RowsExact' /\ Orderly'
<1>0. CASE Marked(s)
  BY <1>0, OrderKept DEF Commit, db
<1>1. CASE ~Marked(s)
  <2>1. /\ ticket' = ticket /\ s \notin markers
        /\ signal' = [g \in Signals |-> Row(g, s, stamp)]
        /\ markers' = markers \cup {s}
        /\ ahead' = ahead \cup {g \in Signals :
                                   \E r \in waiting \ markers : r \in 1 .. s - 1 /\ Known(g, r)}
    BY <1>1 DEF Commit, Marked
  <2>2. s \in Nat \ {0} /\ Candidates \subseteq Nat \ {0}
    BY CandidatesPublished
  <2>3. \A g \in Signals : /\ Ingested(g) \subseteq markers /\ markers \subseteq Nat
                           /\ IsFiniteSet(Ingested(g)) /\ RowExact(g)
    BY IngestedFinite DEF Inv, RowsExact
  <2>4. ASSUME NEW g \in Signals, Known(g, s)
        PROVE  /\ Ingested(g)' = Ingested(g) \cup {s}
               /\ signal[g].at # s
               /\ signal'[g].at = s /\ signal'[g].payload = contents[s][g]
               /\ signal'[g].count = signal[g].count + 1
               /\ signal'[g].changed = IF signal[g].payload # contents[s][g] THEN stamp
                                       ELSE signal[g].changed
    <3>1. Ingested(g)' = Ingested(g) \cup {s}
      BY <2>1, <2>3, <2>4 DEF Ingested, Known, RowExact
    <3>2. signal[g].at # s
      BY <2>1, <2>2, <2>3 DEF RowExact, NoSignal, None
    <3> QED BY <2>1, <2>4, <3>1, <3>2 DEF Row
  <2>5. ASSUME NEW g \in Signals, ~Known(g, s)
        PROVE  Ingested(g)' = Ingested(g) /\ signal'[g] = signal[g]
    BY <2>1, <2>5 DEF Ingested, Known, Row
  <2>6. RowsExact'
    <3>1. ASSUME NEW g \in Signals, Known(g, s) PROVE RowExact(g)'
      <4>1. Cardinality(Ingested(g) \cup {s}) = Cardinality(Ingested(g)) + 1
        BY <2>1, <2>3, FS_AddElement
      <4>2. forgotten[g] \subseteq markers' /\ signal[g].count = Cardinality(Ingested(g))
        BY <2>1, <2>3 DEF RowExact
      <4> QED BY <2>4, <3>1, <4>1, <4>2 DEF RowExact
    <3>2. ASSUME NEW g \in Signals, ~Known(g, s) PROVE RowExact(g)'
      BY <2>1, <2>3, <2>5, <3>2 DEF RowExact
    <3> QED BY <3>1, <3>2 DEF RowsExact
  <2>7. ASSUME NEW g \in Signals \ ahead' PROVE InOrder(g)' /\ Remembered(g)'
    <3>1. /\ g \in Signals \ ahead
          /\ \A r \in waiting \ markers : r \in 1 .. s - 1 => ~Known(g, r)
      BY <2>1, <2>7
    <3>2. InOrder(g) /\ Remembered(g)
      BY <3>1 DEF Inv, Orderly
    <3>3. ASSUME NEW q \in Candidates' \ markers', Known(g, q)' PROVE q > s
      <4>1. q \in Nat \ {0} /\ q \in Candidates \ markers /\ q # s /\ Known(g, q)
        BY <2>1, <2>2, <3>3 DEF Known
      <4> QED BY <2>2, <3>1, <4>1
    <3>4. CASE Known(g, s)
      <4>1. \A r \in Ingested(g) : r < s
        BY <2>1, <3>2, <3>4 DEF InOrder
      <4>2. InOrder(g)'
        <5>1. \A r \in Ingested(g)' : r <= signal'[g].at
          BY <2>2, <2>3, <2>4, <3>4, <4>1
        <5>2. ASSUME NEW q \in Candidates' \ markers', Known(g, q)' PROVE \A r \in Ingested(g)' : r < q
          <6>1. q > s /\ q \in Nat /\ q \in Candidates \ markers /\ Known(g, q)
            BY <2>1, <2>2, <3>3, <5>2 DEF Known
          <6>2. \A r \in Ingested(g) : r < q
            BY <3>2, <6>1 DEF InOrder
          <6> QED BY <2>2, <2>4, <3>4, <6>1, <6>2
        <5> QED BY <5>1, <5>2 DEF InOrder
      <4>3. \A u \in Ingested(g) : {r \in Ingested(g) \cup {s} : r < u} = {r \in Ingested(g) : r < u}
        BY <2>2, <2>3, <4>1
      <4>4. {r \in Ingested(g) \cup {s} : r < s} = Ingested(g)
        BY <2>2, <4>1
      <4>5. ASSUME NEW time, NEW seen, Remembers(g, time, seen) PROVE Remembers(g, time, seen)'
        <5>1. seen \in Ingested(g)
          BY <4>5 DEF Remembers
        <5>2. Since(g, seen)' =
                {u \in Ingested(g) \cup {s} :
                   u > seen /\ contents[u][g] #
                               contents[Max({r \in Ingested(g) \cup {s} : r < u})][g]}
          BY <2>4, <3>4 DEF Since
        <5>3. Since(g, seen) \subseteq Since(g, seen)'
          BY <4>3, <5>2 DEF Since
        <5>4. CASE signal[g].payload = contents[s][g]
          BY <2>4, <3>4, <4>5, <5>1, <5>3, <5>4 DEF Remembers
        <5>5. CASE signal[g].payload # contents[s][g]
          <6>1. /\ signal[g].at \in Ingested(g) /\ signal[g].payload = contents[signal[g].at][g]
            BY <2>3, <5>1 DEF RowExact
          <6>2. Max(Ingested(g)) = signal[g].at
            BY <2>3, <3>2, <6>1, MaxElement DEF InOrder
          <6>3. s \in Since(g, seen)'
            BY <4>1, <4>4, <5>1, <5>2, <5>5, <6>1, <6>2
          <6> QED BY <2>4, <3>4, <5>1, <6>3 DEF Remembers
        <5> QED BY <5>4, <5>5
      <4>6. Remembered(g)'
        BY <2>1, <3>2, <4>5 DEF Remembered
      <4> QED BY <4>2, <4>6
    <3>5. CASE ~Known(g, s)
      <4>1. InOrder(g)'
        BY <2>1, <2>5, <3>2, <3>5 DEF InOrder, Known
      <4>2. \A seen : Since(g, seen)' = Since(g, seen)
        BY <2>5, <3>5 DEF Since
      <4>3. ASSUME NEW time, NEW seen, Remembers(g, time, seen) PROVE Remembers(g, time, seen)'
        BY <2>5, <3>5, <4>2, <4>3 DEF Remembers
      <4>4. Remembered(g)'
        BY <2>1, <3>2, <4>3 DEF Remembered
      <4> QED BY <4>1, <4>4
    <3> QED BY <3>4, <3>5
  <2> QED BY <2>1, <2>6, <2>7 DEF Orderly
<1> QED BY <1>0, <1>1

\* The transactions of the worker and of the page.
LEMMA WritersCommit ==
    ASSUME Inv, WorkerCommits \/ PageCommits
    PROVE  TypeOK' /\ Files' /\ Times' /\ RowsExact' /\ Orderly'
<1> USE WorkerTyped
<1> DEFINE s == IF WorkerCommits THEN Oldest ELSE page.shows
           stamp == IF WorkerCommits THEN worker.stamp ELSE page.stamp
           waiting == IF WorkerCommits THEN (archived \ worker.todo) \cup {page.shows}
                      ELSE archived \cup worker.todo
<1>1. Commit(s, stamp, waiting)
  BY DEF WorkerCommits, PageCommits
<1>2. s \in Candidates
  <2>1. CASE WorkerCommits
    BY <2>1, OldestCandidate DEF WorkerCommits, Inv, Files, Candidates
  <2>2. CASE ~WorkerCommits
    BY <2>2 DEF PageCommits, Inv, Files, Candidates, None
  <2> QED BY <2>1, <2>2
<1>3. /\ UNCHANGED <<archive, trigger, clock, desk, bounds, began, forgotten>>
      /\ ticket' = ticket
      /\ worker' = (IF WorkerCommits THEN Done ELSE worker)
      /\ page' = (IF WorkerCommits THEN page ELSE NoPage)
  BY DEF WorkerCommits, PageCommits, Commit
<1>4. Candidates' \subseteq Candidates
  BY <1>3, DoneTyped DEF archive, Candidates, NoPage
<1>5. \A q \in Candidates' : q \in waiting \/ q >= s
  <2>1. CASE WorkerCommits
    <3>1. Candidates' = archived \cup (worker.todo \ {Oldest}) \cup ({page.shows} \ {None})
      BY <1>3, <2>1, DoneTyped DEF archive, Candidates
    <3>2. \A q \in worker.todo : q >= Oldest
      <4>1. worker.todo # {}
        BY <2>1 DEF WorkerCommits, Inv, Files
      <4>2. worker.todo \subseteq Nat /\ Oldest \in worker.todo
            /\ \A q \in worker.todo : Oldest <= q
        BY <4>1, OldestCandidate DEF Inv, Snapshots
      <4> QED BY <4>2
    <3> QED BY <2>1, <3>1, <3>2
  <2>2. CASE ~WorkerCommits
    BY <1>3, <2>2 DEF archive, Candidates, NoPage
  <2> QED BY <2>1, <2>2
<1>6. /\ stamp \in Nat /\ stamp <= clock
  BY DEF Inv, TypeOK, Times
<1>7. s \in 1 .. published /\ s \in Snapshots
  BY <1>2, CandidatesPublished
<1> HIDE DEF s, stamp, waiting
<1>8. RowsExact' /\ Orderly'
  BY <1>1, <1>2, <1>3, <1>4, <1>5, <1>6, CommitOrder DEF archive
<1>9. /\ markers' \subseteq 1 .. published /\ markers \subseteq markers'
      /\ ahead' \subseteq Signals
  BY <1>1, <1>7 DEF Commit, Inv, TypeOK
<1>10. signal' \in [Signals -> Rows] /\ \A g \in Signals : signal'[g].changed <= clock
  <2>1. CASE Marked(s)
    BY <1>1, <2>1 DEF Commit, Inv, TypeOK, Times
  <2>2. CASE ~Marked(s)
    <3>1. signal' = [g \in Signals |-> Row(g, s, stamp)]
      BY <1>1, <2>2 DEF Commit
    <3>2. ASSUME NEW g \in Signals
          PROVE  /\ Row(g, s, stamp) \in Rows
                 /\ Row(g, s, stamp).changed <= clock
      <4>1. /\ signal[g] \in Rows /\ signal[g].changed <= clock /\ signal[g].changed \in Nat
            /\ signal[g].count \in Nat
        BY DEF Inv, TypeOK, Times, Rows
      <4>2. CASE ~Known(g, s) \/ signal[g].at = s
        BY <4>1, <4>2 DEF Row
      <4>3. CASE ~(~Known(g, s) \/ signal[g].at = s)
        <5> DEFINE row == [at |-> s, payload |-> contents[s][g], count |-> signal[g].count + 1,
                           changed |-> IF signal[g].payload # contents[s][g] THEN stamp
                                       ELSE signal[g].changed]
        <5>1. Row(g, s, stamp) = row
          BY <4>3 DEF Row
        <5>2. row.changed \in Nat /\ row.changed <= clock
          BY <1>6, <4>1
        <5>3. contents[s][g] \in Payloads \cup {Absent}
          BY <1>7 DEF Inv, TypeOK, Contents
        <5>4. row.at \in 0 .. MaxSnapshots
          BY <1>7, IngestAssumption DEF Snapshots
        <5>5. row.count \in 0 .. MaxSnapshots
          <6>1. signal'[g].count = Cardinality(Ingested(g)') /\ signal'[g] = row
            BY <1>8, <3>1, <5>1 DEF RowsExact, RowExact
          <6>2. markers' \in SUBSET Snapshots /\ Ingested(g)' \subseteq markers'
            BY <1>9 DEF Ingested
          <6>3. IsFiniteSet(Snapshots) /\ Cardinality(Snapshots) <= MaxSnapshots
            <7>1. 1 \in Int /\ MaxSnapshots \in Int /\ MaxSnapshots \in Nat
              BY IngestAssumption
            <7>2. /\ IsFiniteSet(1 .. MaxSnapshots)
                  /\ Cardinality(1 .. MaxSnapshots) =
                       IF 1 > MaxSnapshots THEN 0 ELSE MaxSnapshots - 1 + 1
              BY <7>1, FS_Interval
            <7> QED BY <7>1, <7>2 DEF Snapshots
          <6>4. /\ IsFiniteSet(Ingested(g)')
                /\ Cardinality(Ingested(g)') <= Cardinality(Snapshots)
            BY <6>2, <6>3, FS_Subset
          <6>5. Cardinality(Ingested(g)') \in Nat /\ Cardinality(Snapshots) \in Nat
            BY <6>3, <6>4, FS_CardinalityType
          <6> HIDE DEF row
          <6> QED BY <6>1, <6>3, <6>4, <6>5, IngestAssumption
        <5>6. row \in Rows
          BY <5>2, <5>3, <5>4, <5>5 DEF Rows
        <5> QED BY <5>1, <5>2, <5>6
      <4> QED BY <4>2, <4>3
    <3> QED BY <3>1, <3>2
  <2> QED BY <2>1, <2>2
<1>11. /\ page' \in [shows : 0 .. MaxSnapshots, stamp : Nat]
       /\ page'.shows \in 0 .. published /\ page'.stamp <= clock
       /\ page'.shows = None => page'.stamp = None
  BY <1>3, IngestAssumption DEF Inv, TypeOK, Files, Times, NoPage, None
<1>12. /\ worker' \in WorkerType /\ worker'.todo \subseteq worker.todo
       /\ worker'.left = worker.left /\ worker'.known = worker.known /\ worker'.stamp <= clock
       /\ worker'.at = "committing" => worker' = worker
       /\ worker'.at \in {"ingesting", "committing"} => worker'.left = {}
  <2>1. CASE WorkerCommits
    BY <1>3, <2>1, DoneTyped DEF WorkerCommits, Inv, Files
  <2>2. CASE ~WorkerCommits
    BY <1>3, <2>2 DEF Inv, Files, Times
  <2> QED BY <2>1, <2>2
<1>13. TypeOK'
  BY <1>3, <1>9, <1>10, <1>11, <1>12 DEF Inv, TypeOK, WorkerType, archive, bounds
<1>14. Files' /\ Times'
  BY <1>3, <1>9, <1>10, <1>11, <1>12 DEF Inv, Files, Times, archive, bounds
<1> QED BY <1>8, <1>13, <1>14
-----------------------------------------------------------------------------
(* What the worker has in hand.                                             *)

\* What is left to load, to ingest, or ingested: nothing falls out of it but what the worker
\* cannot read or has ingested already.
Hands == worker.left \cup worker.todo \cup markers

\* A step in which the worker keeps its place and nothing becomes readable.
LEMMA HandsKept ==
    ASSUME Inv, worker'.at = worker.at, began' = began, Hands \subseteq Hands',
           \A s \in began : Readable(s)' => Readable(s),
           faults' = 0 => /\ faults = 0
                          /\ trigger' \/ (~trigger /\ archived' \subseteq archived)
    PROVE  Swept' /\ Attended'
<1>1. Swept'
  BY DEF Inv, Swept, Hands
<1>2. Attended'
  BY DEF Inv, Attended, Hands
<1> QED BY <1>1, <1>2

LEMMA WorkerHands ==
    ASSUME Inv, \/ WorkerStarts \/ WorkerLists \/ (\E s \in Snapshots : WorkerLoads(s))
                \/ WorkerLoadsCurrent \/ WorkerChecks \/ WorkerCommits \/ WorkerEnds \/ WorkerFails
    PROVE  Swept' /\ Attended'
<1> USE WorkerTyped
<1>1. CASE WorkerStarts
  <2>1. worker'.at = "listing"
    BY <1>1 DEF WorkerStarts, Idle
  <2> QED BY <2>1 DEF Swept, Attended
<1>2. CASE WorkerLists
  <2>1. /\ worker'.left = archived /\ worker'.at = "loading"
        /\ UNCHANGED <<archive, trigger, page, clock, db, desk, bounds, ghost>>
    BY <1>2 DEF WorkerLists, WorkerType
  <2> QED BY <2>1 DEF Swept, Attended, Readable, archive
<1>3. ASSUME NEW s \in Snapshots, WorkerLoads(s) PROVE Swept' /\ Attended'
  <2>1. /\ worker'.at = "loading" /\ worker.at = "loading"
        /\ worker'.left = worker.left \ {s}
        /\ worker'.todo = IF Readable(s) /\ s \notin worker.known THEN worker.todo \cup {s}
                          ELSE worker.todo
        /\ UNCHANGED <<archive, trigger, page, clock, db, desk, bounds, ghost>>
    BY <1>3 DEF WorkerLoads, WorkerType, Left
  <2>2. worker.known \subseteq markers /\ (faults = 0 => damaged = {})
    BY DEF Inv, Files
  <2>3. Swept'
    BY <2>1, <2>2 DEF Inv, Swept, Readable, archive, ghost, db
  <2>4. Attended'
    BY <2>1, <2>2 DEF Inv, Attended, Readable, archive, db, bounds
  <2> QED BY <2>3, <2>4
<1>4. CASE WorkerLoadsCurrent
  <2>1. /\ worker.at = "loading" /\ worker.left = {}
        /\ UNCHANGED <<archive, trigger, page, clock, db, desk, bounds, ghost>>
    BY <1>4 DEF WorkerLoadsCurrent
  <2>2. CASE published = None \/ published \in damaged
    <3>1. worker' = Idle
      BY <1>4, <2>2 DEF WorkerLoadsCurrent
    <3>2. faults = 0 => archived = {}
      BY <2>2 DEF Inv, TypeOK, Files, None
    <3> QED BY <2>1, <3>1, <3>2 DEF Swept, Attended, Idle, archive, bounds
  <2>3. CASE ~(published = None \/ published \in damaged)
    <3>1. /\ worker'.at = "ingesting" /\ worker'.left = worker.left
          /\ worker.todo \subseteq worker'.todo
      BY <1>4, <2>3 DEF WorkerLoadsCurrent, WorkerType
    <3>2. Swept'
      BY <2>1, <3>1 DEF Inv, Swept, Readable, archive, ghost, db
    <3>3. Attended'
      BY <2>1, <3>1 DEF Inv, Attended, archive, bounds, db
    <3> QED BY <3>2, <3>3
  <2> QED BY <2>2, <2>3
<1>5. CASE WorkerChecks
  <2>1. /\ worker.at = "ingesting" /\ worker'.at \in {"ingesting", "committing"}
        /\ worker'.left = worker.left /\ worker.todo \subseteq worker'.todo \cup markers
        /\ UNCHANGED <<archive, trigger, page, db, desk, bounds, ghost>>
    <3>1. CASE Oldest \in markers
      BY <1>5, <3>1, DoneTyped DEF WorkerChecks
    <3>2. CASE Oldest \notin markers
      BY <1>5, <3>2 DEF WorkerChecks, WorkerType
    <3> QED BY <3>1, <3>2
  <2>2. Swept'
    BY <2>1 DEF Inv, Swept, Readable, archive, ghost, db
  <2>3. Attended'
    BY <2>1 DEF Inv, Attended, archive, bounds, db
  <2> QED BY <2>2, <2>3
<1>6. CASE WorkerCommits
  <2>1. /\ worker.at = "committing" /\ worker'.at = "ingesting"
        /\ worker'.left = worker.left /\ worker'.todo = worker.todo \ {Oldest}
        /\ UNCHANGED <<archive, trigger, bounds, began>>
    BY <1>6, DoneTyped DEF WorkerCommits
  <2>2. Oldest \in markers' /\ markers \subseteq markers'
    BY <1>6 DEF WorkerCommits, Commit, Marked
  <2>3. Swept'
    BY <2>1, <2>2 DEF Inv, Swept, Readable, archive
  <2>4. Attended'
    BY <2>1, <2>2 DEF Inv, Attended, archive, bounds
  <2> QED BY <2>3, <2>4
<1>7. CASE WorkerEnds
  <2>1. worker' = Idle /\ worker.left = {} /\ worker.todo = {} /\ worker.at = "ingesting"
        /\ UNCHANGED <<archive, trigger, db, bounds>>
    BY <1>7 DEF WorkerEnds, Inv, Files
  <2> QED BY <2>1 DEF Inv, Swept, Attended, Idle, archive, db, bounds
<1>8. CASE WorkerFails
  <2>1. worker' = Idle /\ faults' = faults + 1 /\ faults \in Nat
    BY <1>8, IngestAssumption DEF WorkerFails, Fault, Inv, TypeOK
  <2> QED BY <2>1 DEF Swept, Attended, Idle
<1> QED BY <1>1, <1>2, <1>3, <1>4, <1>5, <1>6, <1>7, <1>8

LEMMA OtherHands ==
    ASSUME Inv, \/ (\E c \in Contents : Publish(c))
                \/ (\E s \in Snapshots : Damage(s) \/ Render(s))
                \/ PageStamps \/ PageCommits \/ DecisionCommits
                \/ (\E g \in Signals : Decide(g) \/ Reopen(g))
                \/ (\E K \in SUBSET Signals : Prune(K))
    PROVE  Swept' /\ Attended'
<1>0. faults \in Nat
  BY IngestAssumption DEF Inv, TypeOK
<1>1. ASSUME NEW c \in Contents, Publish(c) PROVE Swept' /\ Attended'
  <2>1. /\ published' = published + 1 /\ published \in Nat
        /\ archived' \subseteq archived \cup {published'}
    BY <1>1, NewestArchived
  <2>2. UNCHANGED <<damaged, worker, markers, began>>
    BY <1>1 DEF Publish, db, ghost
  <2>3. faults' = 0 => trigger' /\ faults = 0
    BY <1>0, <1>1 DEF Publish, Fault, bounds
  <2>4. \A s \in began : Readable(s)' => Readable(s)
    <3>1. \A s \in began : s # published'
      BY <2>1 DEF Inv, Files
    <3> QED BY <2>1, <2>2, <3>1 DEF Readable
  <2> QED BY <2>2, <2>3, <2>4, HandsKept DEF Hands
<1>2. ASSUME NEW s \in Snapshots, Damage(s) PROVE Swept' /\ Attended'
  BY <1>0, <1>2, HandsKept DEF Damage, Fault, Hands, Readable, db, ghost
<1>3. ASSUME NEW s \in Snapshots, Render(s) PROVE Swept' /\ Attended'
  BY <1>3, HandsKept DEF Render, Hands, Readable, archive, db, bounds, ghost
<1>4. CASE PageStamps
  BY <1>4, HandsKept DEF PageStamps, Hands, Readable, archive, db, bounds, ghost
<1>5. CASE PageCommits
  <2>1. markers \subseteq markers'
    BY <1>5 DEF PageCommits, Commit
  <2> QED BY <1>5, <2>1, HandsKept DEF PageCommits, Hands, Readable, archive, bounds
<1>6. ASSUME DecisionCommits \/ \E g \in Signals : Decide(g) \/ Reopen(g)
      PROVE  Swept' /\ Attended'
  <2>1. UNCHANGED <<archive, trigger, worker, markers, began, faults>>
    BY <1>6 DEF DecisionCommits, Decide, Reopen, db, bounds, ghost
  <2> QED BY <2>1, HandsKept DEF Hands, Readable, archive
<1>7. ASSUME NEW K \in SUBSET Signals, Prune(K) PROVE Swept' /\ Attended'
  BY <1>7, HandsKept DEF Prune, Hands, Readable, archive, bounds
<1> QED BY <1>1, <1>2, <1>3, <1>4, <1>5, <1>6, <1>7
-----------------------------------------------------------------------------
LEMMA InvStep == Inv /\ [Next]_vars => Inv'
<1> SUFFICES ASSUME Inv, [Next]_vars PROVE Inv'
  OBVIOUS
<1>1. CASE \/ WorkerStarts \/ WorkerLists \/ (\E s \in Snapshots : WorkerLoads(s))
           \/ WorkerLoadsCurrent \/ WorkerChecks \/ WorkerEnds \/ WorkerFails
  BY <1>1, WorkerFiles, QuietOrder, WorkerHands DEF Inv
<1>2. CASE WorkerCommits
  BY <1>2, WritersCommit, WorkerHands DEF Inv
<1>3. CASE PageCommits
  BY <1>3, WritersCommit, OtherHands DEF Inv
<1>4. ASSUME NEW c \in Contents, Publish(c) PROVE Inv'
  BY <1>4, OtherFiles, PublishOrder, OtherHands DEF Inv
<1>5. CASE (\E s \in Snapshots : Damage(s) \/ Render(s)) \/ PageStamps
  BY <1>5, OtherFiles, QuietOrder, OtherHands DEF Inv
<1>6. CASE DecisionCommits \/ \E g \in Signals : Decide(g) \/ Reopen(g)
  BY <1>6, OtherFiles, DeskOrder, OtherHands DEF Inv
<1>7. ASSUME NEW K \in SUBSET Signals, Prune(K) PROVE Inv'
  BY <1>7, OtherFiles, PruneOrder, OtherHands DEF Inv
<1>8. CASE UNCHANGED vars
  <2>1. UNCHANGED <<contents, db, desk, forgotten, ahead>> /\ Candidates' \subseteq Candidates
    BY <1>8 DEF vars, archive, ghost, Candidates
  <2>2. RowsExact' /\ Orderly'
    BY <2>1, OrderKept
  <2>3. TypeOK' /\ Files' /\ Times'
    BY <1>8 DEF vars, archive, db, bounds, ghost, Inv, TypeOK, Files, Times
  <2>4. Swept' /\ Attended'
    BY <1>8, HandsKept DEF vars, archive, db, bounds, ghost, Hands, Readable
  <2> QED BY <2>2, <2>3, <2>4 DEF Inv
<1> QED BY <1>1, <1>2, <1>3, <1>4, <1>5, <1>6, <1>7, <1>8 DEF Next, Works

LEMMA InvAlways == Spec => []Inv
  BY InvInit, InvStep, PTL DEF Spec

\* Page and worker ingest each snapshot once: whatever they, the analyst and the pruning
\* interleave or repeat, a signal counts the snapshots that tell of it.
THEOREM DatabaseTheorem == Spec => []DatabaseExact
<1>1. Inv => DatabaseExact
  BY DEF Inv, DatabaseExact, CountsOnce, RowsExact, RowExact
<1> QED BY <1>1, InvAlways, PTL

\* A run of the worker that gets to its end has ingested what was archived when it began and
\* can still be read, however many deaths, missed triggers and damaged objects came before.
THEOREM NothingLostTheorem == Spec => []NothingLost
<1>1. Inv => NothingLost
  BY DEF Inv, Files, Swept, NothingLost
<1> QED BY <1>1, InvAlways, PTL

\* A signal holds the latest of its observations, unless a snapshot was ingested ahead of it.
THEOREM NewestEvidenceTheorem == Spec => []NewestEvidence
<1>1. ASSUME Inv, NEW g \in Signals \ ahead, Ingested(g) # {}
      PROVE  signal[g].at = Max(Ingested(g))
  <2>1. signal[g].at \in Ingested(g) /\ Ingested(g) \in SUBSET Nat
    BY <1>1, IngestedFinite DEF Inv, RowsExact, RowExact
  <2>2. \A r \in Ingested(g) : r <= signal[g].at
    BY <1>1 DEF Inv, Orderly, InOrder
  <2> QED BY <2>1, <2>2, MaxElement
<1>2. Inv => NewestEvidence
  BY <1>1 DEF NewestEvidence
<1> QED BY <1>2, InvAlways, PTL

\* No decided signal comes back to the inbox without a change of its content after the
\* decision, and as long as nothing fails no archived snapshot is out of the worker's sight.
THEOREM AttentionTheorem == Spec => []AttentionExact
<1>1. ASSUME Inv, NEW g \in Signals, Decided(g), NeedsReview(g) PROVE Changes(g) # {}
  <2>1. /\ g \in Signals \ ahead /\ ticket[g].status = "decided"
        /\ signal[g].changed > ticket[g].decided
    BY <1>1 DEF Decided, NeedsReview, Newer
  <2>2. Since(g, ticket[g].seen) # {}
    BY <1>1, <2>1 DEF Inv, Orderly, Remembered, Remembers
  <2> QED BY <2>2 DEF Since, Changes
<1>2. Inv => AttentionExact
  BY <1>1 DEF Inv, AttentionExact, ReviewJustified
<1> QED BY <1>2, InvAlways, PTL
==============================================================================
