--------------------------- MODULE DeploymentProofs --------------------------
(***************************************************************************)
(* Proofs about Deployment, for any releases, operations, publications and  *)
(* faults: what the recovery markers of production tell, what the reports   *)
(* of both tools are worth, and where a promoted release has been before.   *)
(***************************************************************************)
EXTENDS Deployment, FiniteSetTheorems, TLAPS

(***************************************************************************)
(* Installations.                                                           *)
(***************************************************************************)

LEMMA Fields ==
    ASSUME NEW i \in Installations
    PROVE  /\ i.release \in Maybe /\ i.venv \in Maybe /\ i.unit \in Maybe /\ i.isvc \in Maybe
           /\ i.ipath \in Maybe /\ i.enabled \in BOOLEAN /\ i.runs \in Processes
           /\ i.watching \in BOOLEAN
           /\ i = [release |-> i.release, venv |-> i.venv, unit |-> i.unit, isvc |-> i.isvc,
                   ipath |-> i.ipath, enabled |-> i.enabled, runs |-> i.runs,
                   watching |-> i.watching]
  BY DEF Installations

\* Two installations with the same parts are the same.
LEMMA SameParts ==
    ASSUME NEW i \in Installations, NEW j \in Installations,
           i.release = j.release, i.venv = j.venv, i.unit = j.unit, i.isvc = j.isvc,
           i.ipath = j.ipath, i.enabled = j.enabled, i.runs = j.runs, i.watching = j.watching
    PROVE  i = j
  BY Fields

\* What an installation is apart from some of its parts.
Links(i, j) == i.release = j.release /\ i.venv = j.venv /\ i.unit = j.unit
Units(i, j) == i.isvc = j.isvc /\ i.ipath = j.ipath
App(i, j)   == i.enabled = j.enabled /\ i.runs = j.runs

LEMMA SetWatching ==
    ASSUME NEW i \in Installations, NEW x \in BOOLEAN, NEW j, j = [i EXCEPT !.watching = x]
    PROVE  /\ j \in Installations /\ j.watching = x
           /\ Links(i, j) /\ Units(i, j) /\ App(i, j)
  BY DEF Installations, Links, Units, App

LEMMA SetRelease ==
    ASSUME NEW i \in Installations, NEW x \in Maybe, NEW j, j = [i EXCEPT !.release = x]
    PROVE  /\ j \in Installations /\ j.release = x /\ j.venv = i.venv /\ j.unit = i.unit
           /\ j.watching = i.watching /\ Units(i, j) /\ App(i, j)
  BY DEF Installations, Units, App

LEMMA SetVenv ==
    ASSUME NEW i \in Installations, NEW x \in Maybe, NEW j, j = [i EXCEPT !.venv = x]
    PROVE  /\ j \in Installations /\ j.venv = x /\ j.release = i.release /\ j.unit = i.unit
           /\ j.watching = i.watching /\ Units(i, j) /\ App(i, j)
  BY DEF Installations, Units, App

LEMMA SetUnit ==
    ASSUME NEW i \in Installations, NEW x \in Maybe, NEW j, j = [i EXCEPT !.unit = x]
    PROVE  /\ j \in Installations /\ j.unit = x /\ j.release = i.release /\ j.venv = i.venv
           /\ j.watching = i.watching /\ Units(i, j) /\ App(i, j)
  BY DEF Installations, Units, App

LEMMA SetIsvc ==
    ASSUME NEW i \in Installations, NEW x \in Maybe, NEW j, j = [i EXCEPT !.isvc = x]
    PROVE  /\ j \in Installations /\ j.isvc = x /\ j.ipath = i.ipath
           /\ j.watching = i.watching /\ Links(i, j) /\ App(i, j)
  BY DEF Installations, Links, App

LEMMA SetIpath ==
    ASSUME NEW i \in Installations, NEW x \in Maybe, NEW j, j = [i EXCEPT !.ipath = x]
    PROVE  /\ j \in Installations /\ j.ipath = x /\ j.isvc = i.isvc
           /\ j.watching = i.watching /\ Links(i, j) /\ App(i, j)
  BY DEF Installations, Links, App

\* What a restart loads depends on the links alone.
LEMMA LoadedType ==
    ASSUME NEW i \in Installations
    PROVE  /\ Loaded(i) \in Processes
           /\ \A j : Links(i, j) => Loaded(j) = Loaded(i)
           /\ \A t \in Releases : i.release = t /\ i.venv = t => Loaded(i) \in {None, <<t, t>>}
           /\ \A t \in Releases : i.release = t /\ i.venv = t /\ i.unit = t => Loaded(i) = <<t, t>>
  BY ReleasesAssumption DEF Installations, Loaded, Processes, Maybe, Links

LEMMA WholeParts ==
    ASSUME NEW r \in Releases
    PROVE  /\ IngestUnit(r) \in Maybe /\ Whole(r) \in Installations
           /\ (r \in Ingesting) = (IngestUnit(r) # None)
  BY ReleasesAssumption DEF Whole, IngestUnit, Installations, Maybe, Processes

LEMMA WatchingParts ==
    ASSUME NEW i \in Installations, NEW x \in BOOLEAN
    PROVE  [i EXCEPT !.watching = x]
             = [release |-> i.release, venv |-> i.venv, unit |-> i.unit, isvc |-> i.isvc,
                ipath |-> i.ipath, enabled |-> i.enabled, runs |-> i.runs, watching |-> x]
<1> DEFINE a == [release |-> i.release, venv |-> i.venv, unit |-> i.unit, isvc |-> i.isvc,
                 ipath |-> i.ipath, enabled |-> i.enabled, runs |-> i.runs, watching |-> x]
           j == [i EXCEPT !.watching = x]
<1>1. a \in Installations
  BY Fields DEF Installations
<1>2. j \in Installations /\ j.watching = x /\ Links(i, j) /\ Units(i, j) /\ App(i, j)
  BY SetWatching
<1>3. /\ a.release = i.release /\ a.venv = i.venv /\ a.unit = i.unit /\ a.isvc = i.isvc
      /\ a.ipath = i.ipath /\ a.enabled = i.enabled /\ a.runs = i.runs /\ a.watching = x
  OBVIOUS
<1> HIDE DEF a, j
<1>4. j = a
  BY <1>1, <1>2, <1>3, SameParts DEF Links, Units, App
<1> QED BY <1>4 DEF a, j

\* Whether an installation is whole does not depend on the path unit, and shows in its parts.
LEMMA WholeIs ==
    ASSUME NEW i \in Installations
    PROVE  IsWhole(i) <=>
             \/ /\ i.release = None /\ i.venv = None /\ i.unit = None /\ i.isvc = None
                /\ i.ipath = None /\ i.enabled = FALSE /\ i.runs = None
             \/ \E r \in Releases :
                   /\ i.release = r /\ i.venv = r /\ i.unit = r /\ i.isvc = IngestUnit(r)
                   /\ i.ipath = IngestUnit(r) /\ i.enabled = TRUE /\ i.runs = <<r, r>>
<1> DEFINE a == [release |-> i.release, venv |-> i.venv, unit |-> i.unit, isvc |-> i.isvc,
                 ipath |-> i.ipath, enabled |-> i.enabled, runs |-> i.runs, watching |-> FALSE]
           w(r) == [release |-> r, venv |-> r, unit |-> r, isvc |-> IngestUnit(r),
                    ipath |-> IngestUnit(r), enabled |-> TRUE, runs |-> <<r, r>>,
                    watching |-> FALSE]
<1>1. [i EXCEPT !.watching = FALSE] = a
  BY WatchingParts
<1>2. \A r \in Releases : [Whole(r) EXCEPT !.watching = FALSE] = w(r)
  <2> TAKE r \in Releases
  <2>1. Whole(r) \in Installations
    BY WholeParts
  <2>2. /\ Whole(r).release = r /\ Whole(r).venv = r /\ Whole(r).unit = r
        /\ Whole(r).isvc = IngestUnit(r) /\ Whole(r).ipath = IngestUnit(r)
        /\ Whole(r).enabled = TRUE /\ Whole(r).runs = <<r, r>>
    BY DEF Whole
  <2> QED BY <2>1, <2>2, WatchingParts
<1>3. a = Nothing <=> /\ i.release = None /\ i.venv = None /\ i.unit = None /\ i.isvc = None
                      /\ i.ipath = None /\ i.enabled = FALSE /\ i.runs = None
  BY DEF Nothing
<1>4. \A r \in Releases : a = w(r) <=>
        /\ i.release = r /\ i.venv = r /\ i.unit = r /\ i.isvc = IngestUnit(r)
        /\ i.ipath = IngestUnit(r) /\ i.enabled = TRUE /\ i.runs = <<r, r>>
  OBVIOUS
<1> HIDE DEF a, w
<1> QED BY <1>1, <1>2, <1>3, <1>4 DEF IsWhole

(***************************************************************************)
(* The production operations: the inductive invariant.                     *)
(***************************************************************************)

\* The markers that tell of a mixture of parts, and those that tell of an ingest path left off.
Torn == {"mutation_starting", "restore_failed"}
Off  == Torn \cup {"preparation_starting"}

Others(o, ms) == \E p \in ProductionOps \ {o} : op[p].marker \in ms

\* What installation i lacks is told by a marker of an operation other than o.
Healthy(o, i) == /\ IsWhole(i) \/ Others(o, Torn)
                 /\ i.watching = (i.ipath # None) \/ Others(o, Off)

\* Where the marker of an operation stands.
MarkerTells(r) ==
    /\ r.pc \in {"idle", "planned", "locked", "mark1"} => r.marker = "none"
    /\ r.pc \in {"quiesce1", "archive", "inspect", "mark2"} => r.marker = "preparation_starting"
    /\ r.pc \in Resuming => r.marker \in {"none", "preparation_starting"}
    /\ r.pc \in Changing \cup Restoring => r.marker = "mutation_starting"
    /\ r.pc # "idle" => r.target \in Releases

\* What an activation to t has put in its place when it is at pc.
VenvSet == {"unit", "isvc", "ipath", "restart", "ready", "ingest", "watch", "verify",
            "again", "complete"}
Started == {"ready", "ingest", "watch", "verify", "again", "complete"}
Checked == {"again", "complete"}
Watched == {"verify", "again", "complete"}
Seen    == {"watch", "verify", "again", "complete"}

\* What is archived is ingested or about to be, but for what the operation missed; and for what
\* has become current since the first check, which the last check looks for.
Covered(pc, due0) ==
    \A n \in archived \cup {data} :
        \/ n <= done \/ due \/ n \in missed
        \/ pc # "complete" /\ n <= data /\ due0 < data

Forward(pc, t, due0) ==
    /\ pc \in VenvSet \cup {"venv"} => production.release = t
    /\ pc \in VenvSet => production.venv = t
    /\ pc \in VenvSet \ {"unit"} => production.unit = t
    /\ pc \in Started => production.runs = <<t, t>>
    /\ pc \in Watched => production.watching = (t \in Ingesting)
    /\ pc \in Seen /\ t \in Ingesting => Covered(pc, due0)
    /\ pc \in Checked => /\ production.isvc = IngestUnit(t) /\ production.ipath = IngestUnit(t)
                         /\ t \in Ingesting => done >= due0
    /\ pc = "complete" => production.enabled

\* What a restore has put back when it is at pc.
Unrolled == {"r_unit", "r_isvc", "r_ipath", "r_restart", "r_watch", "r_idle", "r_verify"}
Backward(pc) ==
    /\ pc \in Unrolled \cup {"r_venv"} => production.release = base.release
    /\ pc \in Unrolled => production.venv = base.venv
    /\ pc \in Unrolled \ {"r_unit"} => production.unit = base.unit
    /\ pc \in {"r_watch", "r_idle", "r_verify"} =>
         production.runs = IF base.runs = None THEN None ELSE Loaded(base)

\* A preparation leaves everything but the path unit as it was.
Kept(pc, m) ==
    /\ pc \in {"locked", "mark1", "p_idle"} \/ m = "none" => production = base
    /\ pc \in Preparing \cup {"mark2"} \cup Resuming =>
          production = [base EXCEPT !.watching = production.watching]

\* What the operation at work knows.
Work(o) ==
    /\ Healthy(o, base)
    /\ op[o].pc # "locked" => op[o].plan.before = base /\ op[o].plan.data \in 1..data
    /\ Kept(op[o].pc, op[o].marker)
    /\ Forward(op[o].pc, op[o].target, op[o].plan.data)
    /\ Backward(op[o].pc)

PInv == /\ TypeOK
        /\ \A o \in ProductionOps : MarkerTells(op[o])
        /\ lock = None => TornIsMarked
        /\ \A o \in ProductionOps : lock = o => Work(o)

(***************************************************************************)
(* How an operation changes.                                               *)
(***************************************************************************)

OnlyOf(o) == op' \in [ProductionOps -> Operations] /\ \A p \in ProductionOps \ {o} : op'[p] = op[p]

\* The operation goes on to a place, with a marker.
Became(o, to, m) ==
    /\ OnlyOf(o)
    /\ op'[o].pc = to /\ op'[o].marker = m
    /\ op'[o].target = op[o].target /\ op'[o].plan = op[o].plan /\ op'[o].kind = op[o].kind

Places == {"idle", "planned", "locked", "mark2", "end"} \cup Preparing \cup Changing
             \cup Restoring \cup Resuming

LEMMA StepBecomes ==
    ASSUME NEW o \in ProductionOps, op \in [ProductionOps -> Operations], NEW to \in Places,
           op' = [op EXCEPT ![o].pc = to]
    PROVE  Became(o, to, op[o].marker)
  BY DEF Became, OnlyOf, Operations, Places

LEMMA MarkBecomes ==
    ASSUME NEW o \in ProductionOps, op \in [ProductionOps -> Operations], NEW to \in Places,
           NEW m \in Markers, op' = [op EXCEPT ![o].pc = to, ![o].marker = m]
    PROVE  Became(o, to, m)
  BY DEF Became, OnlyOf, Operations, Places

LEMMA NoPlanType == NoPlan \in Plans /\ Nothing \in Installations /\ None \in Maybe
  BY DEF NoPlan, Plans, Nothing, Installations, Maybe, Processes

LEMMA EndBecomes ==
    ASSUME NEW o \in ProductionOps, op \in [ProductionOps -> Operations],
           NEW m \in Markers, op' = [op EXCEPT ![o].pc = "end", ![o].marker = m, ![o].plan = NoPlan]
    PROVE  /\ OnlyOf(o) /\ op'[o].pc = "end" /\ op'[o].marker = m
           /\ op'[o].target = op[o].target
  BY NoPlanType DEF OnlyOf, Operations

(***************************************************************************)
(* The invariant over the kinds of steps.                                  *)
(***************************************************************************)

\* The variables but for the operations.
Typed == /\ production \in Installations
         /\ data \in 1..MaxSnapshots /\ done \in 0..MaxSnapshots
         /\ archived \subseteq 1..MaxSnapshots /\ missed \subseteq archived
         /\ due \in BOOLEAN
         /\ base \in Installations
         /\ faults \in 0..MaxFaults

Idling == {"idle", "planned", "end"}

LEMMA Holder ==
    ASSUME TypeOK, NEW o \in ProductionOps
    PROVE  /\ op[o] \in Operations
           /\ op[o].pc \notin Idling <=> lock = o
           /\ o # None
  BY ProductionAssumption DEF TypeOK, Idling

\* The markers of the others stay.
LEMMA OthersStay ==
    ASSUME NEW o \in ProductionOps, OnlyOf(o), NEW ms
    PROVE  Others(o, ms)' <=> Others(o, ms)
  BY DEF OnlyOf, Others

\* A step of the operation at work that does not end it.
LEMMA Onward ==
    ASSUME PInv, NEW o \in ProductionOps, lock = o, NEW to \in Places \ Idling, NEW m \in Markers,
           NEW t \in Releases, NEW d, op[o].target = t, op[o].plan.data = d,
           Became(o, to, m), UNCHANGED <<lock, base>>, Typed',
           \A r : r.pc = to /\ r.marker = m /\ r.target = t => MarkerTells(r),
           op[o].plan.before = base, d \in 1..data',
           Kept(to, m)', Forward(to, t, d)', Backward(to)'
    PROVE  PInv'
<1>1. /\ op' \in [ProductionOps -> Operations] /\ \A p \in ProductionOps \ {o} : op'[p] = op[p]
      /\ op'[o].pc = to /\ op'[o].marker = m /\ op'[o].target = op[o].target
      /\ op'[o].plan = op[o].plan
  BY DEF Became, OnlyOf
<1>2. TypeOK
  BY DEF PInv
<1>3. \A p \in ProductionOps : op'[p].pc \notin Idling <=> lock' = p
  BY <1>1, <1>2, Holder
<1>4. TypeOK'
  <2>1. lock' \in ProductionOps \cup {None}
    OBVIOUS
  <2> QED BY <1>1, <1>3, <2>1 DEF TypeOK, Typed, Idling
<1>5. \A p \in ProductionOps : MarkerTells(op'[p])
  BY <1>1 DEF PInv
<1>6. lock' # None
  BY <1>2, Holder
<1>7. Work(o)'
  <2>1. Healthy(o, base)
    BY DEF PInv, Work
  <2>2. Healthy(o, base)'
    BY <2>1, OthersStay DEF Healthy, Became
  <2>3. op'[o].plan.before = base' /\ op'[o].plan.data \in 1..data'
    BY <1>1
  <2>4. op'[o].pc = to /\ op'[o].marker = m /\ op'[o].target = t /\ op'[o].plan.data = d
    BY <1>1
  <2>5. /\ Kept(op[o].pc, op[o].marker)'
        /\ Forward(op[o].pc, op[o].target, op[o].plan.data)' /\ Backward(op[o].pc)'
    BY <2>4 DEF Kept, Forward, Covered, Backward
  <2> QED BY <2>2, <2>3, <2>5 DEF Work
<1>8. \A p \in ProductionOps : lock' = p => p = o
  OBVIOUS
<1>9. \A p \in ProductionOps : (lock = p => Work(p))'
  BY <1>7, <1>8
<1> QED BY <1>4, <1>5, <1>6, <1>9 DEF PInv

\* What an ending operation may leave behind with its last marker.
MayEnd(o, m) ==
    \/ m \in Torn
    \/ Healthy(o, production)
    \/ m = "preparation_starting" /\ (IsWhole(production) \/ Others(o, Torn))

LEMMA Ending ==
    ASSUME PInv, NEW o \in ProductionOps, lock = o, NEW m \in Markers, Ends(o, m),
           op[o].target \in Releases, faults' \in 0..MaxFaults, MayEnd(o, m)
    PROVE  PInv'
<1>1. /\ OnlyOf(o) /\ op'[o].pc = "end" /\ op'[o].marker = m /\ op'[o].target = op[o].target
  BY EndBecomes DEF Ends, PInv, TypeOK
<1>2. /\ lock' = None /\ UNCHANGED <<production, data, archived, done, due, missed, base>>
  BY DEF Ends
<1>3. TypeOK
  BY DEF PInv
<1>4. TypeOK'
  <2>1. \A p \in ProductionOps : op'[p].pc \in Idling
    BY <1>1, <1>3, Holder DEF OnlyOf, Idling
  <2>2. \A p \in ProductionOps : lock' # p
    BY <1>2, <1>3, Holder
  <2>3. \A p \in ProductionOps : op'[p].pc \notin Idling <=> lock' = p
    BY <2>1, <2>2
  <2> QED BY <1>1, <1>2, <1>3, <2>3 DEF TypeOK, Idling, OnlyOf
<1>5. \A p \in ProductionOps : MarkerTells(op'[p])
  <2>1. MarkerTells(op'[o])
    BY <1>1 DEF MarkerTells, Resuming, Changing, Restoring
  <2> QED BY <1>1, <2>1 DEF PInv, OnlyOf
<1>6. TornIsMarked'
  <2>1. \A ms : Others(o, ms) => \E p \in ProductionOps : op'[p].marker \in ms
    BY <1>1 DEF Others, OnlyOf
  <2>2. \A ms : m \in ms => \E p \in ProductionOps : op'[p].marker \in ms
    BY <1>1
  <2>3. ~IsWhole(production) => m \in Torn \/ Others(o, Torn)
    BY DEF MayEnd, Healthy
  <2>4. production.watching # (production.ipath # None) => m \in Off \/ Others(o, Off)
    BY DEF MayEnd, Healthy, Off
  <2>5. ~IsWhole(production) => \E p \in ProductionOps : op'[p].marker \in Torn
    BY <2>1, <2>2, <2>3
  <2>6. production.watching # (production.ipath # None) =>
          \E p \in ProductionOps : op'[p].marker \in Off
    BY <2>1, <2>2, <2>4
  <2>7. Off = {"preparation_starting", "mutation_starting", "restore_failed"}
    BY DEF Off, Torn
  <2> QED BY <1>2, <2>5, <2>6, <2>7 DEF TornIsMarked, Torn
<1>7. \A p \in ProductionOps : lock' # p
  BY <1>2, <1>3, Holder
<1> QED BY <1>4, <1>5, <1>6, <1>7 DEF PInv

\* A step of an operation that does not have the lock and does not take it.
LEMMA Aside ==
    ASSUME PInv, NEW o \in ProductionOps, lock # o, OnlyOf(o), op'[o].pc \in Idling,
           op'[o].marker = op[o].marker, MarkerTells(op'[o]),
           UNCHANGED <<production, data, archived, done, due, missed, lock, base>>,
           faults' \in 0..MaxFaults
    PROVE  PInv'
<1>1. TypeOK
  BY DEF PInv
<1>2. \A p \in ProductionOps : op'[p].marker = op[p].marker
  BY DEF OnlyOf
<1>3. TypeOK'
  <2>1. \A p \in ProductionOps : op'[p].pc \notin Idling <=> lock' = p
    BY <1>1, Holder DEF OnlyOf
  <2> QED BY <1>1, <2>1 DEF TypeOK, Idling, OnlyOf
<1>4. \A p \in ProductionOps : MarkerTells(op'[p])
  BY DEF PInv, OnlyOf
<1>5. (lock = None => TornIsMarked)'
  BY <1>2 DEF TornIsMarked, PInv
<1>6. ASSUME NEW p \in ProductionOps, lock' = p
      PROVE  Work(p)'
  <2>1. Work(p) /\ op'[p] = op[p]
    BY <1>6 DEF PInv, OnlyOf
  <2>2. \A ms : Others(p, ms)' <=> Others(p, ms)
    BY <1>2 DEF Others
  <2> QED BY <2>1, <2>2 DEF Work, Healthy, Kept, Forward, Covered, Backward
<1> QED BY <1>3, <1>4, <1>5, <1>6 DEF PInv

(***************************************************************************)
(* The production operations, step by step.                                *)
(***************************************************************************)

\* What holds of an operation that is at work.
LEMMA AtWork ==
    ASSUME PInv, NEW o \in ProductionOps, op[o].pc \notin Idling
    PROVE  /\ lock = o /\ Work(o) /\ MarkerTells(op[o]) /\ Typed /\ TypeOK
           /\ op \in [ProductionOps -> Operations]
           /\ op[o].marker \in Markers /\ op[o].target \in Releases /\ op[o].plan \in Plans
           /\ op[o].pc \in Places
<1>1. TypeOK /\ MarkerTells(op[o]) /\ op[o] \in Operations /\ lock = o
  BY Holder DEF PInv
<1>2. Work(o)
  BY <1>1 DEF PInv
<1>3. op[o].marker \in Markers /\ op[o].plan \in Plans /\ op[o].pc \in Places
  BY <1>1 DEF Operations, Places
<1>4. op[o].target \in Releases
  BY <1>1 DEF MarkerTells, Idling
<1> QED BY <1>1, <1>2, <1>3, <1>4 DEF TypeOK, Typed

LEMMA StepOnward ==
    ASSUME PInv, NEW o \in ProductionOps, NEW from \in Places \ Idling,
           NEW to \in Places \ Idling, NEW i \in Installations, Step(o, from, to, i),
           NEW m, NEW t, NEW d, op[o].marker = m, op[o].target = t, op[o].plan.data = d,
           \A r : r.pc = to /\ r.marker = m /\ r.target \in Releases => MarkerTells(r),
           op[o].plan.before = base, d \in 1..data,
           Kept(to, m)', Forward(to, t, d)', Backward(to)'
    PROVE  PInv'
<1>1. /\ op[o].pc = from /\ production' = i /\ op' = [op EXCEPT ![o].pc = to]
      /\ UNCHANGED <<data, archived, done, due, missed, lock, base, faults>>
  BY DEF Step
<1>2. /\ lock = o /\ Typed /\ op \in [ProductionOps -> Operations] /\ op[o].marker \in Markers
      /\ op[o].target \in Releases
  BY <1>1, AtWork
<1>3. Became(o, to, m) /\ m \in Markers /\ t \in Releases
  BY <1>1, <1>2, StepBecomes
<1>4. Typed'
  BY <1>1, <1>2 DEF Typed
<1> QED BY <1>1, <1>2, <1>3, <1>4, Onward

LEMMA BeginsKeeps ==
    ASSUME PInv, stagingData \in Nat, stagingStarts \in Nat,
           NEW o \in ProductionOps, Begins(o)
    PROVE  PInv'
<1>1. TypeOK /\ MarkerTells(op[o]) /\ op[o] \in Operations /\ o # None /\ Typed
  BY Holder DEF PInv, TypeOK, Typed
<1>2. op \in [ProductionOps -> Operations]
  BY <1>1 DEF TypeOK
<1>3. CASE Plan(o)
  <2>1. /\ op[o].pc = "idle"
        /\ UNCHANGED <<production, data, archived, done, due, missed, lock, base, faults>>
    BY <1>3 DEF Plan
  <2>2. PICK kind \in {"promote", "rollback"}, r \in Releases :
          op' = [op EXCEPT ![o] = [@ EXCEPT !.pc = "planned", !.kind = kind, !.target = r,
                     !.plan = IF kind = "promote" THEN PlanNow
                              ELSE [PlanNow EXCEPT !.stagingData = 0, !.stagingStarts = 0]]]
    BY <1>3 DEF Plan
  <2>3. PICK p : p = IF kind = "promote" THEN PlanNow
                     ELSE [PlanNow EXCEPT !.stagingData = 0, !.stagingStarts = 0]
    OBVIOUS
  <2>4. PlanNow \in Plans
    BY <1>1 DEF PlanNow, Plans, Typed
  <2>5. p \in Plans
    BY <2>3, <2>4 DEF Plans
  <2>6. op' = [op EXCEPT ![o] = [@ EXCEPT !.pc = "planned", !.kind = kind, !.target = r,
                                          !.plan = p]]
    BY <2>2, <2>3
  <2>7. r \in Maybe
    BY DEF Maybe
  <2>8. /\ OnlyOf(o) /\ op'[o].pc = "planned" /\ op'[o].marker = op[o].marker
        /\ op'[o].target = r
    BY <1>2, <2>5, <2>6, <2>7 DEF OnlyOf, Operations
  <2>9. lock # o
    BY <1>1, <2>1, Holder DEF Idling
  <2>10. MarkerTells(op'[o])
    BY <1>1, <2>1, <2>8 DEF MarkerTells, Resuming, Changing, Restoring
  <2>11. faults' \in 0..MaxFaults
    BY <1>1, <2>1 DEF Typed
  <2> QED BY <2>1, <2>8, <2>9, <2>10, <2>11, Aside DEF Idling
<1>4. CASE Lock(o)
  <2>1. /\ op[o].pc = "planned" /\ lock = None /\ lock' = o /\ base' = production
        /\ op' = [op EXCEPT ![o].pc = "locked"]
        /\ UNCHANGED <<production, data, archived, done, due, missed, faults>>
    BY <1>4 DEF Lock
  <2>2. Became(o, "locked", op[o].marker)
    BY <1>2, <2>1, StepBecomes DEF Places
  <2>3. op[o].marker = "none" /\ op[o].target \in Releases
    BY <1>1, <2>1 DEF MarkerTells
  <2>4. TypeOK'
    <3>1. \A p \in ProductionOps : op'[p].pc \notin Idling <=> lock' = p
      BY <1>1, <2>1, <2>2, Holder DEF Idling, Became, OnlyOf
    <3> QED BY <1>1, <2>1, <2>2, <3>1 DEF TypeOK, Became, OnlyOf, Idling
  <2>5. \A p \in ProductionOps : MarkerTells(op'[p])
    <3>1. MarkerTells(op'[o])
      BY <2>2, <2>3 DEF Became, MarkerTells, Resuming, Changing, Restoring
    <3> QED BY <2>2, <3>1 DEF Became, OnlyOf, PInv
  <2>6. lock' # None
    BY <1>1, <2>1
  <2>7. Work(o)'
    <3>1. TornIsMarked
      BY <2>1 DEF PInv
    <3>2. \A ms : "none" \notin ms =>
            ((\E p \in ProductionOps : op[p].marker \in ms) => Others(o, ms))
      BY <2>3 DEF Others
    <3>3. Healthy(o, production)
      BY <3>1, <3>2 DEF TornIsMarked, Healthy, Torn, Off
    <3>4. Healthy(o, base)'
      BY <2>1, <2>2, <3>3, OthersStay DEF Became, Healthy
    <3>5. op'[o].pc = "locked"
      BY <2>2 DEF Became
    <3>6. Kept(op[o].pc, op[o].marker)'
      BY <2>1, <3>5 DEF Kept, Preparing, Resuming
    <3>7. /\ Forward(op[o].pc, op[o].target, op[o].plan.data)' /\ Backward(op[o].pc)'
      BY <3>5 DEF Forward, Covered, Backward, VenvSet, Started, Checked, Watched, Seen, Unrolled
    <3> QED BY <3>4, <3>5, <3>6, <3>7 DEF Work
  <2>8. \A p \in ProductionOps : lock' = p => p = o
    BY <2>1
  <2>9. \A p \in ProductionOps : (lock = p => Work(p))'
    BY <2>7, <2>8
  <2> QED BY <2>4, <2>5, <2>6, <2>9 DEF PInv
<1>5. CASE Locked(o)
  <2>1. op[o].pc = "planned" /\ Ends(o, "none") /\ UNCHANGED faults
    BY <1>5 DEF Locked
  <2>2. lock # o
    BY <1>1, <2>1, Holder DEF Idling
  <2>3. UNCHANGED <<production, data, archived, done, due, missed, lock, base>>
    BY <2>1, <2>2 DEF Ends
  <2>4. op[o].marker = "none" /\ op[o].target \in Releases
    BY <1>1, <2>1 DEF MarkerTells
  <2>5. /\ OnlyOf(o) /\ op'[o].pc = "end" /\ op'[o].marker = "none"
        /\ op'[o].target = op[o].target
    BY <1>2, <2>1, EndBecomes DEF Ends, Markers
  <2>6. MarkerTells(op'[o])
    BY <2>4, <2>5 DEF MarkerTells, Resuming, Changing, Restoring
  <2>7. faults' \in 0..MaxFaults
    BY <1>1, <2>1 DEF Typed
  <2> QED BY <2>2, <2>3, <2>4, <2>5, <2>6, <2>7, Aside DEF Idling
<1>6. CASE Recheck(o)
  <2>1. /\ op[o].pc = "locked" /\ Step(o, "locked", "mark1", production)
        /\ op[o].plan.before = production /\ op[o].plan.data = data
    BY <1>6 DEF Recheck, StillPlanned, Step
  <2>2. op[o].plan.data \in 1..data
    BY <1>1, <2>1 DEF Typed
  <2>3. Work(o) /\ op[o].marker = "none"
    BY <2>1, AtWork DEF Idling, MarkerTells
  <2>4. production = base /\ production' = production /\ base' = base
    BY <2>1, <2>3 DEF Work, Kept, Step
  <2>5. production = [base EXCEPT !.watching = production.watching]
    BY <1>1, <2>4, SetWatching, SameParts, Fields DEF Links, Units, App, Typed
  <2>6. Kept("mark1", "none")'
    BY <2>4, <2>5 DEF Kept
  <2>7. \A t, d : Forward("mark1", t, d)' /\ Backward("mark1")'
    BY DEF Forward, Covered, Backward, VenvSet, Started, Checked, Watched, Seen, Unrolled
  <2>8. \A r : r.pc = "mark1" /\ r.marker = "none" /\ r.target \in Releases => MarkerTells(r)
    BY DEF MarkerTells, Resuming, Changing, Restoring
  <2>9. "locked" \in Places \ Idling /\ "mark1" \in Places \ Idling
    BY DEF Places, Idling, Preparing
  <2> QED BY <1>1, <2>1, <2>3, <2>4, <2>6, <2>7, <2>8, <2>9, <2>2, StepOnward DEF Typed
<1>7. CASE Changed(o)
  <2>1. op[o].pc = "locked" /\ Ends(o, "none") /\ faults' = faults
    BY <1>7 DEF Changed
  <2>2. Work(o) /\ lock = o /\ op[o].target \in Releases
    BY <2>1, AtWork DEF Idling
  <2>3. Healthy(o, production)
    BY <2>1, <2>2 DEF Work, Kept
  <2> QED BY <1>1, <2>1, <2>2, <2>3, Ending DEF MayEnd, Markers, Typed
<1> QED BY <1>3, <1>4, <1>5, <1>6, <1>7 DEF Begins

\* Setting the path unit of an installation that differs from b in it only.
LEMMA WatchAgain ==
    ASSUME NEW b \in Installations, NEW i \in Installations, i = [b EXCEPT !.watching = i.watching],
           NEW x \in BOOLEAN, NEW j, j = [i EXCEPT !.watching = x]
    PROVE  /\ j \in Installations
           /\ j = [b EXCEPT !.watching = j.watching]
           /\ x = b.watching => j = b
<1>1. i.watching \in BOOLEAN
  BY Fields
<1>2. Links(b, i) /\ Units(b, i) /\ App(b, i)
  BY <1>1, SetWatching
<1>3. j \in Installations /\ j.watching = x /\ Links(i, j) /\ Units(i, j) /\ App(i, j)
  BY SetWatching
<1>4. Links(b, j) /\ Units(b, j) /\ App(b, j)
  BY <1>2, <1>3 DEF Links, Units, App
<1>5. PICK k : k = [b EXCEPT !.watching = x]
  OBVIOUS
<1>6. k \in Installations /\ k.watching = x /\ Links(b, k) /\ Units(b, k) /\ App(b, k)
  BY <1>5, SetWatching
<1>7. j = k
  <2>1. /\ j.release = k.release /\ j.venv = k.venv /\ j.unit = k.unit /\ j.isvc = k.isvc
        /\ j.ipath = k.ipath /\ j.enabled = k.enabled /\ j.runs = k.runs
        /\ j.watching = k.watching
    BY <1>3, <1>4, <1>6 DEF Links, Units, App
  <2> QED BY <1>3, <1>6, <2>1, SameParts
<1>8. x = b.watching => j = b
  BY <1>3, <1>4, SameParts DEF Links, Units, App
<1> QED BY <1>3, <1>5, <1>7, <1>8

\* A preparation that is over leaves a whole installation, or another marker tells.
LEMMA Prepared ==
    ASSUME NEW o \in ProductionOps, base \in Installations, production \in Installations,
           Healthy(o, base), production = [base EXCEPT !.watching = production.watching]
    PROVE  IsWhole(production) \/ Others(o, Torn)
<1>1. production.watching \in BOOLEAN
  BY Fields
<1>2. Links(base, production) /\ Units(base, production) /\ App(base, production)
  BY <1>1, SetWatching
<1>3. /\ production.release = base.release /\ production.venv = base.venv
      /\ production.unit = base.unit /\ production.isvc = base.isvc
      /\ production.ipath = base.ipath /\ production.enabled = base.enabled
      /\ production.runs = base.runs
  BY <1>2 DEF Links, Units, App
<1>4. ASSUME NEW r \in Releases, base.release = r, base.venv = r, base.unit = r,
             base.isvc = IngestUnit(r), base.ipath = IngestUnit(r), base.enabled = TRUE,
             base.runs = <<r, r>>
      PROVE  IsWhole(production)
  BY <1>3, <1>4, WholeIs
<1>5. IsWhole(base) => IsWhole(production)
  BY <1>3, <1>4, WholeIs
<1> QED BY <1>5 DEF Healthy

\* Nothing is asked of an installation before the first link is switched.
NotMoved == Idling \cup {"locked", "mark2", "quiesce2", "release", "r_quiesce", "r_release"}
              \cup Preparing \cup Resuming

LEMMA StillThere ==
    ASSUME NEW to \in NotMoved, NEW t, NEW d
    PROVE  Forward(to, t, d)' /\ Backward(to)'
  BY DEF NotMoved, Forward, Covered, Backward, VenvSet, Started, Checked, Watched, Seen, Unrolled, Idling, Preparing,
         Resuming

LEMMA NotPlaced ==
    /\ {"quiesce1", "archive", "inspect", "mark2", "quiesce2", "release", "p_watch", "p_idle",
        "r_quiesce", "r_release"} \subseteq NotMoved
    /\ NotMoved \ Idling \subseteq Places \ Idling
  BY DEF NotMoved, Idling, Preparing, Resuming, Places, Changing, Restoring

LEMMA PreparesKeeps ==
    ASSUME PInv, NEW o \in ProductionOps, NEW t, NEW d, op[o].target = t, op[o].plan.data = d,
           Prepares(o)
    PROVE  PInv'
<1>1. op[o].pc \in {"mark1", "quiesce1", "archive", "inspect", "p_watch", "p_idle"}
  BY DEF Prepares, MarkPreparing, Quiesce, QuiesceTo, Archive, Inspect, Resume, Resumed, Step
<1>2. /\ lock = o /\ Work(o) /\ MarkerTells(op[o]) /\ Typed
      /\ op \in [ProductionOps -> Operations] /\ op[o].marker \in Markers
      /\ t \in Releases /\ op[o].plan \in Plans
  BY <1>1, AtWork DEF Idling
<1>3. /\ Healthy(o, base) /\ op[o].plan.before = base /\ Kept(op[o].pc, op[o].marker)
      /\ base \in Installations /\ production \in Installations /\ d \in 1..data
  BY <1>1, <1>2 DEF Work, Typed
<1>4. production = [base EXCEPT !.watching = production.watching]
  BY <1>1, <1>3 DEF Kept, Preparing, Resuming
<1>5. \A r : \A to \in {"quiesce1", "archive", "inspect", "mark2"} :
        r.pc = to /\ r.marker = "preparation_starting" /\ r.target \in Releases => MarkerTells(r)
  BY DEF MarkerTells, Changing, Restoring, Resuming
<1>6. {"quiesce1", "archive", "inspect", "mark2", "p_watch", "p_idle"} \subseteq Places \ Idling
  BY DEF Places, Idling, Preparing, Resuming
<1>7. CASE MarkPreparing(o)
  <2>1. /\ op' = [op EXCEPT ![o].pc = "quiesce1", ![o].marker = "preparation_starting"]
        /\ UNCHANGED <<production, data, archived, done, due, missed, lock, base, faults>>
    BY <1>7 DEF MarkPreparing
  <2>2. Became(o, "quiesce1", "preparation_starting")
    BY <1>2, <2>1, MarkBecomes DEF Places, Preparing, Markers
  <2>3. Kept("quiesce1", "preparation_starting")'
    BY <1>4, <2>1 DEF Kept, Resuming
  <2>4. Typed'
    BY <1>2, <2>1 DEF Typed
  <2> QED BY <1>2, <1>3, <1>5, <1>6, <2>1, <2>2, <2>3, <2>4, StillThere, NotPlaced, Onward
             DEF Markers
<1>8. CASE Quiesce(o)
  <2>1. /\ op[o].pc = "quiesce1" /\ production' = [production EXCEPT !.watching = FALSE]
        /\ due' = FALSE /\ op' = [op EXCEPT ![o].pc = "archive"]
        /\ UNCHANGED <<data, archived, done, missed, lock, base, faults>>
    BY <1>8 DEF Quiesce, QuiesceTo
  <2>2. op[o].marker = "preparation_starting"
    BY <1>2, <2>1 DEF MarkerTells
  <2>3. Became(o, "archive", "preparation_starting")
    BY <1>2, <1>6, <2>1, <2>2, StepBecomes
  <2>4. /\ production' \in Installations
        /\ production' = [base EXCEPT !.watching = production'.watching]
    <3>1. PICK x \in BOOLEAN : x = FALSE
      OBVIOUS
    <3>2. PICK j : j = [production EXCEPT !.watching = x]
      OBVIOUS
    <3>3. j \in Installations /\ j = [base EXCEPT !.watching = j.watching]
      BY <1>3, <1>4, <3>1, <3>2, WatchAgain
    <3>4. production' = j
      BY <2>1, <3>1, <3>2
    <3> QED BY <3>3, <3>4
  <2>5. Kept("archive", "preparation_starting")'
    BY <2>1, <2>4 DEF Kept, Resuming
  <2>6. Typed'
    BY <1>2, <2>1, <2>4 DEF Typed
  <2> QED BY <1>2, <1>3, <1>5, <1>6, <2>1, <2>3, <2>5, <2>6, StillThere, NotPlaced, Onward
             DEF Markers
<1>9. CASE Archive(o)
  <2>1. /\ op[o].pc = "archive" /\ archived' = archived \cup {d}
        /\ op' = [op EXCEPT ![o].pc = "inspect"]
        /\ UNCHANGED <<production, data, done, due, missed, lock, base, faults>>
    BY <1>9 DEF Archive
  <2>2. op[o].marker = "preparation_starting"
    BY <1>2, <2>1 DEF MarkerTells
  <2>3. Became(o, "inspect", "preparation_starting")
    BY <1>2, <1>6, <2>1, <2>2, StepBecomes
  <2>4. Kept("inspect", "preparation_starting")'
    BY <1>4, <2>1 DEF Kept, Resuming
  <2>5. Typed'
    <3>1. d \in 1..MaxSnapshots
      BY <1>2, <1>3, ProductionAssumption DEF Typed
    <3> QED BY <1>2, <2>1, <3>1 DEF Typed
  <2> QED BY <1>2, <1>3, <1>5, <1>6, <2>1, <2>3, <2>4, <2>5, StillThere, NotPlaced, Onward
             DEF Markers
<1>10. CASE Inspect(o)
  <2>1. Step(o, "inspect", "mark2", production) /\ op[o].pc = "inspect"
        /\ production' = production /\ base' = base
    BY <1>10 DEF Inspect, Step
  <2>2. op[o].marker = "preparation_starting"
    BY <1>2, <2>1 DEF MarkerTells
  <2>3. Kept("mark2", "preparation_starting")'
    BY <1>4, <2>1 DEF Kept, Resuming
  <2> QED BY <1>2, <1>3, <1>5, <1>6, <2>1, <2>2, <2>3, StillThere, NotPlaced, StepOnward
<1>11. CASE Resume(o)
  <2>1. PICK i : i = [production EXCEPT !.watching = base.watching]
    OBVIOUS
  <2>2. Step(o, "p_watch", "p_idle", i)
    BY <1>3, <1>11, <2>1 DEF Resume
  <2>3. i = base
    BY <1>3, <1>4, <2>1, Fields, WatchAgain
  <2>4. PICK m : m = op[o].marker
    OBVIOUS
  <2>5. /\ op[o].pc = "p_watch" /\ production' = base /\ base' = base
    BY <2>2, <2>3 DEF Step
  <2>6. m \in {"none", "preparation_starting"}
    BY <1>2, <2>4, <2>5 DEF MarkerTells, Resuming
  <2>7. base = [base EXCEPT !.watching = base.watching]
    BY <1>3, Fields, SetWatching, SameParts DEF Links, Units, App
  <2>8. Kept("p_idle", m)'
    BY <2>5, <2>7 DEF Kept, Resuming
  <2>9. \A r : r.pc = "p_idle" /\ r.marker = m /\ r.target \in Releases => MarkerTells(r)
    BY <2>6 DEF MarkerTells, Changing, Restoring, Resuming
  <2> QED BY <1>2, <1>3, <1>6, <2>2, <2>3, <2>4, <2>8, <2>9, StillThere, NotPlaced, StepOnward
<1>12. CASE Resumed(o)
  <2>1. /\ op[o].pc = "p_idle" /\ Ends(o, "preparation_failed_runtime_restored")
        /\ faults' = faults
    BY <1>12 DEF Resumed
  <2>2. production = base
    BY <1>3, <2>1 DEF Kept
  <2>3. MayEnd(o, "preparation_failed_runtime_restored")
    BY <1>3, <2>2 DEF MayEnd
  <2> QED BY <1>2, <2>1, <2>3, Ending DEF Markers, Typed
<1> QED BY <1>7, <1>8, <1>9, <1>10, <1>11, <1>12 DEF Prepares

Moves == Changing \cup Restoring

LEMMA Moving ==
    /\ Moves \subseteq Places \ Idling
    /\ \A r : r.pc \in Moves /\ r.marker = "mutation_starting" /\ r.target \in Releases
              => MarkerTells(r)
    /\ \A r : r.pc \in Moves /\ MarkerTells(r) => r.marker = "mutation_starting"
    /\ \A to \in Moves : Kept(to, "mutation_starting")'
  BY DEF Moves, Places, Idling, Changing, Restoring, MarkerTells, Kept, Preparing, Resuming

\* One step of an activation or of a restore that does not end it.
LEMMA StepMoving ==
    ASSUME PInv, NEW o \in ProductionOps, NEW from \in Moves, NEW to \in Moves,
           NEW i \in Installations, Step(o, from, to, i),
           NEW t, NEW d, op[o].target = t, op[o].plan.data = d,
           Forward(to, t, d)', Backward(to)'
    PROVE  PInv'
<1>1. op[o].pc = from
  BY DEF Step
<1>2. Work(o) /\ MarkerTells(op[o])
  BY <1>1, AtWork, Moving
<1>3. op[o].marker = "mutation_starting"
  BY <1>1, <1>2, Moving
<1>4. from # "locked"
  BY DEF Moves, Changing, Restoring
<1>5. op[o].plan.before = base /\ d \in 1..data
  BY <1>1, <1>2, <1>4 DEF Work
<1> QED BY <1>3, <1>5, Moving, StepOnward

\* A step that stops the path unit.
LEMMA QuiesceMoving ==
    ASSUME PInv, NEW o \in ProductionOps, NEW from \in Moves, NEW to \in Moves \cap NotMoved,
           QuiesceTo(o, from, to)
    PROVE  PInv'
<1>1. /\ op[o].pc = from /\ production' = [production EXCEPT !.watching = FALSE]
      /\ due' = FALSE /\ op' = [op EXCEPT ![o].pc = to]
      /\ UNCHANGED <<data, archived, done, missed, lock, base, faults>>
  BY DEF QuiesceTo
<1>2. /\ lock = o /\ Work(o) /\ MarkerTells(op[o]) /\ Typed
      /\ op \in [ProductionOps -> Operations] /\ op[o].target \in Releases
  BY <1>1, AtWork, Moving
<1>3. op[o].marker = "mutation_starting"
  BY <1>1, <1>2, Moving
<1>4. from # "locked"
  BY DEF Moves, Changing, Restoring
<1>5. PICK t, d : op[o].target = t /\ op[o].plan.data = d
  OBVIOUS
<1>6. op[o].plan.before = base /\ d \in 1..data
  BY <1>1, <1>2, <1>4, <1>5 DEF Work
<1>7. production' \in Installations
  BY <1>1, <1>2, SetWatching DEF Typed
<1>8. Typed'
  BY <1>1, <1>2, <1>7 DEF Typed
<1>9. Became(o, to, "mutation_starting")
  BY <1>1, <1>2, <1>3, Moving, StepBecomes
<1> QED BY <1>1, <1>2, <1>5, <1>6, <1>8, <1>9, Moving, StillThere, Onward DEF Markers

LEMMA ActivatesKeeps ==
    ASSUME PInv, NEW o \in ProductionOps, NEW t, NEW d, op[o].target = t, op[o].plan.data = d,
           Activates(o)
    PROVE  PInv'
<1>1. op[o].pc \in {"mark2"} \cup Changing
  BY DEF Activates, MarkMutation, QuiesceAgain, QuiesceTo, SwitchRelease, SwitchVenv, InstallUnit,
         InstallIngestService, InstallIngestPath, Restart, Ready, InitialIngest, Watch, Verify,
         ReadyAgain, Complete, Step, Changing
<1>2. /\ lock = o /\ Work(o) /\ MarkerTells(op[o]) /\ Typed
      /\ op \in [ProductionOps -> Operations] /\ op[o].marker \in Markers
      /\ t \in Releases /\ t \in Maybe
  <2>1. op[o].pc \notin Idling
    BY <1>1 DEF Idling, Changing
  <2> QED BY <2>1, AtWork DEF Maybe
<1>3. /\ Healthy(o, base) /\ op[o].plan.before = base /\ d \in 1..data
      /\ Forward(op[o].pc, t, d)
      /\ production \in Installations /\ base \in Installations
  BY <1>1, <1>2 DEF Work, Typed, Changing
<1>4. \A pc \in Changing : Backward(pc)'
  BY DEF Backward, Changing, Unrolled
<1>5. {"quiesce2", "release", "venv", "unit", "isvc", "ipath", "restart", "ready", "ingest",
       "watch", "verify", "again", "complete"} \subseteq Moves \cap Changing
  BY DEF Moves, Changing
<1>6. IngestUnit(t) \in Maybe /\ (t \in Ingesting) \in BOOLEAN
  BY <1>2, WholeParts
<1>7. CASE MarkMutation(o)
  <2>1. /\ op[o].pc = "mark2"
        /\ op' = [op EXCEPT ![o].pc = "quiesce2", ![o].marker = "mutation_starting"]
        /\ UNCHANGED <<production, data, archived, done, due, missed, lock, base, faults>>
    BY <1>7 DEF MarkMutation
  <2>2. Became(o, "quiesce2", "mutation_starting")
    BY <1>2, <1>5, <2>1, MarkBecomes, Moving DEF Markers
  <2>3. Typed'
    BY <1>2, <2>1 DEF Typed
  <2> QED BY <1>2, <1>3, <1>5, <2>1, <2>2, <2>3, Moving, StillThere, NotPlaced, Onward DEF Markers
<1>8. CASE QuiesceAgain(o)
  BY <1>5, <1>8, NotPlaced, QuiesceMoving DEF QuiesceAgain
<1>9. CASE SwitchRelease(o)
  <2>1. PICK i : i = [production EXCEPT !.release = t]
    OBVIOUS
  <2>2. Step(o, "release", "venv", i)
    BY <1>9, <2>1 DEF SwitchRelease
  <2>3. i \in Installations /\ i.release = t
    BY <1>2, <1>3, <2>1, SetRelease
  <2>4. Forward("venv", t, d)'
    BY <2>2, <2>3 DEF Step, Forward, Covered, VenvSet, Started, Checked, Watched, Seen
  <2> QED BY <1>4, <1>5, <2>2, <2>3, <2>4, StepMoving
<1>10. CASE SwitchVenv(o)
  <2>1. PICK i : i = [production EXCEPT !.venv = t]
    OBVIOUS
  <2>2. Step(o, "venv", "unit", i) /\ op[o].pc = "venv"
    BY <1>10, <2>1 DEF SwitchVenv, Step
  <2>3. i \in Installations /\ i.venv = t /\ i.release = production.release
    BY <1>2, <1>3, <2>1, SetVenv
  <2>4. production.release = t
    BY <1>3, <2>2 DEF Forward, Covered
  <2>5. Forward("unit", t, d)'
    BY <2>2, <2>3, <2>4 DEF Step, Forward, Covered, VenvSet, Started, Checked, Watched, Seen
  <2> QED BY <1>4, <1>5, <2>2, <2>3, <2>5, StepMoving
<1>11. CASE InstallUnit(o)
  <2>1. PICK i : i = [production EXCEPT !.unit = t]
    OBVIOUS
  <2>2. Step(o, "unit", "isvc", i) /\ op[o].pc = "unit"
    BY <1>11, <2>1 DEF InstallUnit, Step
  <2>3. /\ i \in Installations /\ i.unit = t
        /\ i.venv = production.venv /\ i.release = production.release
    BY <1>2, <1>3, <2>1, SetUnit
  <2>4. production.release = t /\ production.venv = t
    BY <1>3, <2>2 DEF Forward, Covered, VenvSet
  <2>5. Forward("isvc", t, d)'
    BY <2>2, <2>3, <2>4 DEF Step, Forward, Covered, VenvSet, Started, Checked, Watched, Seen
  <2> QED BY <1>4, <1>5, <2>2, <2>3, <2>5, StepMoving
<1>12. CASE InstallIngestService(o)
  <2>1. PICK i : i = [production EXCEPT !.isvc = IngestUnit(t)]
    OBVIOUS
  <2>2. Step(o, "isvc", "ipath", i) /\ op[o].pc = "isvc"
    BY <1>12, <2>1 DEF InstallIngestService, Step
  <2>3. i \in Installations /\ Links(production, i)
    BY <1>3, <1>6, <2>1, SetIsvc
  <2>4. production.release = t /\ production.venv = t /\ production.unit = t
    BY <1>3, <2>2 DEF Forward, Covered, VenvSet
  <2>5. Forward("ipath", t, d)'
    BY <2>2, <2>3, <2>4 DEF Step, Forward, Covered, VenvSet, Started, Checked, Watched, Seen, Links
  <2> QED BY <1>4, <1>5, <2>2, <2>3, <2>5, StepMoving
<1>13. CASE InstallIngestPath(o)
  <2>1. PICK i : i = [production EXCEPT !.ipath = IngestUnit(t)]
    OBVIOUS
  <2>2. Step(o, "ipath", "restart", i) /\ op[o].pc = "ipath"
    BY <1>13, <2>1 DEF InstallIngestPath, Step
  <2>3. i \in Installations /\ Links(production, i)
    BY <1>3, <1>6, <2>1, SetIpath
  <2>4. production.release = t /\ production.venv = t /\ production.unit = t
    BY <1>3, <2>2 DEF Forward, Covered, VenvSet
  <2>5. Forward("restart", t, d)'
    BY <2>2, <2>3, <2>4 DEF Step, Forward, Covered, VenvSet, Started, Checked, Watched, Seen, Links
  <2> QED BY <1>4, <1>5, <2>2, <2>3, <2>5, StepMoving
<1>14. CASE Restart(o)
  <2>1. PICK i : i = [production EXCEPT !.enabled = TRUE, !.runs = Loaded(production)]
    OBVIOUS
  <2>2. Step(o, "restart", "ready", i) /\ op[o].pc = "restart"
    BY <1>14, <2>1 DEF Restart, Step
  <2>3. production.release = t /\ production.venv = t /\ production.unit = t
    BY <1>3, <2>2 DEF Forward, Covered, VenvSet
  <2>4. Loaded(production) = <<t, t>> /\ Loaded(production) \in Processes
    BY <1>2, <1>3, <2>3, LoadedType
  <2>5. i \in Installations /\ Links(production, i) /\ i.runs = <<t, t>>
    <3>1. PICK y \in Processes : y = Loaded(production)
      BY <2>4
    <3>2. i = [production EXCEPT !.enabled = TRUE, !.runs = y]
      BY <2>1, <3>1
    <3>3. i \in Installations /\ Links(production, i) /\ i.runs = y
      BY <1>3, <3>1, <3>2 DEF Installations, Links
    <3> QED BY <2>4, <3>1, <3>3
  <2>6. Forward("ready", t, d)'
    BY <2>2, <2>3, <2>5 DEF Step, Forward, Covered, VenvSet, Started, Checked, Watched, Seen, Links
  <2> QED BY <1>4, <1>5, <2>2, <2>5, <2>6, StepMoving
<1>15. CASE Ready(o)
  <2>1. PICK to \in {"ingest", "watch"} : /\ Step(o, "ready", to, production)
                                          /\ op[o].pc = "ready"
                                          /\ to = "watch" => t \notin Ingesting
    BY <1>15 DEF Ready, Step
  <2>2. /\ production.release = t /\ production.venv = t /\ production.unit = t
        /\ production.runs = <<t, t>>
    BY <1>3, <2>1 DEF Forward, Covered, VenvSet, Started
  <2>3. Forward(to, t, d)'
    BY <2>1, <2>2 DEF Step, Forward, Covered, VenvSet, Started, Checked, Watched, Seen
  <2>4. to \in Moves /\ Backward(to)'
    BY <1>4, <1>5
  <2> QED BY <1>3, <1>5, <2>1, <2>3, <2>4, StepMoving
<1>16. CASE InitialIngest(o)
  <2>1. /\ op[o].pc = "ingest" /\ IngestsAll /\ op' = [op EXCEPT ![o].pc = "watch"]
        /\ missed' = {} /\ UNCHANGED <<production, data, archived, due, lock, base, faults>>
    BY <1>16 DEF InitialIngest
  <2>2. op[o].marker = "mutation_starting"
    BY <1>2, <1>5, <2>1, Moving
  <2>3. Became(o, "watch", "mutation_starting")
    BY <1>2, <1>5, <2>1, <2>2, StepBecomes, Moving
  <2>4. /\ production.release = t /\ production.venv = t /\ production.unit = t
        /\ production.runs = <<t, t>>
    BY <1>3, <2>1 DEF Forward, Covered, VenvSet, Started
  <2>7. /\ done' \in 0..MaxSnapshots
        /\ \A n \in archived \cup {data} : n <= done'
    BY <1>2, <2>1 DEF IngestsAll, Newest, Typed
  <2>5. Forward("watch", t, d)'
    BY <2>1, <2>4, <2>7 DEF Forward, Covered, VenvSet, Started, Checked, Watched, Seen
  <2>6. Typed'
    BY <1>2, <2>1, <2>7 DEF Typed
  <2> QED BY <1>2, <1>3, <1>4, <1>5, <2>1, <2>3, <2>5, <2>6, Moving, Onward DEF Markers
<1>17. CASE Watch(o)
  <2>1. PICK i : i = [production EXCEPT !.watching = t \in Ingesting]
    OBVIOUS
  <2>2. Step(o, "watch", "verify", i) /\ op[o].pc = "watch"
    BY <1>17, <2>1 DEF Watch, Step
  <2>3. i \in Installations /\ Links(production, i) /\ App(production, i)
    BY <1>3, <1>6, <2>1, SetWatching
  <2>4. /\ production.release = t /\ production.venv = t /\ production.unit = t
        /\ production.runs = <<t, t>>
        /\ t \in Ingesting => Covered("watch", d)
    BY <1>3, <2>2 DEF Forward, VenvSet, Started, Seen
  <2>5. Forward("verify", t, d)'
    <3>1. i.watching = (t \in Ingesting)
      BY <1>3, <1>6, <2>1, Fields, SetWatching
    <3>2. t \in Ingesting => Covered("verify", d)'
      BY <2>2, <2>4 DEF Step, Covered
    <3> QED BY <2>2, <2>3, <2>4, <3>1, <3>2
        DEF Step, Forward, VenvSet, Started, Checked, Watched, Seen, Links, App
  <2> QED BY <1>4, <1>5, <2>2, <2>3, <2>5, StepMoving
<1>18. CASE Verify(o)
  <2>1. Step(o, "verify", "again", production) /\ op[o].pc = "verify"
    BY <1>18 DEF Verify, Step
  <2>2. /\ production.release = t /\ production.venv = t /\ production.unit = t
        /\ production.runs = <<t, t>>
        /\ t \in Ingesting => Covered("verify", d)
    BY <1>3, <2>1 DEF Forward, VenvSet, Started, Seen
  <2>3. /\ production.isvc = IngestUnit(t) /\ production.ipath = IngestUnit(t)
        /\ production.watching = (t \in Ingesting)
        /\ t \in Ingesting => done >= d
    BY <1>18 DEF Verify, IngestReady
  <2>4. Forward("again", t, d)'
    BY <2>1, <2>2, <2>3 DEF Step, Forward, Covered, VenvSet, Started, Checked, Watched, Seen
  <2> QED BY <1>3, <1>4, <1>5, <2>1, <2>4, StepMoving
<1>19. CASE ReadyAgain(o)
  <2>1. Step(o, "again", "complete", production) /\ op[o].pc = "again"
    BY <1>19 DEF ReadyAgain, Step
  <2>2. /\ production.release = t /\ production.venv = t /\ production.unit = t
        /\ production.runs = <<t, t>>
        /\ production.isvc = IngestUnit(t) /\ production.ipath = IngestUnit(t)
        /\ production.watching = (t \in Ingesting)
        /\ t \in Ingesting => done >= d /\ Covered("again", d)
    BY <1>3, <2>1 DEF Forward, VenvSet, Started, Checked, Watched, Seen
  <2>3. production.enabled /\ data = d
    BY <1>19 DEF ReadyAgain, AppReady, SameData
  <2>4. data \in Nat
    BY <1>2 DEF Typed
  <2>5. t \in Ingesting => Covered("complete", d)
    BY <2>2, <2>3, <2>4 DEF Covered
  <2>6. Forward("complete", t, d)'
    BY <2>1, <2>2, <2>3, <2>5 DEF Step, Forward, Covered, VenvSet, Started, Checked, Watched, Seen
  <2> QED BY <1>3, <1>4, <1>5, <2>1, <2>6, StepMoving
<1>20. CASE Complete(o)
  <2>1. op[o].pc = "complete" /\ Ends(o, "complete") /\ faults' = faults
    BY <1>20 DEF Complete
  <2>2. /\ production.release = t /\ production.venv = t /\ production.unit = t
        /\ production.runs = <<t, t>> /\ production.enabled = TRUE
        /\ production.isvc = IngestUnit(t) /\ production.ipath = IngestUnit(t)
        /\ production.watching = (t \in Ingesting)
    <3>1. production.enabled \in BOOLEAN
      BY <1>3, Fields
    <3> QED BY <1>3, <2>1, <3>1 DEF Forward, Covered, VenvSet, Started, Checked, Watched, Seen
  <2>3. IsWhole(production)
    BY <1>2, <1>3, <2>2, WholeIs
  <2>4. production.watching = (production.ipath # None)
    BY <1>2, <2>2, WholeParts
  <2>5. MayEnd(o, "complete")
    BY <2>3, <2>4 DEF MayEnd, Healthy
  <2> QED BY <1>2, <2>1, <2>5, Ending DEF Markers, Typed
<1> QED
  BY <1>7, <1>8, <1>9, <1>10, <1>11, <1>12, <1>13, <1>14, <1>15, <1>16, <1>17, <1>18, <1>19, <1>20
  DEF Activates

\* A restore that reports that it is complete stands for the installation it started from.
LEMMA Restored ==
    ASSUME base \in Installations, production \in Installations, NEW o \in ProductionOps,
           op[o].plan.before = base, AsBefore(o),
           production.runs = IF base.runs = None THEN None ELSE Loaded(base)
    PROVE  /\ Links(base, production) /\ Units(base, production)
           /\ base.enabled = production.enabled /\ base.watching = production.watching
           /\ base.runs = None => production = base
           /\ base.runs # None => production = [base EXCEPT !.runs = Loaded(base)]
<1>1. [production EXCEPT !.runs = None] = [base EXCEPT !.runs = None]
  BY DEF AsBefore
<1>2. \A i \in Installations : \A j : j = [i EXCEPT !.runs = None] =>
        /\ Links(i, j) /\ Units(i, j) /\ j.enabled = i.enabled /\ j.watching = i.watching
  BY DEF Installations, Links, Units
<1>3. /\ Links(base, production) /\ Units(base, production)
      /\ base.enabled = production.enabled /\ base.watching = production.watching
  <2>1. PICK j : j = [base EXCEPT !.runs = None]
    OBVIOUS
  <2>2. /\ Links(base, j) /\ Units(base, j) /\ j.enabled = base.enabled
        /\ j.watching = base.watching
    BY <1>2, <2>1
  <2>3. j = [production EXCEPT !.runs = None]
    BY <1>1, <2>1
  <2>4. /\ Links(production, j) /\ Units(production, j) /\ j.enabled = production.enabled
        /\ j.watching = production.watching
    BY <1>2, <2>3
  <2> QED BY <2>2, <2>4 DEF Links, Units
<1>4. base.runs = None => production = base
  BY <1>3, SameParts DEF Links, Units
<1>5. ASSUME base.runs # None
      PROVE  production = [base EXCEPT !.runs = Loaded(base)]
  <2>1. PICK x \in Processes : x = Loaded(base)
    BY LoadedType
  <2>2. PICK j : j = [base EXCEPT !.runs = x]
    OBVIOUS
  <2>3. /\ j \in Installations /\ Links(base, j) /\ Units(base, j) /\ j.runs = x
        /\ j.enabled = base.enabled /\ j.watching = base.watching
    BY <2>1, <2>2 DEF Installations, Links, Units
  <2>4. production.runs = x
    BY <1>5, <2>1
  <2>5. /\ production.release = j.release /\ production.venv = j.venv /\ production.unit = j.unit
        /\ production.isvc = j.isvc /\ production.ipath = j.ipath
        /\ production.enabled = j.enabled /\ production.watching = j.watching
        /\ production.runs = j.runs
    BY <1>3, <2>3, <2>4 DEF Links, Units
  <2>6. production = j
    BY <2>3, <2>5, SameParts
  <2> QED BY <2>1, <2>2, <2>6
<1> QED BY <1>3, <1>4, <1>5

\* What was whole is whole again.
LEMMA RestoredHealthy ==
    ASSUME NEW o \in ProductionOps, base \in Installations, production \in Installations,
           op[o].plan.before = base, AsBefore(o), Healthy(o, base),
           production.runs = IF base.runs = None THEN None ELSE Loaded(base)
    PROVE  Healthy(o, production)
<1>1. /\ Links(base, production) /\ Units(base, production)
      /\ base.enabled = production.enabled /\ base.watching = production.watching
      /\ base.runs = None => production = base
  BY Restored
<1>2. ASSUME NEW r \in Releases, base.release = r, base.venv = r, base.unit = r,
             base.isvc = IngestUnit(r), base.ipath = IngestUnit(r), base.enabled = TRUE,
             base.runs = <<r, r>>
      PROVE  IsWhole(production)
  <2>1. Loaded(base) = <<r, r>>
    BY <1>2, LoadedType
  <2>2. production.runs = <<r, r>>
    BY <1>1, <1>2, <2>1
  <2>3. /\ production.release = r /\ production.venv = r /\ production.unit = r
        /\ production.isvc = IngestUnit(r) /\ production.ipath = IngestUnit(r)
        /\ production.enabled = TRUE
    BY <1>1, <1>2 DEF Links, Units
  <2> QED BY <2>2, <2>3, WholeIs
<1>3. IsWhole(base) => IsWhole(production)
  BY <1>1, <1>2, WholeIs
<1> QED BY <1>1, <1>3 DEF Healthy, Units

LEMMA RestoresKeeps ==
    ASSUME PInv, NEW o \in ProductionOps, NEW t, NEW d, op[o].target = t, op[o].plan.data = d,
           Restores(o)
    PROVE  PInv'
<1>1. op[o].pc \in Restoring
  BY DEF Restores, RestoreQuiesce, QuiesceTo, RestoreRelease, RestoreVenv, RestoreUnit,
         RestoreIngestService, RestoreIngestPath, RestoreService, RestoreWatch, RestoreIdle,
         RolledBack, NotRestored, Step, Restoring
<1>2. /\ lock = o /\ Work(o) /\ Typed /\ op[o].target \in Releases
  <2>1. op[o].pc \notin Idling
    BY <1>1 DEF Idling, Restoring
  <2> QED BY <2>1, AtWork
<1>3. /\ Healthy(o, base) /\ op[o].plan.before = base /\ Backward(op[o].pc)
      /\ production \in Installations /\ base \in Installations
  BY <1>1, <1>2 DEF Work, Typed, Restoring
<1>4. \A pc \in Restoring : Forward(pc, t, d)'
  BY DEF Forward, Covered, Restoring, VenvSet, Started, Checked, Watched, Seen
<1>5. {"r_quiesce", "r_release", "r_venv", "r_unit", "r_isvc", "r_ipath", "r_restart", "r_watch",
       "r_idle", "r_verify"} \subseteq Moves \cap Restoring
  BY DEF Moves, Restoring
<1>6. /\ base.release \in Maybe /\ base.venv \in Maybe /\ base.unit \in Maybe
      /\ base.isvc \in Maybe /\ base.ipath \in Maybe /\ base.watching \in BOOLEAN
      /\ base.enabled \in BOOLEAN
  BY <1>3, Fields
<1>7. CASE RestoreQuiesce(o)
  BY <1>5, <1>7, NotPlaced, QuiesceMoving DEF RestoreQuiesce
<1>8. CASE RestoreRelease(o)
  <2>1. PICK i : i = [production EXCEPT !.release = base.release]
    OBVIOUS
  <2>2. Step(o, "r_release", "r_venv", i)
    BY <1>3, <1>8, <2>1 DEF RestoreRelease
  <2>3. i \in Installations /\ i.release = base.release
    BY <1>3, <1>6, <2>1, SetRelease
  <2>4. Backward("r_venv")'
    BY <2>2, <2>3 DEF Step, Backward, Unrolled
  <2> QED BY <1>4, <1>5, <2>2, <2>3, <2>4, StepMoving
<1>9. CASE RestoreVenv(o)
  <2>1. PICK i : i = [production EXCEPT !.venv = base.venv]
    OBVIOUS
  <2>2. Step(o, "r_venv", "r_unit", i) /\ op[o].pc = "r_venv"
    BY <1>3, <1>9, <2>1 DEF RestoreVenv, Step
  <2>3. i \in Installations /\ i.venv = base.venv /\ i.release = production.release
    BY <1>3, <1>6, <2>1, SetVenv
  <2>4. production.release = base.release
    BY <1>3, <2>2 DEF Backward
  <2>5. Backward("r_unit")'
    BY <2>2, <2>3, <2>4 DEF Step, Backward, Unrolled
  <2> QED BY <1>4, <1>5, <2>2, <2>3, <2>5, StepMoving
<1>10. CASE RestoreUnit(o)
  <2>1. PICK i : i = [production EXCEPT !.unit = base.unit]
    OBVIOUS
  <2>2. Step(o, "r_unit", "r_isvc", i) /\ op[o].pc = "r_unit"
    BY <1>3, <1>10, <2>1 DEF RestoreUnit, Step
  <2>3. /\ i \in Installations /\ i.unit = base.unit
        /\ i.venv = production.venv /\ i.release = production.release
    BY <1>3, <1>6, <2>1, SetUnit
  <2>4. production.release = base.release /\ production.venv = base.venv
    BY <1>3, <2>2 DEF Backward, Unrolled
  <2>5. Backward("r_isvc")'
    BY <2>2, <2>3, <2>4 DEF Step, Backward, Unrolled
  <2> QED BY <1>4, <1>5, <2>2, <2>3, <2>5, StepMoving
<1>11. CASE RestoreIngestService(o)
  <2>1. PICK i : i = [production EXCEPT !.isvc = base.isvc]
    OBVIOUS
  <2>2. Step(o, "r_isvc", "r_ipath", i) /\ op[o].pc = "r_isvc"
    BY <1>3, <1>11, <2>1 DEF RestoreIngestService, Step
  <2>3. i \in Installations /\ Links(production, i)
    BY <1>3, <1>6, <2>1, SetIsvc
  <2>4. Links(production, base)
    BY <1>3, <2>2 DEF Backward, Unrolled, Links
  <2>5. Backward("r_ipath")'
    BY <2>2, <2>3, <2>4 DEF Step, Backward, Unrolled, Links
  <2> QED BY <1>4, <1>5, <2>2, <2>3, <2>5, StepMoving
<1>12. CASE RestoreIngestPath(o)
  <2>1. PICK i : i = [production EXCEPT !.ipath = base.ipath]
    OBVIOUS
  <2>2. Step(o, "r_ipath", "r_restart", i) /\ op[o].pc = "r_ipath"
    BY <1>3, <1>12, <2>1 DEF RestoreIngestPath, Step
  <2>3. i \in Installations /\ Links(production, i)
    BY <1>3, <1>6, <2>1, SetIpath
  <2>4. Links(production, base)
    BY <1>3, <2>2 DEF Backward, Unrolled, Links
  <2>5. Backward("r_restart")'
    BY <2>2, <2>3, <2>4 DEF Step, Backward, Unrolled, Links
  <2> QED BY <1>4, <1>5, <2>2, <2>3, <2>5, StepMoving
<1>13. CASE RestoreService(o)
  <2>1. PICK y : y = IF base.runs = None THEN None ELSE Loaded(production)
    OBVIOUS
  <2>2. PICK i : i = [production EXCEPT !.enabled = base.enabled, !.runs = y]
    OBVIOUS
  <2>3. Step(o, "r_restart", "r_watch", i) /\ op[o].pc = "r_restart"
    BY <1>3, <1>13, <2>1, <2>2 DEF RestoreService, Step
  <2>4. y \in Processes
    BY <1>3, <2>1, LoadedType DEF Processes
  <2>5. i \in Installations /\ Links(production, i) /\ i.runs = y
    BY <1>3, <1>6, <2>2, <2>4 DEF Installations, Links
  <2>6. Links(production, base)
    BY <1>3, <2>3 DEF Backward, Unrolled, Links
  <2>7. Loaded(production) = Loaded(base)
    BY <1>3, <2>6, LoadedType
  <2>8. i.runs = IF base.runs = None THEN None ELSE Loaded(base)
    BY <2>1, <2>5, <2>7
  <2>9. production' = i /\ base' = base
    BY <2>3 DEF Step
  <2>10. /\ production'.release = base'.release /\ production'.venv = base'.venv
         /\ production'.unit = base'.unit
    BY <2>5, <2>6, <2>9 DEF Links
  <2>11. Loaded(base)' = Loaded(base)
    BY <2>9 DEF Loaded
  <2>12. Backward("r_watch")'
    BY <2>8, <2>9, <2>10, <2>11 DEF Backward, Unrolled
  <2> QED BY <1>4, <1>5, <2>3, <2>5, <2>12, StepMoving
<1>14. CASE RestoreWatch(o)
  <2>1. PICK i : i = [production EXCEPT !.watching = base.watching]
    OBVIOUS
  <2>2. Step(o, "r_watch", "r_idle", i) /\ op[o].pc = "r_watch" /\ production' = i /\ base' = base
    BY <1>3, <1>14, <2>1 DEF RestoreWatch, Step
  <2>3. i \in Installations /\ Links(production, i) /\ i.runs = production.runs
    BY <1>3, <1>6, <2>1, SetWatching DEF App
  <2>4. /\ Links(production, base)
        /\ production.runs = IF base.runs = None THEN None ELSE Loaded(base)
    BY <1>3, <2>2 DEF Backward, Unrolled, Links
  <2>5. Loaded(base)' = Loaded(base)
    BY <2>2 DEF Loaded
  <2>6. Backward("r_idle")'
    BY <2>2, <2>3, <2>4, <2>5 DEF Backward, Unrolled, Links
  <2> QED BY <1>4, <1>5, <2>2, <2>3, <2>6, StepMoving
<1>15. CASE RestoreIdle(o)
  <2>1. /\ Step(o, "r_idle", "r_verify", production) /\ op[o].pc = "r_idle"
        /\ production' = production /\ base' = base
    BY <1>15 DEF RestoreIdle, Step
  <2>2. /\ Links(production, base)
        /\ production.runs = IF base.runs = None THEN None ELSE Loaded(base)
    BY <1>3, <2>1 DEF Backward, Unrolled, Links
  <2>3. Loaded(base)' = Loaded(base)
    BY <2>1 DEF Loaded
  <2>4. Backward("r_verify")'
    BY <2>1, <2>2, <2>3 DEF Backward, Unrolled, Links
  <2> QED BY <1>3, <1>4, <1>5, <2>1, <2>4, StepMoving
<1>16. CASE RolledBack(o)
  <2>1. op[o].pc = "r_verify" /\ AsBefore(o) /\ Ends(o, "rolled_back") /\ faults' = faults
    BY <1>16 DEF RolledBack
  <2>2. production.runs = IF base.runs = None THEN None ELSE Loaded(base)
    BY <1>3, <2>1 DEF Backward, Unrolled
  <2>3. Healthy(o, production)
    BY <1>3, <2>1, <2>2, RestoredHealthy
  <2> QED BY <1>2, <2>1, <2>3, Ending DEF MayEnd, Markers, Typed
<1>17. CASE NotRestored(o)
  <2>1. Ends(o, "restore_failed") /\ faults' = faults
    BY <1>17 DEF NotRestored
  <2> QED BY <1>2, <2>1, Ending DEF MayEnd, Markers, Torn, Typed
<1> QED
  BY <1>7, <1>8, <1>9, <1>10, <1>11, <1>12, <1>13, <1>14, <1>15, <1>16, <1>17 DEF Restores

\* Turning back: the preparation resumes the path unit, the activation is restored.
LEMMA Recovering ==
    ASSUME PInv, NEW o \in ProductionOps, op[o].pc \in Preparing \cup Changing,
           op' = [op EXCEPT ![o].pc = Recovery(op[o].pc)],
           UNCHANGED <<production, data, archived, done, due, missed, lock, base>>,
           faults' \in 0..MaxFaults
    PROVE  PInv'
<1>1. /\ lock = o /\ Work(o) /\ MarkerTells(op[o]) /\ Typed
      /\ op \in [ProductionOps -> Operations] /\ op[o].marker \in Markers
      /\ op[o].target \in Releases
  <2>1. op[o].pc \notin Idling
    BY DEF Idling, Preparing, Changing
  <2> QED BY <2>1, AtWork
<1>2. Typed'
  BY <1>1 DEF Typed
<1>3. PICK to, m, t, d : /\ to = Recovery(op[o].pc) /\ op[o].marker = m /\ op[o].target = t
                         /\ op[o].plan.data = d
  OBVIOUS
<1>4. op[o].pc # "locked"
  BY DEF Preparing, Changing
<1>5. op[o].plan.before = base /\ d \in 1..data /\ Kept(op[o].pc, m)
  BY <1>1, <1>3, <1>4 DEF Work
<1>6. to \in {"p_watch", "r_quiesce"}
  BY <1>3 DEF Recovery
<1>7. Became(o, to, m)
  BY <1>1, <1>3, <1>6, StepBecomes DEF Places, Resuming, Restoring
<1>8. CASE op[o].pc \in Preparing
  <2>1. to = "p_watch"
    BY <1>3, <1>8 DEF Recovery
  <2>2. m \in {"none", "preparation_starting"}
    BY <1>1, <1>3, <1>8 DEF MarkerTells, Preparing
  <2>3. Kept("p_watch", m)'
    BY <1>5, <1>8 DEF Kept, Preparing, Resuming
  <2>4. \A r : r.pc = "p_watch" /\ r.marker = m /\ r.target = t => MarkerTells(r)
    BY <1>1, <1>3, <2>2 DEF MarkerTells, Resuming, Changing, Restoring
  <2>5. "p_watch" \in Places \ Idling
    BY NotPlaced DEF Idling
  <2> QED BY <1>1, <1>2, <1>3, <1>5, <1>7, <2>1, <2>3, <2>4, <2>5, StillThere, NotPlaced, Onward
<1>9. CASE op[o].pc \in Changing
  <2>1. to = "r_quiesce"
    BY <1>3, <1>9 DEF Recovery, Changing, Preparing
  <2>2. m = "mutation_starting"
    BY <1>1, <1>3, <1>9 DEF MarkerTells
  <2>3. "r_quiesce" \in Moves
    BY DEF Moves, Restoring
  <2> QED BY <1>1, <1>2, <1>3, <1>5, <1>7, <2>1, <2>2, <2>3, Moving, StillThere, NotPlaced, Onward
<1> QED BY <1>8, <1>9

\* Whatever an operation is doing when it is killed, its marker tells enough.
LEMMA KilledTells ==
    ASSUME PInv, NEW o \in ProductionOps, op[o].pc \notin Idling
    PROVE  MayEnd(o, op[o].marker)
<1>1. /\ Work(o) /\ MarkerTells(op[o]) /\ Typed /\ op[o].pc \in Places
  BY AtWork
<1>2. /\ Healthy(o, base) /\ Kept(op[o].pc, op[o].marker)
      /\ base \in Installations /\ production \in Installations
  BY <1>1 DEF Work, Typed
<1>3. op[o].marker \in {"none", "preparation_starting", "mutation_starting"}
  BY <1>1 DEF MarkerTells, Places, Idling, Preparing, Resuming
<1>4. CASE op[o].marker = "none"
  BY <1>2, <1>4 DEF Kept, MayEnd
<1>5. CASE op[o].marker = "preparation_starting"
  <2>1. op[o].pc \in Preparing \cup {"mark2"} \cup Resuming
    BY <1>1, <1>5 DEF MarkerTells, Places, Idling, Preparing, Resuming
  <2>2. production = [base EXCEPT !.watching = production.watching]
    BY <1>2, <2>1 DEF Kept
  <2> QED BY <1>2, <1>5, <2>2, Prepared DEF MayEnd
<1>6. CASE op[o].marker = "mutation_starting"
  BY <1>6 DEF MayEnd, Torn
<1> QED BY <1>3, <1>4, <1>5, <1>6

LEMMA FaultType ==
    ASSUME faults \in 0..MaxFaults, Fault
    PROVE  faults' \in 0..MaxFaults
  BY ProductionAssumption DEF Fault

LEMMA FaultsKeeps ==
    ASSUME PInv, NEW o \in ProductionOps,
           TurnBack(o) \/ Fails(o) \/ MarkerFails(o) \/ RestoreFails(o) \/ Kill(o)
    PROVE  PInv'
<1>1. CASE TurnBack(o)
  <2>1. Refuted(o) /\ Step(o, op[o].pc, Recovery(op[o].pc), production)
    BY <1>1 DEF TurnBack
  <2>2. op[o].pc \in Preparing \cup Changing
    BY <2>1 DEF Refuted, Preparing, Changing
  <2>3. Typed
    BY <2>2, AtWork DEF Idling, Preparing, Changing
  <2>4. /\ op' = [op EXCEPT ![o].pc = Recovery(op[o].pc)]
        /\ UNCHANGED <<production, data, archived, done, due, missed, lock, base>>
        /\ faults' \in 0..MaxFaults
    BY <2>1, <2>3 DEF Step, Typed
  <2> QED BY <2>2, <2>4, Recovering
<1>2. CASE Fails(o)
  <2>1. op[o].pc \in Preparing \cup Changing
    BY <1>2 DEF Fails
  <2>2. Typed /\ op \in [ProductionOps -> Operations]
    BY <2>1, AtWork DEF Idling, Preparing, Changing
  <2>3. /\ op' = [op EXCEPT ![o].pc = Recovery(op[o].pc)]
        /\ UNCHANGED <<production, data, archived, done, due, missed, lock, base>>
    BY <1>2, <2>2 DEF Fails
  <2>4. faults' \in 0..MaxFaults
    BY <1>2, <2>2, FaultType DEF Fails, Typed
  <2> QED BY <2>1, <2>3, <2>4, Recovering
<1>3. CASE MarkerFails(o) \/ RestoreFails(o) \/ Kill(o)
  <2>1. op[o].pc \notin Idling
    BY <1>3 DEF MarkerFails, RestoreFails, Kill, Idling, Restoring, Resuming
  <2>2. /\ Typed /\ lock = o /\ op[o].target \in Releases /\ op[o].marker \in Markers
    BY <2>1, AtWork
  <2>3. faults' \in 0..MaxFaults
    BY <1>3, <2>2, FaultType DEF MarkerFails, RestoreFails, Kill, Typed
  <2>4. CASE RestoreFails(o)
    BY <2>2, <2>3, <2>4, Ending DEF RestoreFails, MayEnd, Torn, Markers
  <2>5. CASE MarkerFails(o) \/ Kill(o)
    <3>1. PICK m \in Markers : m = op[o].marker
      BY <2>2
    <3>2. Ends(o, m)
      BY <2>5, <3>1 DEF MarkerFails, Kill
    <3>3. MayEnd(o, m)
      BY <2>1, <3>1, KilledTells
    <3> QED BY <2>2, <2>3, <3>2, <3>3, Ending
  <2> QED BY <1>3, <2>4, <2>5
<1> QED BY <1>1, <1>2, <1>3

\* What is archived or made current meanwhile is covered: at "watch" the operation misses what
\* is archived, later the path unit starts the ingest; what becomes current before the last
\* check is newer than what the operation was planned from.
LEMMA StoreCovers ==
    ASSUME TypeOK, Publish \/ MoveCurrent \/ Ingest, NEW o \in ProductionOps,
           NEW pc \in Seen, NEW t \in Ingesting, NEW d \in 1..data, op[o].pc = pc, Forward(pc, t, d)
    PROVE  Covered(pc, d)'
<1>1. /\ data \in Nat /\ done \in Nat /\ archived \subseteq Nat /\ d \in Nat /\ d <= data
      /\ due \in BOOLEAN
  BY ProductionAssumption DEF TypeOK
<1>2. Covered(pc, d)
  BY DEF Forward
<1>3. CASE Publish
  <2>1. PICK n \in 1 .. MaxSnapshots :
          /\ archived' = archived \cup {n} /\ missed \subseteq missed'
          /\ (\E p \in ProductionOps : op[p].pc = "watch") => n \in missed'
    BY <1>3 DEF Publish
  <2>2. data' = data /\ done' = done /\ (due \/ production.watching => due')
    BY <1>3 DEF Publish
  <2>3. n \in missed' \/ due'
    <3>1. CASE pc = "watch"
      BY <2>1, <3>1
    <3>2. CASE pc # "watch"
      <4>1. production.watching = (t \in Ingesting)
        BY <3>2 DEF Forward, Seen, Watched
      <4> QED BY <2>2, <4>1
    <3> QED BY <3>1, <3>2
  <2> QED BY <1>2, <2>1, <2>2, <2>3 DEF Covered
<1>4. CASE MoveCurrent
  <2>1. PICK n \in archived :
          /\ n > data /\ Newest(n) /\ data' = n
          /\ (\E p \in ProductionOps : op[p].pc = "complete") => missed' = missed
    BY <1>4 DEF MoveCurrent
  <2>2. archived' = archived /\ done' = done /\ due' = due
    BY <1>4 DEF MoveCurrent
  <2>3. CASE pc = "complete"
    <3>1. missed' = missed
      BY <2>1, <2>3
    <3> QED BY <1>2, <2>1, <2>2, <2>3, <3>1 DEF Covered
  <2>4. CASE pc # "complete"
    <3>1. \A m \in archived \cup {n} : m <= n
      BY <1>1, <2>1 DEF Newest
    <3> QED BY <1>1, <2>1, <2>2, <2>4, <3>1 DEF Covered
  <2> QED BY <2>3, <2>4
<1>5. CASE Ingest
  <2>1. /\ archived' = archived /\ data' = data
        /\ \A n \in archived \cup {data} : n <= done'
    BY <1>1, <1>5 DEF Ingest, IngestsAll, Newest
  <2> QED BY <2>1 DEF Covered
<1> QED BY <1>3, <1>4, <1>5

\* The publisher and the ingest service disturb nothing an operation relies on.
LEMMA StoreKeeps ==
    ASSUME PInv, Publish \/ MoveCurrent \/ Ingest
    PROVE  PInv'
<1>1. TypeOK
  BY DEF PInv
<1>2. UNCHANGED <<production, lock, base, op, faults>>
  BY DEF Publish, MoveCurrent, Ingest
<1>3. /\ data' \in 1..MaxSnapshots /\ data <= data' /\ done' \in 0..MaxSnapshots
      /\ archived' \subseteq 1..MaxSnapshots /\ missed' \subseteq archived' /\ due' \in BOOLEAN
  <2>1. /\ data \in 1..MaxSnapshots /\ done \in 0..MaxSnapshots
        /\ archived \subseteq 1..MaxSnapshots /\ missed \subseteq archived
        /\ due \in BOOLEAN /\ production \in Installations
    BY <1>1 DEF TypeOK
  <2>2. CASE Publish
    <3>1. due' \in BOOLEAN
      BY <2>2 DEF Publish
    <3> QED BY <2>1, <2>2, <3>1 DEF Publish
  <2>3. CASE MoveCurrent
    BY <2>1, <2>3 DEF MoveCurrent
  <2>4. CASE Ingest
    <3>1. due' \in BOOLEAN
      BY <2>4 DEF Ingest
    <3>2. done' \in archived \cup {data}
      BY <2>4 DEF Ingest, IngestsAll
    <3> QED BY <2>1, <2>4, <3>1, <3>2 DEF Ingest
  <2> QED BY <2>2, <2>3, <2>4
<1>4. TypeOK'
  BY <1>1, <1>2, <1>3 DEF TypeOK
<1>5. (lock = None => TornIsMarked)'
  BY <1>2 DEF PInv, TornIsMarked
<1>6. ASSUME NEW o \in ProductionOps, lock' = o
      PROVE  Work(o)'
  <2>1. Work(o)
    BY <1>2, <1>6 DEF PInv
  <2>2. Healthy(o, base)'
    BY <1>2, <2>1 DEF Work, Healthy, Others
  <2>3. (op[o].pc # "locked" => op[o].plan.before = base /\ op[o].plan.data \in 1..data)'
    BY <1>1, <1>2, <1>3, <2>1 DEF Work, TypeOK
  <2>4. Kept(op[o].pc, op[o].marker)' /\ Backward(op[o].pc)'
    BY <1>2, <2>1 DEF Work, Kept, Backward, Loaded
  <2>5. PICK pc, t, d : op[o].pc = pc /\ op[o].target = t /\ op[o].plan.data = d
    OBVIOUS
  <2>6. Forward(pc, t, d)
    BY <2>1, <2>5 DEF Work
  <2>7. /\ pc \in VenvSet \cup {"venv"} => production'.release = t
        /\ pc \in VenvSet => production'.venv = t
        /\ pc \in VenvSet \ {"unit"} => production'.unit = t
        /\ pc \in Started => production'.runs = <<t, t>>
        /\ pc \in Watched => production'.watching = (t \in Ingesting)
        /\ pc \in Checked => /\ production'.isvc = IngestUnit(t)
                             /\ production'.ipath = IngestUnit(t)
        /\ pc = "complete" => production'.enabled
    BY <1>2, <2>6 DEF Forward
  <2>8. pc \in Checked => (t \in Ingesting => done' >= d)
    <3>1. pc # "locked" \/ pc \notin Checked
      BY DEF Checked
    <3>2. pc \in Checked => d \in 1..data
      BY <2>1, <2>5, <3>1 DEF Work
    <3>3. pc \in Checked => (t \in Ingesting => done >= d)
      BY <2>6 DEF Forward
    <3>4. done' = done \/ Ingest
      BY DEF Publish, MoveCurrent, Ingest
    <3>5. Ingest => data <= done'
      BY <1>1 DEF Ingest, IngestsAll, Newest, TypeOK
    <3> QED BY <1>1, <1>3, <3>2, <3>3, <3>4, <3>5 DEF TypeOK
  <2>9. pc \in Seen /\ t \in Ingesting => Covered(pc, d)'
    <3>1. pc \in Seen => pc # "locked"
      BY DEF Seen
    <3>2. pc \in Seen => d \in 1..data
      BY <2>1, <2>5, <3>1 DEF Work
    <3> QED BY <1>1, <2>5, <2>6, <3>2, StoreCovers
  <2>10. Forward(pc, t, d)'
    BY <2>7, <2>8, <2>9 DEF Forward, Covered
  <2>11. Forward(op[o].pc, op[o].target, op[o].plan.data)'
    BY <1>2, <2>5, <2>10 DEF Forward, Covered
  <2> QED BY <2>2, <2>3, <2>4, <2>11 DEF Work
<1> QED BY <1>2, <1>4, <1>5, <1>6 DEF PInv

\* Neither does a step of the staging tool.
LEMMA ApartKeeps ==
    ASSUME PInv, UNCHANGED productionVars, faults' \in 0..MaxFaults
    PROVE  PInv'
  BY DEF PInv, productionVars, TypeOK, TornIsMarked, Work, Healthy, Others, Kept, Forward, Covered,
         Backward, Loaded

(***************************************************************************)
(* The production tool: the invariant and what it gives.                   *)
(***************************************************************************)

LEMMA PInit ==
    ASSUME Init, faults = 0
    PROVE  PInv
<1>1. PICK r \in FirstInstalled : production = IF r = None THEN Nothing ELSE Whole(r)
  BY DEF Init
<1>2. r \in Maybe
  BY ProductionAssumption
<1>3. production \in Installations
  BY <1>1, <1>2, NoPlanType, WholeParts DEF Maybe
<1>4. /\ IsWhole(production) /\ production.watching = (production.ipath # None)
  <2>1. CASE r = None
    <3>1. production = Nothing
      BY <1>1, <2>1
    <3>2. /\ production.release = None /\ production.venv = None /\ production.unit = None
          /\ production.isvc = None /\ production.ipath = None /\ production.enabled = FALSE
          /\ production.runs = None /\ production.watching = FALSE
      BY <3>1 DEF Nothing
    <3> QED BY <1>3, <3>2, WholeIs
  <2>2. CASE r \in Releases
    <3>1. production = Whole(r)
      BY <1>1, <2>2, ReleasesAssumption
    <3>2. /\ production.release = r /\ production.venv = r /\ production.unit = r
          /\ production.isvc = IngestUnit(r) /\ production.ipath = IngestUnit(r)
          /\ production.enabled = TRUE /\ production.runs = <<r, r>>
          /\ production.watching = (r \in Ingesting)
      BY <3>1 DEF Whole
    <3> QED BY <1>3, <2>2, <3>2, WholeIs, WholeParts
  <2> QED BY <1>2, <2>1, <2>2 DEF Maybe
<1>5. /\ op \in [ProductionOps -> Operations]
      /\ \A o \in ProductionOps : op[o].pc = "idle" /\ op[o].marker = "none"
  BY NoPlanType DEF Init, Operations, Markers
<1>6. lock = None /\ base \in Installations
  BY NoPlanType DEF Init
<1>7. TypeOK
  <2>1. /\ data \in 1..MaxSnapshots /\ done \in 0..MaxSnapshots
        /\ archived \subseteq 1..MaxSnapshots /\ missed \subseteq archived
        /\ faults \in 0..MaxFaults
    BY ProductionAssumption DEF Init
  <2>2. due \in BOOLEAN
    BY DEF Init
  <2>3. \A o \in ProductionOps : (op[o].pc \notin {"idle", "planned", "end"}) <=> lock = o
    BY <1>5, <1>6, ProductionAssumption
  <2> QED BY <1>3, <1>5, <1>6, <2>1, <2>2, <2>3 DEF TypeOK
<1>8. \A o \in ProductionOps : MarkerTells(op[o])
  BY <1>5 DEF MarkerTells, Resuming, Changing, Restoring
<1>9. TornIsMarked
  BY <1>4 DEF TornIsMarked
<1>10. \A o \in ProductionOps : lock # o
  BY <1>6, ProductionAssumption
<1> QED BY <1>7, <1>8, <1>9, <1>10 DEF PInv

LEMMA PNext ==
    ASSUME PInv, stagingData \in Nat, stagingStarts \in Nat, Next
    PROVE  PInv'
<1>1. CASE Publish \/ MoveCurrent \/ Ingest
  BY <1>1, StoreKeeps
<1>2. ASSUME NEW o \in ProductionOps,
             \/ Begins(o) \/ Prepares(o) \/ Activates(o) \/ Restores(o)
             \/ TurnBack(o) \/ Fails(o) \/ MarkerFails(o) \/ RestoreFails(o) \/ Kill(o)
      PROVE  PInv'
  <2>1. PICK t, d : op[o].target = t /\ op[o].plan.data = d
    OBVIOUS
  <2> QED BY <1>2, <2>1, BeginsKeeps, PreparesKeeps, ActivatesKeeps, RestoresKeeps, FaultsKeeps
<1> QED BY <1>1, <1>2 DEF Next

\* The invariant says it also while an operation is at work.
LEMMA MarkersTell ==
    ASSUME PInv
    PROVE  TornIsMarked
<1>1. CASE lock = None
  BY <1>1 DEF PInv
<1>2. ASSUME NEW o \in ProductionOps, lock = o
      PROVE  TornIsMarked
  <2>1. op[o].pc \notin Idling
    BY <1>2, Holder DEF PInv
  <2>2. MayEnd(o, op[o].marker)
    BY <2>1, KilledTells
  <2>3. ~IsWhole(production) => op[o].marker \in Torn \/ Others(o, Torn)
    BY <2>2 DEF MayEnd, Healthy
  <2>4. production.watching # (production.ipath # None) => op[o].marker \in Off \/ Others(o, Off)
    BY <2>2 DEF MayEnd, Healthy, Off
  <2>5. Off = {"preparation_starting", "mutation_starting", "restore_failed"}
    BY DEF Off, Torn
  <2>6. \A ms : op[o].marker \in ms \/ Others(o, ms) => \E p \in ProductionOps : op[p].marker \in ms
    BY DEF Others
  <2>7. ~IsWhole(production) => \E p \in ProductionOps : op[p].marker \in Torn
    BY <2>3, <2>6
  <2>8. production.watching # (production.ipath # None) =>
          \E p \in ProductionOps : op[p].marker \in Off
    BY <2>4, <2>6
  <2> QED BY <2>5, <2>7, <2>8 DEF TornIsMarked, Torn
<1> QED BY <1>1, <1>2 DEF PInv, TypeOK

\* The markers that report an end in order, and the three steps that write them.
Reports == {"rolled_back", "preparation_failed_runtime_restored", "complete"}

LEMMA MarkerStays ==
    ASSUME op \in [ProductionOps -> Operations], NEW p \in ProductionOps, NEW to,
           op' = [op EXCEPT ![p].pc = to], NEW o \in ProductionOps
    PROVE  op'[o].marker = op[o].marker
  BY DEF Operations

LEMMA EndMarker ==
    ASSUME op \in [ProductionOps -> Operations], NEW p \in ProductionOps, NEW m, Ends(p, m),
           NEW o \in ProductionOps
    PROVE  op'[o].marker = IF o = p THEN m ELSE op[o].marker
  BY DEF Operations, Ends

LEMMA NewReport ==
    ASSUME PInv, Next, NEW o \in ProductionOps, op[o].marker # op'[o].marker,
           op'[o].marker \in Reports
    PROVE  RolledBack(o) \/ Resumed(o) \/ Complete(o)
<1>1. op \in [ProductionOps -> Operations]
  BY DEF PInv, TypeOK
<1>2. PICK p \in ProductionOps :
        \/ Begins(p) \/ Prepares(p) \/ Activates(p) \/ Restores(p)
        \/ TurnBack(p) \/ Fails(p) \/ MarkerFails(p) \/ RestoreFails(p) \/ Kill(p)
  BY DEF Next, Publish, MoveCurrent, Ingest
<1>3. \A to : op' # [op EXCEPT ![p].pc = to]
  BY <1>1, MarkerStays
<1>4. \A from, to, i : ~Step(p, from, to, i) /\ ~QuiesceTo(p, from, to)
  BY <1>3 DEF Step, QuiesceTo
<1>5. \A m : Ends(p, m) => o = p /\ m \in Reports
  BY <1>1, EndMarker
<1>6. ~Ends(p, op[p].marker)
  <2>1. PICK m : m = op[p].marker
    OBVIOUS
  <2>2. SUFFICES ASSUME Ends(p, m) PROVE FALSE
    BY <2>1
  <2>3. op'[o].marker = IF o = p THEN m ELSE op[o].marker
    BY <1>1, <2>2, EndMarker
  <2> QED BY <2>1, <2>3
<1>7. ~Begins(p)
  <2>1. ~Plan(p)
    <3>1. SUFFICES ASSUME Plan(p) PROVE FALSE
      OBVIOUS
    <3>2. PICK kind \in {"promote", "rollback"}, r \in Releases :
            op' = [op EXCEPT ![p] = [@ EXCEPT !.pc = "planned", !.kind = kind, !.target = r,
                     !.plan = IF kind = "promote" THEN PlanNow
                              ELSE [PlanNow EXCEPT !.stagingData = 0, !.stagingStarts = 0]]]
      BY <3>1 DEF Plan
    <3>3. op'[o].marker = op[o].marker
      BY <1>1, <3>2 DEF Operations
    <3> QED BY <3>3
  <2>2. ~Lock(p)
    BY <1>3 DEF Lock
  <2>3. ~Locked(p) /\ ~Changed(p)
    BY <1>5 DEF Locked, Changed, Reports
  <2>4. ~Recheck(p)
    BY <1>4 DEF Recheck
  <2> QED BY <2>1, <2>2, <2>3, <2>4 DEF Begins
<1>8. \A to \in Places : \A m \in Markers :
        op' = [op EXCEPT ![p].pc = to, ![p].marker = m] => m \in Reports
  BY <1>1 DEF Operations
<1>9. ~MarkPreparing(p) /\ ~MarkMutation(p)
  BY <1>8 DEF MarkPreparing, MarkMutation, Reports, Markers, Places, Preparing, Changing
<1>10. Prepares(p) => Resumed(p)
  BY <1>3, <1>4, <1>9 DEF Prepares, Quiesce, Archive, Inspect, Resume
<1>11. Activates(p) => Complete(p)
  BY <1>3, <1>4, <1>9 DEF Activates, QuiesceAgain, SwitchRelease, SwitchVenv, InstallUnit,
      InstallIngestService, InstallIngestPath, Restart, Ready, InitialIngest, Watch, Verify,
      ReadyAgain
<1>12. ~NotRestored(p)
  BY <1>5 DEF NotRestored, Reports
<1>13. Restores(p) => RolledBack(p)
  BY <1>4, <1>12 DEF Restores, RestoreQuiesce, RestoreRelease, RestoreVenv, RestoreUnit,
      RestoreIngestService, RestoreIngestPath, RestoreService, RestoreWatch, RestoreIdle
<1>14. ~TurnBack(p) /\ ~MarkerFails(p) /\ ~RestoreFails(p) /\ ~Kill(p)
  BY <1>4, <1>5, <1>6 DEF TurnBack, MarkerFails, RestoreFails, Kill, Reports
<1>15. ~Fails(p)
  <2>1. Fails(p) => op' = [op EXCEPT ![p].pc = Recovery(op[p].pc)]
    BY <1>1 DEF Fails
  <2> QED BY <1>3, <2>1
<1>16. RolledBack(p) \/ Resumed(p) \/ Complete(p)
  BY <1>2, <1>7, <1>10, <1>11, <1>13, <1>14, <1>15
<1>17. p = o
  BY <1>5, <1>16 DEF RolledBack, Resumed, Complete
<1> QED BY <1>16, <1>17

LEMMA UndoneStep ==
    ASSUME PInv, Next, NEW o \in ProductionOps, op[o].marker # op'[o].marker,
           op'[o].marker \in {"rolled_back", "preparation_failed_runtime_restored"}
    PROVE  production' = base \/ production' = [base EXCEPT !.runs = Loaded(base)]
<1>1. op \in [ProductionOps -> Operations]
  BY DEF PInv, TypeOK
<1>2. RolledBack(o) \/ Resumed(o) \/ Complete(o)
  BY NewReport DEF Reports
<1>3. op[o].pc \notin Idling /\ op[o].pc # "locked"
  BY <1>2 DEF RolledBack, Resumed, Complete, Idling
<1>4. Work(o) /\ Typed
  BY <1>3, AtWork
<1>5. CASE Resumed(o)
  BY <1>4, <1>5 DEF Resumed, Ends, Work, Kept
<1>6. CASE RolledBack(o)
  <2>1. /\ op[o].pc = "r_verify" /\ AsBefore(o) /\ production' = production
    BY <1>6 DEF RolledBack, Ends
  <2>2. /\ op[o].plan.before = base /\ base \in Installations /\ production \in Installations
        /\ production.runs = IF base.runs = None THEN None ELSE Loaded(base)
    BY <1>3, <1>4, <2>1 DEF Work, Backward, Unrolled, Typed
  <2> QED BY <2>1, <2>2, Restored
<1>7. CASE Complete(o)
  <2>1. op'[o].marker = "complete"
    BY <1>1, <1>7, EndMarker DEF Complete
  <2> QED BY <2>1
<1> QED BY <1>2, <1>5, <1>6, <1>7

LEMMA CompleteStep ==
    ASSUME PInv, Next, NEW o \in ProductionOps, op[o].marker # "complete",
           op'[o].marker = "complete"
    PROVE  /\ production' = Whole(op[o].target)
           /\ op[o].target \in Ingesting => data' <= done' \/ due' \/ data' \in missed'
<1>1. op \in [ProductionOps -> Operations]
  BY DEF PInv, TypeOK
<1>2. RolledBack(o) \/ Resumed(o) \/ Complete(o)
  BY NewReport DEF Reports
<1>3. Complete(o)
  BY <1>1, <1>2, EndMarker DEF RolledBack, Resumed
<1>4. op[o].pc = "complete" /\ UNCHANGED <<production, data, done, due, missed>>
  BY <1>3 DEF Complete, Ends
<1>5. Work(o) /\ Typed /\ op[o].target \in Releases
  BY <1>4, AtWork DEF Idling
<1>6. PICK t \in Releases : op[o].target = t
  BY <1>5
<1>7. /\ production.release = t /\ production.venv = t /\ production.unit = t
      /\ production.runs = <<t, t>> /\ production.enabled
      /\ production.isvc = IngestUnit(t) /\ production.ipath = IngestUnit(t)
      /\ production.watching = (t \in Ingesting)
      /\ t \in Ingesting => data <= done \/ due \/ data \in missed
  BY <1>4, <1>5, <1>6 DEF Work, Forward, Covered, VenvSet, Started, Checked, Watched, Seen
<1>8. production \in Installations /\ production.enabled \in BOOLEAN
  BY <1>5, Fields DEF Typed
<1>9. /\ Whole(t) \in Installations
      /\ Whole(t).release = t /\ Whole(t).venv = t /\ Whole(t).unit = t
      /\ Whole(t).runs = <<t, t>> /\ Whole(t).enabled = TRUE
      /\ Whole(t).isvc = IngestUnit(t) /\ Whole(t).ipath = IngestUnit(t)
      /\ Whole(t).watching = (t \in Ingesting)
  BY WholeParts DEF Whole
<1>10. production.enabled = TRUE
  BY <1>7, <1>8
<1>11. production = Whole(t)
  BY <1>7, <1>8, <1>9, <1>10, SameParts
<1> QED BY <1>4, <1>6, <1>7, <1>11

(***************************************************************************)
(* The staging operations: the inductive invariant.                        *)
(***************************************************************************)

\* What an installation is, is the same for both tools.
LEMMA SameInstallations ==
    /\ S!Installations = Installations /\ S!Maybe = Maybe /\ S!Processes = Processes
    /\ S!Nothing = Nothing
    /\ \A r : S!IngestUnit(r) = IngestUnit(r) /\ S!Whole(r) = Whole(r)
    /\ \A i : S!Loaded(i) = Loaded(i)
  BY DEF S!Installations, Installations, S!Maybe, Maybe, S!Processes, Processes, S!Nothing, Nothing,
         S!IngestUnit, IngestUnit, S!Whole, Whole, S!Loaded, Loaded

SMoves  == S!Changing \cup S!Restoring
SPlaces == {"idle"} \cup SMoves \cup S!Ended

STyped == /\ staging \in Installations
          /\ stagingNewest \in 1..MaxStagingSnapshots
          /\ stagingData \in 1..stagingNewest /\ stagingDone \in 0..stagingNewest
          /\ stagingDue \in BOOLEAN
          /\ sop \in [StagingOps -> S!Operations]

\* What an installation of t that ran alone has put in its place when it is at pc.
SForward(pc, t, n) ==
    /\ pc \in VenvSet \cup {"venv"} => staging.release = t
    /\ pc \in VenvSet => staging.venv = t
    /\ pc \in Started => staging.runs \in {None, <<t, t>>}
    /\ pc = "again" => /\ staging.isvc = IngestUnit(t) /\ staging.ipath = IngestUnit(t)
                       /\ staging.watching = (t \in Ingesting)
                       /\ t \in Ingesting => stagingDone >= n

\* What a restore of b that ran alone has put back when it is at pc.
SBackward(pc, b) ==
    /\ pc \in Unrolled \cup {"r_venv"} => staging.release = b.release
    /\ pc \in Unrolled => staging.venv = b.venv
    /\ pc \in Unrolled \ {"r_unit"} => staging.unit = b.unit
    /\ pc \in {"r_watch", "r_verify"} =>
         staging.runs = IF b.runs = None THEN None ELSE Loaded(b)

\* Why a release may be found in staging: for good, or while an operation on it is under way.
Always(r)  == \/ r \in proven
              \/ \E s \in StagingOps : /\ sop[s].target = r
                                       /\ \/ sop[s].pc \in {"killed", "restore_failed"}
                                          \/ ~sop[s].alone
Vouched(r) == \/ Always(r)
              \/ \E s \in StagingOps : sop[s].target = r /\ sop[s].pc \in SMoves

SWork(o) ==
    /\ sop[o].pc = "idle" => sop[o].alone
    /\ sop[o].pc # "idle" => sop[o].target \in Releases
    /\ sop[o].pc \in SMoves /\ sop[o].alone =>
         /\ \A p \in StagingOps \ {o} : sop[p].pc \notin SMoves
         /\ SForward(sop[o].pc, sop[o].target, sop[o].snap)
         /\ SBackward(sop[o].pc, sop[o].before)
    /\ sop[o].pc \in SMoves /\ sop[o].before.release # None => Always(sop[o].before.release)

\* The starts of the app are counted by the operations that are past their restart.
Fresh   == {"idle", "stop", "release", "venv", "unit", "isvc", "ipath", "restart"}
Unredone == {"idle", "r_stop", "r_release", "r_venv", "r_unit", "r_isvc", "r_ipath", "r_restart"}
               \cup S!Changing
Past(f) == {o \in StagingOps : f[o].pc \notin Fresh}
Redone(f) == {o \in StagingOps : f[o].pc \notin Unredone}
SStarts == /\ stagingStarts \in Nat \ {0}
           /\ stagingStarts <= 1 + Cardinality(Past(sop)) + Cardinality(Redone(sop))

SInv == /\ STyped /\ SStarts /\ proven \subseteq Releases
        /\ \A o \in StagingOps : SWork(o)
        /\ staging.release # None => Vouched(staging.release)

(***************************************************************************)
(* How a staging operation changes.                                        *)
(***************************************************************************)

SOnlyOf(o) == /\ sop' \in [StagingOps -> S!Operations]
              /\ \A p \in StagingOps \ {o} : sop'[p] = sop[p]

SBecame(o, to) ==
    /\ SOnlyOf(o)
    /\ sop'[o].pc = to /\ sop'[o].target = sop[o].target /\ sop'[o].alone = sop[o].alone
    /\ to \notin S!Ended => sop'[o].before = sop[o].before /\ sop'[o].snap = sop[o].snap

LEMMA GoesBecomes ==
    ASSUME NEW o \in StagingOps, sop \in [StagingOps -> S!Operations], NEW to \in SPlaces,
           S!Goes(o, to)
    PROVE  SBecame(o, to)
<1>1. to \in {"idle"} \cup S!Changing \cup S!Restoring \cup S!Ended
  BY DEF SPlaces, SMoves
<1>2. S!Nothing \in S!Installations
  BY SameInstallations, NoPlanType
<1>3. CASE to \in S!Ended
  <2>1. sop' = [sop EXCEPT ![o] = [@ EXCEPT !.pc = to, !.before = S!Nothing, !.snap = 0]]
    BY <1>3 DEF S!Goes
  <2> QED BY <1>1, <1>2, <1>3, <2>1 DEF SBecame, SOnlyOf, S!Operations
<1>4. CASE to \notin S!Ended
  <2>1. sop' = [sop EXCEPT ![o] = [@ EXCEPT !.pc = to]]
    BY <1>4 DEF S!Goes
  <2> QED BY <1>1, <1>4, <2>1 DEF SBecame, SOnlyOf, S!Operations
<1> QED BY <1>3, <1>4

LEMMA Counted ==
    ASSUME NEW A \in SUBSET StagingOps, NEW B \in SUBSET StagingOps, A \subseteq B
    PROVE  /\ Cardinality(A) \in Nat /\ Cardinality(B) \in Nat
           /\ Cardinality(A) <= Cardinality(B)
           /\ A # B => Cardinality(A) + 1 <= Cardinality(B)
           /\ Cardinality(B) <= Cardinality(StagingOps) /\ Cardinality(StagingOps) \in Nat
<1>1. IsFiniteSet(StagingOps) /\ Cardinality(StagingOps) \in Nat
  BY DeploymentAssumption, FS_CardinalityType
<1>2. IsFiniteSet(B) /\ Cardinality(B) <= Cardinality(StagingOps)
  BY <1>1, FS_Subset
<1>3. IsFiniteSet(A) /\ Cardinality(A) <= Cardinality(B)
  BY <1>2, FS_Subset
<1>4. Cardinality(A) \in Nat /\ Cardinality(B) \in Nat
  BY <1>2, <1>3, FS_CardinalityType
<1>5. A # B => Cardinality(A) # Cardinality(B)
  BY <1>2, FS_Subset
<1> QED BY <1>1, <1>2, <1>3, <1>4, <1>5

\* The places an operation passes are passed for good.
LEMMA StartsStep ==
    ASSUME SStarts, sop \in [StagingOps -> S!Operations], NEW o \in StagingOps, NEW to,
           SBecame(o, to), NEW from, sop[o].pc = from,
           from \notin Fresh => to \notin Fresh, from \notin Unredone => to \notin Unredone,
           \/ stagingStarts' = stagingStarts
           \/ /\ stagingStarts' = stagingStarts + 1
              /\ \/ from \in Fresh /\ to \notin Fresh
                 \/ from \in Unredone /\ to \notin Unredone
    PROVE  SStarts'
<1>1. /\ sop'[o].pc = to /\ \A p \in StagingOps \ {o} : sop'[p] = sop[p]
  BY DEF SBecame, SOnlyOf
<1>2. PICK A, B, C, D : A = Past(sop) /\ B = Past(sop') /\ C = Redone(sop) /\ D = Redone(sop')
  OBVIOUS
<1>3. /\ A \in SUBSET StagingOps /\ B \in SUBSET StagingOps
      /\ C \in SUBSET StagingOps /\ D \in SUBSET StagingOps
  BY <1>2 DEF Past, Redone
<1>4. A \subseteq B /\ C \subseteq D
  BY <1>1, <1>2 DEF Past, Redone
<1>5. from \in Fresh /\ to \notin Fresh => A # B
  <2>1. SUFFICES ASSUME from \in Fresh, to \notin Fresh PROVE o \notin A /\ o \in B
    OBVIOUS
  <2> QED BY <1>1, <1>2, <2>1 DEF Past
<1>6. from \in Unredone /\ to \notin Unredone => C # D
  <2>1. SUFFICES ASSUME from \in Unredone, to \notin Unredone PROVE o \notin C /\ o \in D
    OBVIOUS
  <2> QED BY <1>1, <1>2, <2>1 DEF Redone
<1>7. PICK a, b, c, d : /\ a = Cardinality(A) /\ b = Cardinality(B) /\ c = Cardinality(C)
                        /\ d = Cardinality(D)
  OBVIOUS
<1>8. /\ a \in Nat /\ b \in Nat /\ a <= b /\ (A # B => a + 1 <= b)
  BY <1>3, <1>4, <1>7, Counted
<1>9. /\ c \in Nat /\ d \in Nat /\ c <= d /\ (C # D => c + 1 <= d)
  BY <1>3, <1>4, <1>7, Counted
<1>10. stagingStarts \in Nat \ {0} /\ stagingStarts <= 1 + a + c
  BY <1>2, <1>7 DEF SStarts
<1>11. \/ stagingStarts' = stagingStarts
       \/ stagingStarts' = stagingStarts + 1 /\ (a + 1 <= b \/ c + 1 <= d)
  BY <1>5, <1>6, <1>8, <1>9
<1>12. stagingStarts' \in Nat \ {0} /\ stagingStarts' <= 1 + b + d
  BY <1>8, <1>9, <1>10, <1>11
<1> QED BY <1>2, <1>7, <1>12 DEF SStarts

\* What is vouched for once and for all stays so.
LEMMA AlwaysStays ==
    ASSUME NEW o \in StagingOps, sop[o].pc \in SMoves, NEW to, SBecame(o, to),
           proven \subseteq proven'
    PROVE  \A x : Always(x) => Always(x)'
<1>1. sop[o].pc \notin {"killed", "restore_failed"}
  BY DEF SMoves, S!Changing, S!Restoring
<1>2. TAKE x
<1>3. SUFFICES ASSUME NEW s \in StagingOps, sop[s].target = x,
                      sop[s].pc \in {"killed", "restore_failed"} \/ ~sop[s].alone
               PROVE  Always(x)'
  BY DEF Always
<1>4. /\ sop'[s].target = x
      /\ sop'[s].pc \in {"killed", "restore_failed"} \/ ~sop'[s].alone
  BY <1>1, <1>3 DEF SBecame, SOnlyOf
<1> QED BY <1>4 DEF Always

LEMMA SOnward ==
    ASSUME SInv, NEW o \in StagingOps, sop[o].pc \in SMoves, NEW to \in SMoves \cup S!Ended,
           SBecame(o, to), STyped', SStarts', proven \subseteq proven', proven' \subseteq Releases,
           NEW t, NEW n, NEW b, sop[o].target = t, sop[o].snap = n, sop[o].before = b,
           to = "applied" => t \in proven',
           to \in SMoves /\ sop[o].alone => SForward(to, t, n)' /\ SBackward(to, b)',
           \/ staging'.release = staging.release
           \/ staging'.release = t /\ to \in SMoves
           \/ staging'.release = b.release,
           to = "restored" /\ sop[o].alone => staging'.release = b.release
    PROVE  SInv'
<1>1. /\ \A p \in StagingOps \ {o} : sop'[p] = sop[p]
      /\ sop'[o].pc = to /\ sop'[o].target = t /\ sop'[o].alone = sop[o].alone
      /\ to \in SMoves => sop'[o].before = b /\ sop'[o].snap = n
  BY DEF SBecame, SOnlyOf, SMoves, S!Changing, S!Restoring, S!Ended
<1>2. \A p \in StagingOps : SWork(p)
  BY DEF SInv
<1>3. \A x : Always(x) => Always(x)'
  BY AlwaysStays
<1>4. b.release # None => Always(b.release)
  BY <1>2 DEF SWork
<1>5. t \in Releases /\ to # "idle"
  BY <1>2 DEF SWork, SMoves, S!Changing, S!Restoring, S!Ended
<1>6. SWork(o)'
  <2>1. (sop[o].pc = "idle" => sop[o].alone)' /\ (sop[o].pc # "idle" => sop[o].target \in Releases)'
    BY <1>1, <1>5
  <2>2. ASSUME to \in SMoves, sop[o].alone
        PROVE  /\ \A p \in StagingOps \ {o} : sop'[p].pc \notin SMoves
               /\ SForward(sop[o].pc, sop[o].target, sop[o].snap)'
               /\ SBackward(sop[o].pc, sop[o].before)'
    <3>1. \A p \in StagingOps \ {o} : sop'[p].pc \notin SMoves
      BY <1>1, <1>2, <2>2 DEF SWork
    <3>2. sop'[o].pc = to /\ sop'[o].target = t /\ sop'[o].snap = n /\ sop'[o].before = b
      BY <1>1, <2>2
    <3>3. /\ SForward(sop[o].pc, sop[o].target, sop[o].snap)'
          /\ SBackward(sop[o].pc, sop[o].before)'
      BY <2>2, <3>2 DEF SForward, SBackward, Loaded
    <3> QED BY <3>1, <3>3
  <2>3. (sop[o].pc \in SMoves /\ sop[o].before.release # None => Always(sop[o].before.release))'
    <3>1. PICK x : x = b.release
      OBVIOUS
    <3>2. x # None => Always(x)'
      BY <1>3, <1>4, <3>1
    <3>3. to \in SMoves => sop'[o].before.release = x
      BY <1>1, <3>1
    <3> QED BY <1>1, <3>2, <3>3 DEF Always
  <2> QED BY <1>1, <2>1, <2>2, <2>3 DEF SWork
<1>7. ASSUME NEW p \in StagingOps \ {o}
      PROVE  SWork(p)'
  <2>1. SWork(p) /\ sop'[p] = sop[p]
    BY <1>1, <1>2
  <2>2. ~(sop[p].pc \in SMoves /\ sop[p].alone)
    BY <2>1 DEF SWork
  <2>3. PICK x : x = sop[p].before.release
    OBVIOUS
  <2>4. Always(x) => Always(x)'
    BY <1>3
  <2>5. (sop[p].pc \in SMoves /\ sop[p].before.release # None => Always(sop[p].before.release))'
    <3>1. sop[p].pc \in SMoves /\ x # None => Always(x)
      BY <2>1, <2>3 DEF SWork
    <3>2. sop'[p].before.release = x /\ sop'[p].pc = sop[p].pc
      BY <2>1, <2>3
    <3> QED BY <2>4, <3>1, <3>2 DEF Always
  <2> QED BY <2>1, <2>2, <2>5 DEF SWork
<1>8. ASSUME staging'.release # None
      PROVE  Vouched(staging.release)'
  <2>1. PICK x : x = staging'.release
    OBVIOUS
  <2>2. Vouched(x)'
    <3>1. CASE x = t /\ to \in SMoves
      BY <1>1, <3>1 DEF Vouched
    <3>2. CASE x = b.release
      BY <1>3, <1>4, <1>8, <2>1, <3>2 DEF Vouched
    <3>3. CASE x = staging.release
      <4>1. Vouched(x)
        BY <1>8, <2>1, <3>3 DEF SInv
      <4>2. CASE Always(x)
        BY <1>3, <4>2 DEF Vouched
      <4>3. CASE \E s \in StagingOps : sop[s].target = x /\ sop[s].pc \in SMoves
        <5>1. PICK s \in StagingOps : sop[s].target = x /\ sop[s].pc \in SMoves
          BY <4>3
        <5>2. CASE s # o
          BY <1>1, <5>1, <5>2 DEF Vouched
        <5>3. CASE s = o
          <6>1. x = t
            BY <5>1, <5>3
          <6>2. CASE to \in SMoves
            BY <3>1, <6>1, <6>2
          <6>3. CASE to = "applied"
            BY <6>1, <6>3 DEF Vouched, Always
          <6>4. CASE to \in {"killed", "restore_failed"} \/ ~sop[o].alone
            BY <1>1, <6>1, <6>4 DEF Vouched, Always
          <6>5. CASE to = "restored" /\ sop[o].alone
            BY <2>1, <3>2, <6>5
          <6> QED BY <6>2, <6>3, <6>4, <6>5 DEF S!Ended
        <5> QED BY <5>2, <5>3
      <4> QED BY <4>1, <4>2, <4>3 DEF Vouched
    <3> QED BY <2>1, <3>1, <3>2, <3>3
  <2> QED BY <2>1, <2>2 DEF Vouched, Always
<1> QED BY <1>6, <1>7, <1>8 DEF SInv

\* The releases verified by a step.
Proves == proven' = proven \cup {sop[s].target : s \in
              {t \in StagingOps : sop[t].pc # "applied" /\ sop'[t].pc = "applied"}}

LEMMA ProvesMore ==
    ASSUME SInv, Proves, NEW o \in StagingOps, sop[o].pc \in SMoves, NEW to, SBecame(o, to)
    PROVE  /\ proven \subseteq proven' /\ proven' \subseteq Releases
           /\ to = "applied" => sop[o].target \in proven'
<1>1. sop[o].target \in Releases /\ proven \subseteq Releases
  BY DEF SInv, SWork, SMoves, S!Changing, S!Restoring
<1>2. sop[o].pc # "applied"
  BY DEF SMoves, S!Changing, S!Restoring
<1>3. \A s \in StagingOps : sop[s].pc # "applied" /\ sop'[s].pc = "applied" => s = o
  BY DEF SBecame, SOnlyOf
<1>4. sop'[o].pc = to
  BY DEF SBecame
<1> QED BY <1>1, <1>2, <1>3, <1>4 DEF Proves

\* One place after the other: no restart is done twice.
Successive(from, to) ==
    /\ from \in SMoves /\ to \in SMoves \cup S!Ended
    /\ from \notin Fresh => to \notin Fresh
    /\ from \notin Unredone => to \notin Unredone
    /\ from = "restart" => to \notin Fresh
    /\ from = "r_restart" => to \notin Unredone

LEMMA SStep ==
    ASSUME SInv, Proves, NEW o \in StagingOps, NEW from, NEW to, Successive(from, to),
           NEW i \in Installations, S!Step(o, from, to, i),
           NEW t, NEW n, NEW b, sop[o].target = t, sop[o].snap = n, sop[o].before = b,
           to \in SMoves /\ sop[o].alone => SForward(to, t, n)' /\ SBackward(to, b)',
           \/ i.release = staging.release
           \/ i.release = t /\ to \in SMoves
           \/ i.release = b.release,
           to = "restored" /\ sop[o].alone => i.release = b.release
    PROVE  SInv'
<1>1. /\ sop[o].pc = from /\ staging' = i /\ S!Goes(o, to)
      /\ stagingStarts' = IF from \in {"restart", "r_restart"} THEN stagingStarts + 1
                          ELSE stagingStarts
      /\ UNCHANGED <<stagingData, stagingNewest, stagingDone, stagingDue, faults>>
  BY DEF S!Step
<1>2. STyped /\ SStarts
  BY DEF SInv
<1>3. from \in SMoves /\ to \in SMoves \cup S!Ended
  BY DEF Successive
<1>4. SBecame(o, to)
  BY <1>1, <1>2, <1>3, GoesBecomes DEF STyped, SPlaces
<1>5. STyped'
  BY <1>1, <1>2, <1>4 DEF STyped, SBecame, SOnlyOf
<1>6. SStarts'
  <2>1. "restart" \in Fresh /\ "r_restart" \in Unredone
    BY DEF Fresh, Unredone
  <2>2. from \notin Fresh => to \notin Fresh
    BY DEF Successive
  <2>3. from \notin Unredone => to \notin Unredone
    BY DEF Successive
  <2>4. \/ stagingStarts' = stagingStarts
        \/ /\ stagingStarts' = stagingStarts + 1
           /\ \/ from \in Fresh /\ to \notin Fresh
              \/ from \in Unredone /\ to \notin Unredone
    BY <1>1, <2>1 DEF Successive
  <2> QED BY <1>1, <1>2, <1>4, <2>2, <2>3, <2>4, StartsStep DEF STyped
<1>7. /\ proven \subseteq proven' /\ proven' \subseteq Releases
      /\ to = "applied" => t \in proven'
  BY <1>1, <1>3, <1>4, ProvesMore
<1> QED BY <1>1, <1>3, <1>4, <1>5, <1>6, <1>7, SOnward

\* What a step of an operation that is under way may use.
LEMMA SAtWork ==
    ASSUME SInv, NEW o \in StagingOps, sop[o].pc \in SMoves
    PROVE  /\ staging \in Installations /\ sop \in [StagingOps -> S!Operations]
           /\ sop[o].target \in Releases /\ sop[o].target \in Maybe
           /\ sop[o].before \in Installations
           /\ IngestUnit(sop[o].target) \in Maybe
           /\ sop[o].alone =>
                /\ SForward(sop[o].pc, sop[o].target, sop[o].snap)
                /\ SBackward(sop[o].pc, sop[o].before)
<1>1. /\ staging \in Installations /\ sop \in [StagingOps -> S!Operations]
      /\ sop[o].target \in Releases
      /\ sop[o].alone =>
                /\ SForward(sop[o].pc, sop[o].target, sop[o].snap)
                /\ SBackward(sop[o].pc, sop[o].before)
  BY DEF SInv, STyped, SWork, SMoves, S!Changing, S!Restoring
<1>2. sop[o].before \in Installations
  BY <1>1, SameInstallations DEF S!Operations
<1> QED BY <1>1, <1>2, WholeParts DEF Maybe

LEMMA SActivatesKeeps ==
    ASSUME SInv, Proves, NEW o \in StagingOps, S!Activates(o)
    PROVE  SInv'
<1>1. PICK t, n, b, k : sop[o].target = t /\ sop[o].snap = n /\ sop[o].before = b /\ sop[o].kind = k
  OBVIOUS
<1>2. sop[o].pc \in S!Changing
  BY DEF S!Activates, S!StopPath, S!SwitchRelease, S!SwitchVenv, S!InstallUnit,
         S!InstallIngestService, S!InstallIngestPath, S!Restart, S!Ready, S!InitialIngest, S!Watch,
         S!Verify, S!Applied, S!Step, S!Changing
<1>3. sop[o].pc \in SMoves
  BY <1>2 DEF SMoves
<1>4. /\ staging \in Installations /\ sop \in [StagingOps -> S!Operations]
      /\ t \in Releases /\ t \in Maybe /\ IngestUnit(t) \in Maybe /\ b \in Installations
      /\ sop[o].alone => SForward(sop[o].pc, t, n)
  BY <1>1, <1>3, SAtWork
<1>5. \A pc \in S!Changing : SBackward(pc, b)'
  BY DEF SBackward, S!Changing, Unrolled
<1>6. /\ Successive("stop", "release") /\ Successive("release", "venv")
      /\ Successive("venv", "unit") /\ Successive("unit", "isvc") /\ Successive("isvc", "ipath")
      /\ Successive("ipath", "restart") /\ Successive("restart", "ready")
      /\ Successive("ready", "ingest") /\ Successive("ready", "watch")
      /\ Successive("ingest", "watch") /\ Successive("watch", "verify")
      /\ Successive("verify", "again") /\ Successive("again", "applied")
  BY DEF Successive, SMoves, S!Changing, S!Restoring, S!Ended, Fresh, Unredone
<1>7. {"stop", "release", "venv", "unit", "isvc", "ipath", "restart", "ready", "ingest", "watch",
       "verify", "again"} \subseteq S!Changing
  BY DEF S!Changing
<1>8. /\ "applied" \notin SMoves
      /\ \A pc \in S!Changing : pc # "restored"
      /\ {"release", "venv", "unit", "isvc", "ipath", "restart", "ready"} \subseteq SMoves
  BY DEF SMoves, S!Changing, S!Restoring
<1>9. CASE S!StopPath(o)
  <2>1. PICK i : i = [staging EXCEPT !.watching = FALSE]
    OBVIOUS
  <2>2. S!Step(o, "stop", "release", i)
    BY <1>9, <2>1 DEF S!StopPath
  <2>3. i \in Installations /\ i.release = staging.release
    BY <1>4, <2>1, SetWatching DEF Links
  <2>4. SForward("release", t, n)'
    BY DEF SForward, VenvSet, Started
  <2> QED BY <1>1, <1>5, <1>6, <1>7, <1>8, <2>2, <2>3, <2>4, SStep
<1>10. CASE S!SwitchRelease(o)
  <2>1. PICK i : i = [staging EXCEPT !.release = t]
    OBVIOUS
  <2>2. S!Step(o, "release", "venv", i) /\ staging' = i
    BY <1>1, <1>10, <2>1 DEF S!SwitchRelease, S!Step
  <2>3. i \in Installations /\ i.release = t
    BY <1>4, <2>1, SetRelease
  <2>4. SForward("venv", t, n)'
    BY <2>2, <2>3 DEF SForward, VenvSet, Started
  <2> QED BY <1>1, <1>5, <1>6, <1>7, <1>8, <2>2, <2>3, <2>4, SStep
<1>11. CASE S!SwitchVenv(o)
  <2>1. PICK i : i = [staging EXCEPT !.venv = t]
    OBVIOUS
  <2>2. S!Step(o, "venv", "unit", i) /\ sop[o].pc = "venv" /\ staging' = i
    BY <1>1, <1>11, <2>1 DEF S!SwitchVenv, S!Step
  <2>3. i \in Installations /\ i.venv = t /\ i.release = staging.release
    BY <1>4, <2>1, SetVenv
  <2>4. sop[o].alone => staging.release = t
    BY <1>4, <2>2 DEF SForward
  <2>5. sop[o].alone => SForward("unit", t, n)'
    BY <2>2, <2>3, <2>4 DEF SForward, VenvSet, Started
  <2> QED BY <1>1, <1>5, <1>6, <1>7, <1>8, <2>2, <2>3, <2>5, SStep
<1>12. CASE S!InstallUnit(o)
  <2>1. PICK i : i = IF k = "install" THEN [staging EXCEPT !.unit = t] ELSE staging
    OBVIOUS
  <2>2. S!Step(o, "unit", "isvc", i) /\ sop[o].pc = "unit" /\ staging' = i
    BY <1>1, <1>12, <2>1 DEF S!InstallUnit, S!Step
  <2>3. i \in Installations /\ i.release = staging.release /\ i.venv = staging.venv
    <3>1. CASE k = "install"
      BY <1>4, <2>1, <3>1, SetUnit
    <3>2. CASE k # "install"
      BY <1>4, <2>1, <3>2
    <3> QED BY <3>1, <3>2
  <2>4. sop[o].alone => staging.release = t /\ staging.venv = t
    BY <1>4, <2>2 DEF SForward, VenvSet
  <2>5. sop[o].alone => SForward("isvc", t, n)'
    BY <2>2, <2>3, <2>4 DEF SForward, VenvSet, Started
  <2> QED BY <1>1, <1>5, <1>6, <1>7, <1>8, <2>2, <2>3, <2>5, SStep
<1>13. CASE S!InstallIngestService(o)
  <2>1. PICK i : i = [staging EXCEPT !.isvc = IngestUnit(t)]
    OBVIOUS
  <2>2. S!Step(o, "isvc", "ipath", i) /\ sop[o].pc = "isvc" /\ staging' = i
    BY <1>1, <1>13, <2>1, SameInstallations DEF S!InstallIngestService, S!Step
  <2>3. i \in Installations /\ Links(staging, i)
    BY <1>4, <2>1, SetIsvc
  <2>4. sop[o].alone => staging.release = t /\ staging.venv = t
    BY <1>4, <2>2 DEF SForward, VenvSet
  <2>5. sop[o].alone => SForward("ipath", t, n)'
    BY <2>2, <2>3, <2>4 DEF SForward, VenvSet, Started, Links
  <2>6. i.release = staging.release
    BY <2>3 DEF Links
  <2> QED BY <1>1, <1>5, <1>6, <1>7, <1>8, <2>2, <2>3, <2>5, <2>6, SStep
<1>14. CASE S!InstallIngestPath(o)
  <2>1. PICK i : i = [staging EXCEPT !.ipath = IngestUnit(t)]
    OBVIOUS
  <2>2. S!Step(o, "ipath", "restart", i) /\ sop[o].pc = "ipath" /\ staging' = i
    BY <1>1, <1>14, <2>1, SameInstallations DEF S!InstallIngestPath, S!Step
  <2>3. i \in Installations /\ Links(staging, i)
    BY <1>4, <2>1, SetIpath
  <2>4. sop[o].alone => staging.release = t /\ staging.venv = t
    BY <1>4, <2>2 DEF SForward, VenvSet
  <2>5. sop[o].alone => SForward("restart", t, n)'
    BY <2>2, <2>3, <2>4 DEF SForward, VenvSet, Started, Links
  <2>6. i.release = staging.release
    BY <2>3 DEF Links
  <2> QED BY <1>1, <1>5, <1>6, <1>7, <1>8, <2>2, <2>3, <2>5, <2>6, SStep
<1>15. CASE S!Restart(o)
  <2>1. PICK e, y : e = (staging.enabled \/ ~b.enabled) /\ y = Loaded(staging)
    OBVIOUS
  <2>2. PICK i : i = [staging EXCEPT !.enabled = e, !.runs = y]
    OBVIOUS
  <2>3. /\ S!Step(o, "restart", "ready",
                 [staging EXCEPT !.enabled = @ \/ ~sop[o].before.enabled,
                                 !.runs = S!Loaded(staging)])
        /\ sop[o].pc = "restart"
    BY <1>15 DEF S!Restart, S!Step
  <2>4. [staging EXCEPT !.enabled = @ \/ ~sop[o].before.enabled, !.runs = S!Loaded(staging)] = i
    BY <1>1, <1>4, <2>1, <2>2, SameInstallations DEF Installations
  <2>5. S!Step(o, "restart", "ready", i) /\ staging' = i
    BY <2>3, <2>4 DEF S!Step
  <2>6. e \in BOOLEAN
    BY <2>1
  <2>7. y \in Processes
    BY <1>4, <2>1, LoadedType
  <2>8. i \in Installations /\ Links(staging, i) /\ i.runs = y
    BY <1>4, <2>2, <2>6, <2>7 DEF Installations, Links
  <2>9. sop[o].alone => staging.release = t /\ staging.venv = t
    BY <1>4, <2>3 DEF SForward, VenvSet
  <2>10. sop[o].alone => y \in {None, <<t, t>>}
    BY <1>4, <2>1, <2>9, LoadedType
  <2>11. sop[o].alone => SForward("ready", t, n)'
    BY <2>5, <2>8, <2>9, <2>10 DEF SForward, VenvSet, Started, Links
  <2>12. i.release = staging.release
    BY <2>8 DEF Links
  <2> QED BY <1>1, <1>5, <1>6, <1>7, <1>8, <2>5, <2>8, <2>11, <2>12, SStep
<1>16. CASE S!Ready(o)
  <2>1. PICK to \in {"ingest", "watch"} : S!Step(o, "ready", to, staging) /\ sop[o].pc = "ready"
    BY <1>16 DEF S!Ready, S!Step
  <2>2. staging' = staging
    BY <2>1 DEF S!Step
  <2>3. sop[o].alone => SForward(to, t, n)'
    BY <1>4, <2>1, <2>2 DEF SForward, VenvSet, Started
  <2>4. Successive("ready", to) /\ to \in S!Changing
    BY <1>6, <1>7
  <2> QED BY <1>1, <1>4, <1>5, <1>8, <2>1, <2>3, <2>4, SStep
<1>17. CASE S!InitialIngest(o)
  <2>1. /\ sop[o].pc = "ingest" /\ stagingDone' = stagingNewest /\ S!Goes(o, "watch")
        /\ UNCHANGED <<staging, stagingData, stagingNewest, stagingDue, stagingStarts, faults>>
    BY <1>17 DEF S!InitialIngest
  <2>2. "watch" \in SPlaces /\ "watch" \in SMoves
    BY <1>7 DEF SPlaces, SMoves
  <2>3. SBecame(o, "watch")
    BY <1>4, <2>1, <2>2, GoesBecomes
  <2>4. sop[o].alone => SForward("watch", t, n)'
    BY <1>4, <2>1 DEF SForward, VenvSet, Started
  <2>5. STyped'
    BY <2>1, <2>3 DEF SInv, STyped, SBecame, SOnlyOf
  <2>6. SStarts'
    <3>1. "ingest" \notin Fresh => "watch" \notin Fresh
      BY DEF Fresh
    <3>2. "ingest" \notin Unredone => "watch" \notin Unredone
      BY <1>7 DEF Unredone
    <3>3. SStarts
      BY DEF SInv
    <3> QED BY <1>4, <2>1, <2>3, <3>1, <3>2, <3>3, StartsStep
  <2>7. proven \subseteq proven' /\ proven' \subseteq Releases
    BY <1>3, <2>3, ProvesMore
  <2> QED BY <1>1, <1>3, <1>5, <1>7, <2>1, <2>2, <2>3, <2>4, <2>5, <2>6, <2>7, SOnward
<1>18. CASE S!Watch(o)
  <2>1. PICK i : i = [staging EXCEPT !.watching = t \in Ingesting]
    OBVIOUS
  <2>2. S!Step(o, "watch", "verify", i) /\ sop[o].pc = "watch" /\ staging' = i
    BY <1>1, <1>18, <2>1 DEF S!Watch, S!Step
  <2>3. i \in Installations /\ Links(staging, i) /\ App(staging, i)
    <3>1. (t \in Ingesting) \in BOOLEAN
      OBVIOUS
    <3> QED BY <1>4, <2>1, <3>1, SetWatching
  <2>4. sop[o].alone => /\ staging.release = t /\ staging.venv = t
                        /\ staging.runs \in {None, <<t, t>>}
    BY <1>4, <2>2 DEF SForward, VenvSet, Started
  <2>5. sop[o].alone => SForward("verify", t, n)'
    BY <2>2, <2>3, <2>4 DEF SForward, VenvSet, Started, Links, App
  <2>6. i.release = staging.release
    BY <2>3 DEF Links
  <2> QED BY <1>1, <1>5, <1>6, <1>7, <1>8, <2>2, <2>3, <2>5, <2>6, SStep
<1>19. CASE S!Verify(o)
  <2>1. /\ S!Step(o, "verify", "again", staging) /\ sop[o].pc = "verify" /\ staging' = staging
        /\ stagingDone' = stagingDone
    BY <1>19 DEF S!Verify, S!Step
  <2>2. /\ staging.isvc = IngestUnit(t) /\ staging.ipath = IngestUnit(t)
        /\ staging.watching = (t \in Ingesting)
        /\ t \in Ingesting => stagingDone >= n
    BY <1>1, <1>19, SameInstallations DEF S!Verify, S!IngestReady
  <2>3. sop[o].alone => /\ staging.release = t /\ staging.venv = t
                        /\ staging.runs \in {None, <<t, t>>}
    BY <1>4, <2>1 DEF SForward, VenvSet, Started
  <2>4. sop[o].alone => SForward("again", t, n)'
    BY <2>1, <2>2, <2>3 DEF SForward, VenvSet, Started
  <2> QED BY <1>1, <1>4, <1>5, <1>6, <1>7, <1>8, <2>1, <2>4, SStep
<1>20. CASE S!Applied(o)
  <2>1. S!Step(o, "again", "applied", staging)
    BY <1>20 DEF S!Applied
  <2> QED BY <1>1, <1>4, <1>6, <1>8, <2>1, SStep
<1> QED
  BY <1>9, <1>10, <1>11, <1>12, <1>13, <1>14, <1>15, <1>16, <1>17, <1>18, <1>19, <1>20
  DEF S!Activates

LEMMA SRestoresKeeps ==
    ASSUME SInv, Proves, NEW o \in StagingOps, S!Restores(o)
    PROVE  SInv'
<1>1. PICK t, n, b : sop[o].target = t /\ sop[o].snap = n /\ sop[o].before = b
  OBVIOUS
<1>2. sop[o].pc \in S!Restoring
  BY DEF S!Restores, S!RestoreStop, S!RestoreRelease, S!RestoreVenv, S!RestoreUnit,
         S!RestoreIngestService, S!RestoreIngestPath, S!RestoreRestart, S!RestoreWatch, S!Restored,
         S!NotRestored, S!Step, S!Restoring
<1>3. sop[o].pc \in SMoves
  BY <1>2 DEF SMoves
<1>4. /\ staging \in Installations /\ sop \in [StagingOps -> S!Operations]
      /\ b \in Installations
      /\ sop[o].alone => SBackward(sop[o].pc, b)
  BY <1>1, <1>3, SAtWork
<1>5. \A pc \in S!Restoring : SForward(pc, t, n)'
  BY DEF SForward, S!Restoring, VenvSet, Started
<1>6. /\ Successive("r_stop", "r_release") /\ Successive("r_release", "r_venv")
      /\ Successive("r_venv", "r_unit") /\ Successive("r_unit", "r_isvc")
      /\ Successive("r_isvc", "r_ipath") /\ Successive("r_ipath", "r_restart")
      /\ Successive("r_restart", "r_watch") /\ Successive("r_watch", "r_verify")
      /\ Successive("r_verify", "restored") /\ Successive("r_verify", "restore_failed")
      /\ Successive("r_watch", "restore_failed")
  BY DEF Successive, SMoves, S!Changing, S!Restoring, S!Ended, Fresh, Unredone
<1>7. {"r_release", "r_venv", "r_unit", "r_isvc", "r_ipath", "r_restart", "r_watch", "r_verify"}
        \subseteq S!Restoring
  BY DEF S!Restoring
<1>8. /\ "restored" \notin SMoves /\ "restore_failed" \notin SMoves
      /\ \A pc \in S!Restoring : pc # "restored"
      /\ {"r_venv"} \subseteq SMoves
  BY DEF SMoves, S!Changing, S!Restoring
<1>9. /\ b.release \in Maybe /\ b.venv \in Maybe /\ b.unit \in Maybe /\ b.isvc \in Maybe
      /\ b.ipath \in Maybe /\ b.watching \in BOOLEAN /\ b.enabled \in BOOLEAN
  BY <1>4, Fields
<1>10. CASE S!RestoreStop(o)
  <2>1. PICK i : i = [staging EXCEPT !.watching = FALSE]
    OBVIOUS
  <2>2. S!Step(o, "r_stop", "r_release", i)
    BY <1>10, <2>1 DEF S!RestoreStop
  <2>3. i \in Installations /\ i.release = staging.release
    BY <1>4, <2>1, SetWatching DEF Links
  <2>4. SBackward("r_release", b)'
    BY DEF SBackward, Unrolled
  <2> QED BY <1>1, <1>5, <1>6, <1>7, <1>8, <2>2, <2>3, <2>4, SStep
<1>11. CASE S!RestoreRelease(o)
  <2>1. PICK i : i = [staging EXCEPT !.release = b.release]
    OBVIOUS
  <2>2. S!Step(o, "r_release", "r_venv", i) /\ staging' = i
    BY <1>1, <1>11, <2>1 DEF S!RestoreRelease, S!Step
  <2>3. i \in Installations /\ i.release = b.release
    BY <1>4, <1>9, <2>1, SetRelease
  <2>4. SBackward("r_venv", b)'
    BY <2>2, <2>3 DEF SBackward, Unrolled
  <2> QED BY <1>1, <1>5, <1>6, <1>7, <1>8, <2>2, <2>3, <2>4, SStep
<1>12. CASE S!RestoreVenv(o)
  <2>1. PICK i : i = [staging EXCEPT !.venv = b.venv]
    OBVIOUS
  <2>2. S!Step(o, "r_venv", "r_unit", i) /\ sop[o].pc = "r_venv" /\ staging' = i
    BY <1>1, <1>12, <2>1 DEF S!RestoreVenv, S!Step
  <2>3. i \in Installations /\ i.venv = b.venv /\ i.release = staging.release
    BY <1>4, <1>9, <2>1, SetVenv
  <2>4. sop[o].alone => staging.release = b.release
    BY <1>4, <2>2 DEF SBackward
  <2>5. sop[o].alone => SBackward("r_unit", b)'
    BY <2>2, <2>3, <2>4 DEF SBackward, Unrolled
  <2> QED BY <1>1, <1>5, <1>6, <1>7, <1>8, <2>2, <2>3, <2>5, SStep
<1>13. CASE S!RestoreUnit(o)
  <2>1. PICK i : i = [staging EXCEPT !.unit = b.unit]
    OBVIOUS
  <2>2. S!Step(o, "r_unit", "r_isvc", i) /\ sop[o].pc = "r_unit" /\ staging' = i
    BY <1>1, <1>13, <2>1 DEF S!RestoreUnit, S!Step
  <2>3. /\ i \in Installations /\ i.unit = b.unit
        /\ i.release = staging.release /\ i.venv = staging.venv
    BY <1>4, <1>9, <2>1, SetUnit
  <2>4. sop[o].alone => staging.release = b.release /\ staging.venv = b.venv
    BY <1>4, <2>2 DEF SBackward, Unrolled
  <2>5. sop[o].alone => SBackward("r_isvc", b)'
    BY <2>2, <2>3, <2>4 DEF SBackward, Unrolled
  <2> QED BY <1>1, <1>5, <1>6, <1>7, <1>8, <2>2, <2>3, <2>5, SStep
<1>14. CASE S!RestoreIngestService(o)
  <2>1. PICK i : i = [staging EXCEPT !.isvc = b.isvc]
    OBVIOUS
  <2>2. S!Step(o, "r_isvc", "r_ipath", i) /\ sop[o].pc = "r_isvc" /\ staging' = i
    BY <1>1, <1>14, <2>1 DEF S!RestoreIngestService, S!Step
  <2>3. i \in Installations /\ Links(staging, i)
    BY <1>4, <1>9, <2>1, SetIsvc
  <2>4. sop[o].alone => Links(staging, b)
    BY <1>4, <2>2 DEF SBackward, Unrolled, Links
  <2>5. sop[o].alone => SBackward("r_ipath", b)'
    BY <2>2, <2>3, <2>4 DEF SBackward, Unrolled, Links
  <2>6. i.release = staging.release
    BY <2>3 DEF Links
  <2> QED BY <1>1, <1>5, <1>6, <1>7, <1>8, <2>2, <2>3, <2>5, <2>6, SStep
<1>15. CASE S!RestoreIngestPath(o)
  <2>1. PICK i : i = [staging EXCEPT !.ipath = b.ipath]
    OBVIOUS
  <2>2. S!Step(o, "r_ipath", "r_restart", i) /\ sop[o].pc = "r_ipath" /\ staging' = i
    BY <1>1, <1>15, <2>1 DEF S!RestoreIngestPath, S!Step
  <2>3. i \in Installations /\ Links(staging, i)
    BY <1>4, <1>9, <2>1, SetIpath
  <2>4. sop[o].alone => Links(staging, b)
    BY <1>4, <2>2 DEF SBackward, Unrolled, Links
  <2>5. sop[o].alone => SBackward("r_restart", b)'
    BY <2>2, <2>3, <2>4 DEF SBackward, Unrolled, Links
  <2>6. i.release = staging.release
    BY <2>3 DEF Links
  <2> QED BY <1>1, <1>5, <1>6, <1>7, <1>8, <2>2, <2>3, <2>5, <2>6, SStep
<1>16. CASE S!RestoreRestart(o)
  <2>1. PICK y : y = IF b.runs # None THEN Loaded(staging) ELSE None
    OBVIOUS
  <2>2. PICK i : i = [staging EXCEPT !.enabled = b.enabled, !.runs = y]
    OBVIOUS
  <2>3. S!Step(o, "r_restart", "r_watch", i) /\ sop[o].pc = "r_restart" /\ staging' = i
    BY <1>1, <1>16, <2>1, <2>2, SameInstallations DEF S!RestoreRestart, S!Step
  <2>4. y \in Processes
    BY <1>4, <2>1, LoadedType DEF Processes
  <2>5. i \in Installations /\ Links(staging, i) /\ i.runs = y
    BY <1>4, <1>9, <2>2, <2>4 DEF Installations, Links
  <2>6. sop[o].alone => Links(staging, b)
    BY <1>4, <2>3 DEF SBackward, Unrolled, Links
  <2>7. sop[o].alone => Loaded(staging) = Loaded(b)
    BY <1>4, <2>6, LoadedType
  <2>8. sop[o].alone => i.runs = IF b.runs = None THEN None ELSE Loaded(b)
    BY <2>1, <2>5, <2>7
  <2>9. sop[o].alone => SBackward("r_watch", b)'
    BY <2>3, <2>5, <2>6, <2>8 DEF SBackward, Unrolled, Links, Loaded
  <2>10. i.release = staging.release
    BY <2>5 DEF Links
  <2> QED BY <1>1, <1>5, <1>6, <1>7, <1>8, <2>3, <2>5, <2>9, <2>10, SStep
<1>17. CASE S!RestoreWatch(o)
  <2>1. PICK i : i = [staging EXCEPT !.watching = b.watching]
    OBVIOUS
  <2>2. S!Step(o, "r_watch", "r_verify", i) /\ sop[o].pc = "r_watch" /\ staging' = i
    BY <1>1, <1>17, <2>1 DEF S!RestoreWatch, S!Step
  <2>3. i \in Installations /\ Links(staging, i) /\ i.runs = staging.runs
    BY <1>4, <1>9, <2>1, SetWatching DEF App
  <2>4. sop[o].alone => /\ Links(staging, b)
                        /\ staging.runs = IF b.runs = None THEN None ELSE Loaded(b)
    BY <1>4, <2>2 DEF SBackward, Unrolled, Links
  <2>5. sop[o].alone => SBackward("r_verify", b)'
    BY <2>2, <2>3, <2>4 DEF SBackward, Unrolled, Links, Loaded
  <2>6. i.release = staging.release
    BY <2>3 DEF Links
  <2> QED BY <1>1, <1>5, <1>6, <1>7, <1>8, <2>2, <2>3, <2>5, <2>6, SStep
<1>18. CASE S!Restored(o)
  <2>1. S!Step(o, "r_verify", "restored", staging) /\ sop[o].pc = "r_verify"
    BY <1>18 DEF S!Restored, S!Step
  <2>2. sop[o].alone => staging.release = b.release
    BY <1>4, <2>1 DEF SBackward, Unrolled
  <2> QED BY <1>1, <1>4, <1>6, <1>8, <2>1, <2>2, SStep
<1>19. CASE S!NotRestored(o)
  <2>1. PICK from \in {"r_verify", "r_watch"} : S!Step(o, from, "restore_failed", staging)
    BY <1>19 DEF S!NotRestored
  <2>2. Successive(from, "restore_failed")
    BY <1>6
  <2> QED BY <1>1, <1>4, <1>8, <2>1, <2>2, SStep
<1> QED
  BY <1>10, <1>11, <1>12, <1>13, <1>14, <1>15, <1>16, <1>17, <1>18, <1>19 DEF S!Restores

\* Faults, kills and checks that turn an operation back.
LEMMA SFaultsKeeps ==
    ASSUME SInv, Proves, NEW o \in StagingOps,
           S!TurnBack(o) \/ S!Fails(o) \/ S!RestoreFails(o) \/ S!Kill(o)
    PROVE  SInv'
<1>1. PICK t, n, b : sop[o].target = t /\ sop[o].snap = n /\ sop[o].before = b
  OBVIOUS
<1>2. /\ staging \in Installations /\ sop \in [StagingOps -> S!Operations]
  BY DEF SInv, STyped
<1>3. \A from \in S!Changing : Successive(from, "r_stop")
  BY DEF Successive, SMoves, S!Changing, S!Restoring, S!Ended, Fresh, Unredone
<1>4. SForward("r_stop", t, n)' /\ SBackward("r_stop", b)'
  BY DEF SForward, SBackward, VenvSet, Started, Unrolled
<1>5. \A from \in SMoves : \A to \in {"restore_failed", "killed"} :
        from \notin Fresh => to \notin Fresh
  BY DEF Fresh
<1>6. \A from \in SMoves : \A to \in {"restore_failed", "killed"} :
        from \notin Unredone => to \notin Unredone
  BY DEF Unredone, S!Changing
<1>7. CASE S!TurnBack(o)
  <2>1. PICK from \in S!Changing : S!Step(o, from, "r_stop", staging)
    BY <1>7 DEF S!TurnBack, S!Refuted, S!Changing
  <2>2. "r_stop" # "restored"
    OBVIOUS
  <2> QED BY <1>1, <1>2, <1>3, <1>4, <2>1, <2>2, SStep
<1>8. CASE S!Fails(o) \/ S!RestoreFails(o) \/ S!Kill(o)
  <2>1. PICK to \in {"r_stop", "restore_failed", "killed"} :
          S!Fault(o, to) /\ sop[o].pc \in SMoves /\ (to = "r_stop" => sop[o].pc \in S!Changing)
    BY <1>8 DEF S!Fails, S!RestoreFails, S!Kill, S!Running, SMoves
  <2>2. /\ S!Goes(o, to)
        /\ UNCHANGED <<staging, stagingData, stagingNewest, stagingDone, stagingDue, stagingStarts>>
    BY <2>1 DEF S!Fault
  <2>3. to \in SMoves \cup S!Ended
    BY <2>1 DEF SMoves, S!Restoring, S!Ended
  <2>4. SBecame(o, to)
    BY <1>2, <2>2, <2>3, GoesBecomes DEF SPlaces
  <2>5. STyped'
    BY <2>2, <2>4 DEF SInv, STyped, SBecame, SOnlyOf
  <2>6. PICK from : sop[o].pc = from
    OBVIOUS
  <2>7. (from \notin Fresh => to \notin Fresh) /\ (from \notin Unredone => to \notin Unredone)
    BY <1>3, <1>5, <1>6, <2>1, <2>6 DEF Successive
  <2>8. SStarts'
    BY <1>2, <2>2, <2>4, <2>6, <2>7, StartsStep DEF SInv
  <2>9. /\ proven \subseteq proven' /\ proven' \subseteq Releases
    BY <2>1, <2>4, ProvesMore
  <2>10. to \in SMoves => to = "r_stop"
    BY <2>1 DEF SMoves, S!Changing, S!Restoring
  <2>11. to # "restored" /\ to # "applied"
    BY <2>1
  <2>12. to \in SMoves /\ sop[o].alone => SForward(to, t, n)' /\ SBackward(to, b)'
    BY <1>4, <2>10
  <2>13. staging'.release = staging.release
    BY <2>2
  <2> QED BY <1>1, <2>1, <2>3, <2>4, <2>5, <2>8, <2>9, <2>11, <2>12, <2>13, SOnward
<1> QED BY <1>7, <1>8

\* An operation begins: whoever is under way no longer runs alone, and vouches for good for
\* the release it may have put in place.
LEMMA BeginKeeps ==
    ASSUME SInv, Proves, NEW o \in StagingOps, S!Begin(o)
    PROVE  SInv'
<1>1. /\ sop[o].pc = "idle"
      /\ UNCHANGED <<staging, stagingData, stagingNewest, stagingDone, stagingDue, stagingStarts, faults>>
  BY DEF S!Begin
<1>2. PICK others : others = {p \in StagingOps \ {o} : sop[p].pc \in SMoves}
  OBVIOUS
<1>3. PICK kind \in {"install", "rollback"}, r \in Releases :
        sop' = [p \in StagingOps |->
                 IF p = o
                 THEN [pc |-> "stop", kind |-> kind, target |-> r, before |-> staging,
                       snap |-> stagingData, alone |-> others = {}]
                 ELSE IF p \in others THEN [sop[p] EXCEPT !.alone = FALSE] ELSE sop[p]]
  BY <1>2 DEF S!Begin, S!Running, SMoves
<1>4. /\ STyped /\ SStarts /\ proven \subseteq Releases
      /\ \A p \in StagingOps : SWork(p)
      /\ staging.release # None => Vouched(staging.release)
  BY DEF SInv
<1>5. /\ sop'[o].pc = "stop" /\ sop'[o].target = r /\ sop'[o].before = staging
      /\ sop'[o].snap = stagingData /\ sop'[o].alone = (others = {})
  BY <1>3
<1>6. \A p \in others : sop'[p] = [sop[p] EXCEPT !.alone = FALSE]
  BY <1>2, <1>3
<1>7. \A p \in StagingOps \ {o} : p \notin others => sop'[p] = sop[p]
  BY <1>3
<1>8. sop' \in [StagingOps -> S!Operations]
  <2>1. sop \in [StagingOps -> S!Operations] /\ staging \in S!Installations /\ stagingData \in Nat
    BY <1>4, SameInstallations DEF STyped
  <2>2. r \in S!Maybe
    BY DEF S!Maybe
  <2>3. (others = {}) \in BOOLEAN
    OBVIOUS
  <2>4. [pc |-> "stop", kind |-> kind, target |-> r, before |-> staging,
         snap |-> stagingData, alone |-> others = {}] \in S!Operations
    BY <2>1, <2>2, <2>3 DEF S!Operations, S!Changing
  <2>5. \A p \in StagingOps : sop[p] \in S!Operations
    BY <2>1
  <2>6. \A p \in StagingOps : [sop[p] EXCEPT !.alone = FALSE] \in S!Operations
    BY <2>5 DEF S!Operations
  <2> QED BY <1>3, <2>4, <2>5, <2>6
<1>9. \A p \in StagingOps \ {o} :
        /\ sop'[p].pc = sop[p].pc /\ sop'[p].target = sop[p].target
        /\ sop'[p].before = sop[p].before
        /\ sop'[p].alone => sop[p].alone /\ p \notin others
        /\ p \in others => ~sop'[p].alone
        /\ p \notin others => sop'[p].alone = sop[p].alone
  <2> TAKE p \in StagingOps \ {o}
  <2>1. CASE p \in others
    <3>1. sop[p] \in S!Operations
      BY <1>4 DEF STyped
    <3>2. sop'[p] = [sop[p] EXCEPT !.alone = FALSE]
      BY <1>6, <2>1
    <3>3. /\ sop'[p].pc = sop[p].pc /\ sop'[p].target = sop[p].target
          /\ sop'[p].before = sop[p].before /\ ~sop'[p].alone
      BY <3>1, <3>2 DEF S!Operations
    <3> QED BY <2>1, <3>3
  <2>2. CASE p \notin others
    <3>1. sop'[p] = sop[p]
      BY <1>7, <2>2
    <3> QED BY <2>2, <3>1
  <2> QED BY <2>1, <2>2
<1>10. proven \subseteq proven' /\ proven' \subseteq Releases
  <2>1. \A s \in StagingOps : ~(sop[s].pc # "applied" /\ sop'[s].pc = "applied")
    BY <1>5, <1>9
  <2> QED BY <1>4, <2>1 DEF Proves
<1>11. \A x : Always(x) => Always(x)'
  <2>1. TAKE x
  <2>2. SUFFICES ASSUME NEW s \in StagingOps, sop[s].target = x,
                        sop[s].pc \in {"killed", "restore_failed"} \/ ~sop[s].alone
                 PROVE  Always(x)'
    BY <1>10 DEF Always
  <2>3. s # o
    BY <1>1, <1>4, <2>2 DEF SWork
  <2>4. /\ sop'[s].target = x
        /\ sop'[s].pc \in {"killed", "restore_failed"} \/ ~sop'[s].alone
    BY <1>9, <2>2, <2>3
  <2> QED BY <2>4 DEF Always
<1>12. PICK x : x = staging.release
  OBVIOUS
<1>13. x # None => Always(x)'
  <2>1. SUFFICES ASSUME NEW s \in StagingOps, sop[s].target = x, sop[s].pc \in SMoves
                 PROVE  Always(x)'
    BY <1>4, <1>11, <1>12 DEF Vouched
  <2>2. s # o
    BY <1>1, <2>1 DEF SMoves, S!Changing, S!Restoring
  <2>3. s \in others
    BY <1>2, <2>1, <2>2
  <2>4. sop'[s].target = x /\ ~sop'[s].alone
    BY <1>9, <2>1, <2>2, <2>3
  <2> QED BY <2>4 DEF Always
<1>14. STyped'
  BY <1>1, <1>4, <1>8 DEF STyped
<1>15. SStarts'
  <2>1. "stop" \in Fresh /\ "idle" \in Fresh /\ "stop" \in Unredone /\ "idle" \in Unredone
    BY DEF Fresh, Unredone, S!Changing
  <2>2. Past(sop') = Past(sop) /\ Redone(sop') = Redone(sop)
    BY <1>1, <1>5, <1>9, <2>1 DEF Past, Redone
  <2> QED BY <1>1, <1>4, <2>2 DEF SStarts
<1>16. SWork(o)'
  <2>1. sop'[o].alone => \A p \in StagingOps \ {o} : sop'[p].pc \notin SMoves
    BY <1>2, <1>5, <1>9
  <2>2. SForward(sop[o].pc, sop[o].target, sop[o].snap)' /\ SBackward(sop[o].pc, sop[o].before)'
    BY <1>5 DEF SForward, SBackward, VenvSet, Started, Unrolled
  <2>3. (sop[o].pc \in SMoves /\ sop[o].before.release # None => Always(sop[o].before.release))'
    BY <1>5, <1>12, <1>13 DEF Always
  <2>4. (sop[o].pc = "idle" => sop[o].alone)' /\ (sop[o].pc # "idle" => sop[o].target \in Releases)'
    BY <1>5
  <2> QED BY <2>1, <2>2, <2>3, <2>4 DEF SWork
<1>17. ASSUME NEW p \in StagingOps \ {o}
       PROVE  SWork(p)'
  <2>1. SWork(p)
    BY <1>4
  <2>2. ~(sop'[p].pc \in SMoves /\ sop'[p].alone)
    BY <1>2, <1>9
  <2>3. PICK y : y = sop[p].before.release
    OBVIOUS
  <2>4. Always(y) => Always(y)'
    BY <1>11
  <2>5. (sop[p].pc \in SMoves /\ sop[p].before.release # None => Always(sop[p].before.release))'
    <3>1. sop[p].pc \in SMoves /\ y # None => Always(y)
      BY <2>1, <2>3 DEF SWork
    <3>2. sop'[p].before.release = y /\ sop'[p].pc = sop[p].pc
      BY <1>9, <2>3
    <3> QED BY <2>4, <3>1, <3>2 DEF Always
  <2>6. sop'[p].pc = "idle" => sop'[p].alone
    BY <1>2, <1>9, <2>1 DEF SWork, SMoves, S!Changing, S!Restoring
  <2>7. sop'[p].pc # "idle" => sop'[p].target \in Releases
    BY <1>9, <2>1 DEF SWork
  <2> QED BY <2>2, <2>5, <2>6, <2>7 DEF SWork
<1>18. (staging.release # None => Vouched(staging.release))'
  BY <1>1, <1>12, <1>13 DEF Vouched, Always
<1> QED BY <1>10, <1>14, <1>15, <1>16, <1>17, <1>18 DEF SInv

\* A publication or an ingest, in either store, and any step of production.
LEMMA SQuietKeeps ==
    ASSUME SInv, UNCHANGED <<staging, stagingStarts, sop, proven>>,
           stagingNewest' \in 1..MaxStagingSnapshots,
           stagingData' \in 1..stagingNewest', stagingDone' \in 0..stagingNewest',
           stagingDue' \in BOOLEAN, stagingDone <= stagingDone'
    PROVE  SInv'
<1>1. /\ STyped /\ SStarts /\ proven \subseteq Releases
      /\ \A p \in StagingOps : SWork(p)
      /\ staging.release # None => Vouched(staging.release)
  BY DEF SInv
<1>2. STyped'
  BY <1>1 DEF STyped
<1>3. /\ SStarts' /\ proven' \subseteq Releases
      /\ (staging.release # None => Vouched(staging.release))'
  BY <1>1 DEF SStarts, Past, Redone, Vouched, Always
<1>4. ASSUME NEW p \in StagingOps
      PROVE  SWork(p)'
  <2>1. SWork(p)
    BY <1>1
  <2>2. PICK pc, t, n, b : /\ sop[p].pc = pc /\ sop[p].target = t /\ sop[p].snap = n
                           /\ sop[p].before = b
    OBVIOUS
  <2>3. n \in Nat /\ stagingDone \in Nat /\ stagingDone' \in Nat
    BY <1>1, <1>2, <2>2 DEF STyped, S!Operations
  <2>4. SForward(pc, t, n) => SForward(pc, t, n)'
    BY <2>3 DEF SForward
  <2>5. SBackward(pc, b) => SBackward(pc, b)'
    BY DEF SBackward, Loaded
  <2>6. SForward(sop[p].pc, sop[p].target, sop[p].snap) =>
          SForward(sop[p].pc, sop[p].target, sop[p].snap)'
    BY <2>2, <2>4 DEF SForward
  <2>7. SBackward(sop[p].pc, sop[p].before) => SBackward(sop[p].pc, sop[p].before)'
    BY <2>2, <2>5 DEF SBackward, Loaded
  <2>8. (sop[p].pc \in SMoves /\ sop[p].before.release # None => Always(sop[p].before.release))'
    BY <2>1 DEF SWork, Always
  <2> QED BY <2>1, <2>6, <2>7, <2>8 DEF SWork
<1> QED BY <1>2, <1>3, <1>4 DEF SInv

LEMMA SStoreKeeps ==
    ASSUME SInv, Proves, S!StagingPublish \/ S!StagingMoveCurrent \/ S!StagingIngest
    PROVE  SInv'
<1>1. /\ UNCHANGED <<staging, stagingStarts, sop>>
  BY DEF S!StagingPublish, S!StagingMoveCurrent, S!StagingIngest
<1>2. proven' = proven
  BY <1>1 DEF Proves
<1>3. /\ stagingNewest \in 1..MaxStagingSnapshots /\ stagingData \in 1..stagingNewest
      /\ stagingDone \in 0..stagingNewest /\ stagingDue \in BOOLEAN
  BY DEF SInv, STyped
<1>4. /\ stagingNewest' \in 1..MaxStagingSnapshots /\ stagingData' \in 1..stagingNewest'
      /\ stagingDone' \in 0..stagingNewest' /\ stagingDone <= stagingDone'
  <2>1. CASE S!StagingPublish
    BY <1>3, <2>1, DeploymentAssumption DEF S!StagingPublish
  <2>2. CASE S!StagingMoveCurrent
    BY <1>3, <2>2 DEF S!StagingMoveCurrent
  <2>3. CASE S!StagingIngest
    BY <1>3, <2>3 DEF S!StagingIngest
  <2> QED BY <2>1, <2>2, <2>3
<1>5. stagingDue' \in BOOLEAN
  <2>1. \/ stagingDue' = (stagingDue \/ staging.watching)
        \/ stagingDue' = stagingDue \/ stagingDue' = FALSE
    BY DEF S!StagingPublish, S!StagingMoveCurrent, S!StagingIngest
  <2> QED BY <1>3, <2>1
<1> QED BY <1>1, <1>2, <1>4, <1>5, SQuietKeeps

LEMMA SInvInit ==
    ASSUME S!SInit, proven = {staging.release} \ {None}
    PROVE  SInv
<1>1. PICK r \in FirstStaged : staging = IF r = None THEN Nothing ELSE Whole(r)
  BY SameInstallations DEF S!SInit
<1>2. r \in Maybe
  BY DeploymentAssumption
<1>3. staging \in Installations
  BY <1>1, <1>2, NoPlanType, WholeParts DEF Maybe
<1>4. /\ stagingData = 1 /\ stagingNewest = 1 /\ stagingDone \in {0, 1} /\ stagingDue = FALSE /\ stagingStarts = 1
      /\ sop = [o \in StagingOps |->
                 [pc |-> "idle", kind |-> "install", target |-> None, before |-> Nothing,
                  snap |-> 0, alone |-> TRUE]]
  BY SameInstallations DEF S!SInit
<1>5. /\ sop \in [StagingOps -> S!Operations]
      /\ \A o \in StagingOps : sop[o].pc = "idle" /\ sop[o].alone
  BY <1>4, NoPlanType, SameInstallations DEF S!Operations
<1>6. STyped
  <2>1. stagingDue \in BOOLEAN
    BY <1>4
  <2>2. stagingNewest \in 1..MaxStagingSnapshots
    BY <1>4, DeploymentAssumption
  <2>3. stagingData \in 1..stagingNewest /\ stagingDone \in 0..stagingNewest
    BY <1>4
  <2> QED BY <1>3, <1>5, <2>1, <2>2, <2>3 DEF STyped
<1>7. SStarts
  <2>1. PICK A, C : A = Past(sop) /\ C = Redone(sop)
    OBVIOUS
  <2>2. A \in SUBSET StagingOps /\ C \in SUBSET StagingOps
    BY <2>1 DEF Past, Redone
  <2>3. PICK a, c : a = Cardinality(A) /\ c = Cardinality(C)
    OBVIOUS
  <2>4. a \in Nat /\ c \in Nat
    BY <2>2, <2>3, Counted
  <2>5. stagingStarts <= 1 + a + c
    BY <1>4, <2>4
  <2> QED BY <1>4, <2>1, <2>3, <2>5 DEF SStarts
<1>8. "idle" \notin SMoves
  BY DEF SMoves, S!Changing, S!Restoring
<1>9. \A o \in StagingOps : SWork(o)
  BY <1>5, <1>8 DEF SWork
<1>10. staging.release \in Maybe
  BY <1>3, Fields
<1>11. proven \subseteq Releases /\ (staging.release # None => Vouched(staging.release))
  BY <1>10 DEF Maybe, Vouched, Always
<1> QED BY <1>6, <1>7, <1>9, <1>11 DEF SInv

LEMMA SInvNext ==
    ASSUME SInv, S!SNext, Proves
    PROVE  SInv'
<1>1. CASE S!StagingPublish \/ S!StagingMoveCurrent \/ S!StagingIngest
  BY <1>1, SStoreKeeps
<1>2. ASSUME NEW o \in StagingOps,
             \/ S!Begin(o) \/ S!Activates(o) \/ S!Restores(o)
             \/ S!TurnBack(o) \/ S!Fails(o) \/ S!RestoreFails(o) \/ S!Kill(o)
      PROVE  SInv'
  BY <1>2, BeginKeeps, SActivatesKeeps, SRestoresKeeps, SFaultsKeeps
<1> QED BY <1>1, <1>2 DEF S!SNext

LEMMA SFaultType ==
    ASSUME faults \in 0..MaxFaults, S!SNext
    PROVE  faults' \in 0..MaxFaults
<1>1. CASE S!StagingPublish \/ S!StagingMoveCurrent \/ S!StagingIngest
  BY <1>1 DEF S!StagingPublish, S!StagingMoveCurrent, S!StagingIngest
<1>2. ASSUME NEW o \in StagingOps, S!Begin(o) \/ S!Activates(o) \/ S!Restores(o) \/ S!TurnBack(o)
      PROVE  faults' \in 0..MaxFaults
  BY <1>2 DEF S!Begin, S!Activates, S!StopPath, S!SwitchRelease, S!SwitchVenv, S!InstallUnit,
       S!InstallIngestService, S!InstallIngestPath, S!Restart, S!Ready, S!InitialIngest, S!Watch,
       S!Verify, S!Applied, S!Restores, S!RestoreStop, S!RestoreRelease, S!RestoreVenv,
       S!RestoreUnit, S!RestoreIngestService, S!RestoreIngestPath, S!RestoreRestart,
       S!RestoreWatch, S!Restored, S!NotRestored, S!TurnBack, S!Step
<1>3. ASSUME NEW o \in StagingOps, S!Fails(o) \/ S!RestoreFails(o) \/ S!Kill(o)
      PROVE  faults' \in 0..MaxFaults
  <2>1. faults < MaxFaults /\ faults' = faults + 1
    BY <1>3 DEF S!Fails, S!RestoreFails, S!Kill, S!Fault
  <2> QED BY <2>1, ProductionAssumption
<1> QED BY <1>1, <1>2, <1>3 DEF S!SNext

(***************************************************************************)
(* The two tools together.                                                 *)
(***************************************************************************)

IInv == PInv /\ SInv

LEMMA IInvInit == DInit => IInv
<1> SUFFICES ASSUME DInit PROVE IInv
  OBVIOUS
<1>1. faults = 0
  BY DEF DInit, S!SInit
<1> QED BY <1>1, PInit, SInvInit DEF DInit, IInv

\* Either tool makes a step, or neither does.
LEMMA Turns ==
    ASSUME [DNext]_allVars
    PROVE  \/ Next /\ UNCHANGED <<staging, stagingData, stagingNewest, stagingStarts, stagingDone, stagingDue,
                                  sop, proven>>
           \/ S!SNext /\ Proves /\ UNCHANGED productionVars
           \/ UNCHANGED allVars
  BY DEF DNext, Next, Proves

LEMMA IInvNext == IInv /\ [DNext]_allVars => IInv'
<1> SUFFICES ASSUME PInv, SInv, [DNext]_allVars PROVE PInv' /\ SInv'
  BY DEF IInv
<1>1. /\ stagingNewest \in 1..MaxStagingSnapshots
      /\ stagingData \in 1..stagingNewest /\ stagingDone \in 0..stagingNewest
      /\ stagingDue \in BOOLEAN /\ stagingStarts \in Nat
      /\ faults \in 0..MaxFaults
  BY DEF SInv, STyped, SStarts, PInv, TypeOK
<1>2. ASSUME UNCHANGED <<staging, stagingData, stagingNewest, stagingStarts, stagingDone, stagingDue, sop, proven>>
      PROVE  SInv'
  BY <1>1, <1>2, SQuietKeeps
<1>3. CASE Next /\ UNCHANGED <<staging, stagingData, stagingNewest, stagingStarts, stagingDone, stagingDue,
                               sop, proven>>
  <2>1. stagingData \in Nat
    BY <1>1
  <2> QED BY <1>1, <1>2, <1>3, <2>1, PNext
<1>4. CASE S!SNext /\ Proves /\ UNCHANGED productionVars
  BY <1>1, <1>4, SInvNext, SFaultType, ApartKeeps
<1>5. CASE UNCHANGED allVars
  <2>1. /\ UNCHANGED productionVars /\ faults' = faults
        /\ UNCHANGED <<staging, stagingData, stagingNewest, stagingStarts, stagingDone, stagingDue, sop, proven>>
    BY <1>5 DEF allVars, vars
  <2> QED BY <1>1, <1>2, <2>1, ApartKeeps
<1> QED BY <1>3, <1>4, <1>5, Turns

LEMMA Invariant == DSpec => []IInv
<1> QED BY IInvInit, IInvNext, PTL DEF DSpec

LEMMA STypeHolds ==
    ASSUME SInv, PInv
    PROVE  S!STypeOK
<1>1. STyped /\ SStarts
  BY DEF SInv
<1>2. PICK A, C : A = Past(sop) /\ C = Redone(sop)
  OBVIOUS
<1>3. A \in SUBSET StagingOps /\ C \in SUBSET StagingOps
  BY <1>2 DEF Past, Redone
<1>4. PICK a, c, m : a = Cardinality(A) /\ c = Cardinality(C) /\ m = Cardinality(StagingOps)
  OBVIOUS
<1>5. a \in Nat /\ c \in Nat /\ m \in Nat /\ a <= m /\ c <= m
  BY <1>3, <1>4, Counted
<1>6. stagingStarts \in Nat \ {0} /\ stagingStarts <= 1 + a + c
  BY <1>1, <1>2, <1>4 DEF SStarts
<1>7. stagingStarts \in 1..(1 + 2 * Cardinality(StagingOps))
  <2>1. stagingStarts <= 1 + 2 * m
    BY <1>5, <1>6
  <2> QED BY <1>4, <1>5, <1>6, <2>1
<1>8. faults \in 0..MaxFaults
  BY DEF PInv, TypeOK
<1>9. staging \in S!Installations
  BY <1>1, SameInstallations DEF STyped
<1>10. S!Cardinality(StagingOps) = Cardinality(StagingOps)
  BY DEF S!Cardinality, Cardinality
<1> QED BY <1>1, <1>7, <1>8, <1>9, <1>10 DEF STyped, S!STypeOK

\* At every moment the markers in the backup directories of production tell what is torn: a
\* mixture of parts of several releases is announced by a marker of a mutation or of a failed
\* restore, an ingest path left off by these or by one of a preparation.
THEOREM MarkedTheorem == DSpec => []MarkedExactly
<1>1. IInv => MarkedExactly
  <2> SUFFICES ASSUME PInv, SInv PROVE MarkedExactly
    BY DEF IInv
  <2>1. TypeOK /\ proven \subseteq Releases
    BY DEF PInv, SInv
  <2> QED BY <2>1, MarkersTell, STypeHolds DEF MarkedExactly, DTypeOK
<1> QED BY <1>1, Invariant, PTL

\* A marker that reports a completed restore, or a preparation undone, is only written over the
\* installation found under the lock.
THEOREM UndoneTheorem == DSpec => UndoneExactly
<1>1. IInv /\ [DNext]_allVars =>
        [\A o \in ProductionOps :
            /\ op[o].marker # op'[o].marker
            /\ op'[o].marker \in {"rolled_back", "preparation_failed_runtime_restored"}
            => production' = base \/ production' = [base EXCEPT !.runs = Loaded(base)]]_vars
  <2> SUFFICES ASSUME IInv, [DNext]_allVars, NEW o \in ProductionOps,
                      op[o].marker # op'[o].marker,
                      op'[o].marker \in {"rolled_back", "preparation_failed_runtime_restored"}
               PROVE  production' = base \/ production' = [base EXCEPT !.runs = Loaded(base)]
    OBVIOUS
  <2>1. Next
    BY Turns DEF productionVars, allVars, vars
  <2> QED BY <2>1, UndoneStep DEF IInv
<1> QED BY <1>1, Invariant, PTL DEF DSpec, UndoneExactly

\* A marker that reports success is only written over a whole installation of the target, with
\* the current snapshot ingested or its ingest started, unless its archive was written before the
\* path unit was on and current moved to it after the last check.
THEOREM CompleteTheorem == DSpec => CompleteExactly
<1>1. IInv /\ [DNext]_allVars =>
        [\A o \in ProductionOps :
            op[o].marker # "complete" /\ op'[o].marker = "complete" =>
              /\ production' = Whole(op[o].target)
              /\ op[o].target \in Ingesting => data' <= done' \/ due' \/ data' \in missed']_vars
  <2> SUFFICES ASSUME IInv, [DNext]_allVars, NEW o \in ProductionOps,
                      op[o].marker # "complete", op'[o].marker = "complete"
               PROVE  /\ production' = Whole(op[o].target)
                      /\ op[o].target \in Ingesting => data' <= done' \/ due' \/ data' \in missed'
    OBVIOUS
  <2>1. Next
    BY Turns DEF productionVars, allVars, vars
  <2> QED BY <2>1, CompleteStep DEF IInv
<1> QED BY <1>1, Invariant, PTL DEF DSpec, CompleteExactly

\* Only the check under the lock takes an operation on to its first marker.
LEMMA OnlyRecheck ==
    ASSUME TypeOK, Next, NEW o \in ProductionOps, op[o].pc = "locked", op'[o].pc = "mark1"
    PROVE  Recheck(o)
<1>1. op \in [ProductionOps -> Operations]
  BY DEF TypeOK
<1>2. PICK p \in ProductionOps :
        \/ Begins(p) \/ Prepares(p) \/ Activates(p) \/ Restores(p)
        \/ TurnBack(p) \/ Fails(p) \/ MarkerFails(p) \/ RestoreFails(p) \/ Kill(p)
  BY DEF Next, Publish, MoveCurrent, Ingest
<1>3. ASSUME NEW x, op' = [op EXCEPT ![p] = x]
      PROVE  p = o /\ x.pc = "mark1"
  BY <1>1, <1>3
<1>4. \A from, to, i : Step(p, from, to, i) => p = o /\ to = "mark1" /\ from = "locked"
  <2>1. \A to : op' = [op EXCEPT ![p].pc = to] => p = o /\ to = "mark1"
    BY <1>1 DEF Operations
  <2> QED BY <2>1 DEF Step
<1>5. \A from, to : QuiesceTo(p, from, to) => p = o /\ to = "mark1" /\ from = "locked"
  <2>1. \A to : op' = [op EXCEPT ![p].pc = to] => p = o /\ to = "mark1"
    BY <1>1 DEF Operations
  <2> QED BY <2>1 DEF QuiesceTo
<1>6. \A m : ~Ends(p, m)
  BY <1>1 DEF Ends, Operations
<1>7. \A to : op' = [op EXCEPT ![p].pc = to] => p = o /\ to = "mark1"
  BY <1>1 DEF Operations
<1>8. \A to, m : op' = [op EXCEPT ![p].pc = to, ![p].marker = m] => p = o /\ to = "mark1"
  BY <1>1 DEF Operations
<1>9. ~(Prepares(p) /\ ~Resumed(p))
  BY <1>4, <1>5, <1>7, <1>8 DEF Prepares, MarkPreparing, Quiesce, Archive, Inspect, Resume
<1>10. ~Activates(p)
  BY <1>4, <1>5, <1>6, <1>7, <1>8 DEF Activates, MarkMutation, QuiesceAgain, SwitchRelease,
       SwitchVenv, InstallUnit, InstallIngestService, InstallIngestPath, Restart, Ready,
       InitialIngest, Watch, Verify, ReadyAgain, Complete
<1>11. ~Restores(p)
  BY <1>4, <1>5, <1>6 DEF Restores, RestoreQuiesce, RestoreRelease, RestoreVenv, RestoreUnit,
       RestoreIngestService, RestoreIngestPath, RestoreService, RestoreWatch, RestoreIdle,
       RolledBack, NotRestored
<1>12. ~Resumed(p) /\ ~MarkerFails(p) /\ ~RestoreFails(p) /\ ~Kill(p)
  BY <1>6 DEF Resumed, MarkerFails, RestoreFails, Kill
<1>13. ~TurnBack(p)
  BY <1>4 DEF TurnBack, Recovery
<1>14. ~Fails(p)
  <2>1. Fails(p) => op' = [op EXCEPT ![p].pc = Recovery(op[p].pc)]
    BY <1>1 DEF Fails
  <2> QED BY <1>7, <2>1 DEF Recovery
<1>15. Begins(p) => Recheck(p)
  <2>1. ~Plan(p)
    <3>1. SUFFICES ASSUME Plan(p) PROVE FALSE
      OBVIOUS
    <3>2. op[p].pc = "idle"
      BY <3>1 DEF Plan
    <3>3. PICK kind \in {"promote", "rollback"}, r \in Releases :
            op' = [op EXCEPT ![p] = [@ EXCEPT !.pc = "planned", !.kind = kind, !.target = r,
                     !.plan = IF kind = "promote" THEN PlanNow
                              ELSE [PlanNow EXCEPT !.stagingData = 0, !.stagingStarts = 0]]]
      BY <3>1 DEF Plan
    <3>4. p # o
      BY <3>2
    <3> QED BY <1>1, <3>3, <3>4
  <2> QED BY <1>6, <1>7, <2>1 DEF Begins, Lock, Locked, Changed
<1>16. Recheck(p)
  BY <1>2, <1>9, <1>10, <1>11, <1>12, <1>13, <1>14, <1>15
<1>17. p = o
  BY <1>4, <1>16 DEF Recheck
<1> QED BY <1>16, <1>17

\* Whatever is promoted has been verified in staging, or an operation of the staging tool on it
\* has not come to an end of its own.
THEOREM PromotedTheorem == DSpec => PromotedWasStaged
<1>1. IInv /\ [DNext]_allVars =>
        [\A o \in ProductionOps :
            op[o].pc = "locked" /\ op'[o].pc = "mark1" /\ op[o].kind = "promote" =>
              \/ op[o].target \in proven
              \/ \E s \in StagingOps : /\ sop[s].target = op[o].target
                                       /\ \/ S!Running(s)
                                          \/ sop[s].pc \in {"killed", "restore_failed"}
                                          \/ ~sop[s].alone]_allVars
  <2> SUFFICES ASSUME PInv, SInv, [DNext]_allVars, NEW o \in ProductionOps,
                      op[o].pc = "locked", op'[o].pc = "mark1", op[o].kind = "promote"
               PROVE  \/ op[o].target \in proven
                      \/ \E s \in StagingOps : /\ sop[s].target = op[o].target
                                               /\ \/ S!Running(s)
                                                  \/ sop[s].pc \in {"killed", "restore_failed"}
                                                  \/ ~sop[s].alone
    BY DEF IInv
  <2>1. Next
    BY Turns DEF productionVars, allVars, vars
  <2>2. StillPlanned(o)
    BY <2>1, OnlyRecheck DEF PInv, Recheck
  <2>3. staging.release = op[o].target
    BY <2>2 DEF StillPlanned, StagingIsCurrent
  <2>4. op[o].target \in Releases
    BY AtWork DEF Idling
  <2>5. PICK x : x = op[o].target
    OBVIOUS
  <2>6. Vouched(x)
    BY <2>3, <2>4, <2>5, ReleasesAssumption DEF SInv
  <2> QED BY <2>5, <2>6 DEF Vouched, Always, SMoves, S!Running
<1> QED BY <1>1, Invariant, PTL DEF DSpec, PromotedWasStaged

\* The two steps that report an end in order of a staging operation.
LEMMA NewEnd ==
    ASSUME SInv, S!SNext, NEW o \in StagingOps, sop'[o].pc # sop[o].pc,
           sop'[o].pc \in {"applied", "restored"}
    PROVE  /\ sop[o].pc \in SMoves
           /\ \/ S!Applied(o) /\ sop'[o].pc = "applied"
              \/ S!Restored(o) /\ sop'[o].pc = "restored"
<1>1. sop \in [StagingOps -> S!Operations]
  BY DEF SInv, STyped
<1>2. PICK p \in StagingOps :
        \/ S!Begin(p) \/ S!Activates(p) \/ S!Restores(p)
        \/ S!TurnBack(p) \/ S!Fails(p) \/ S!RestoreFails(p) \/ S!Kill(p)
  BY DEF S!SNext, S!StagingPublish, S!StagingMoveCurrent, S!StagingIngest
<1>3. ASSUME NEW to \in SPlaces, S!Goes(p, to)
      PROVE  p = o /\ to \in {"applied", "restored"} /\ sop'[o].pc = to
  BY <1>1, <1>3, GoesBecomes DEF SBecame, SOnlyOf
<1>4. ASSUME NEW from, NEW to \in SPlaces, NEW i, S!Step(p, from, to, i)
      PROVE  p = o /\ to \in {"applied", "restored"} /\ sop'[o].pc = to /\ sop[o].pc = from
  BY <1>3, <1>4 DEF S!Step
<1>5. ~S!Begin(p)
  <2>1. SUFFICES ASSUME S!Begin(p) PROVE FALSE
    OBVIOUS
  <2>2. PICK others : others = {q \in StagingOps \ {p} : S!Running(q)}
    OBVIOUS
  <2>3. PICK kind \in {"install", "rollback"}, r \in Releases :
        sop' = [q \in StagingOps |->
                 IF q = p
                 THEN [pc |-> "stop", kind |-> kind, target |-> r, before |-> staging,
                       snap |-> stagingData, alone |-> others = {}]
                 ELSE IF q \in others THEN [sop[q] EXCEPT !.alone = FALSE] ELSE sop[q]]
    BY <2>1, <2>2 DEF S!Begin
  <2>4. CASE o = p
    <3>1. sop'[o].pc = "stop"
      BY <2>3, <2>4
    <3> QED BY <3>1
  <2>5. CASE o # p /\ o \in others
    <3>1. sop'[o] = [sop[o] EXCEPT !.alone = FALSE]
      BY <2>3, <2>5
    <3>2. sop'[o].pc = sop[o].pc
      BY <1>1, <3>1 DEF S!Operations
    <3> QED BY <3>2
  <2>6. CASE o # p /\ o \notin others
    BY <2>3, <2>6
  <2> QED BY <2>4, <2>5, <2>6
<1>6. {"release", "venv", "unit", "isvc", "ipath", "restart", "ready", "ingest", "watch", "verify",
       "again", "applied", "r_stop", "r_release", "r_venv", "r_unit", "r_isvc", "r_ipath",
       "r_restart", "r_watch", "r_verify", "restored", "restore_failed", "killed"} \subseteq SPlaces
  BY DEF SPlaces, SMoves, S!Changing, S!Restoring, S!Ended
<1>7. S!Activates(p) => S!Applied(p)
  <2>1. ~S!Ready(p)
    <3>1. S!Ready(p) => \E to \in {"ingest", "watch"} : S!Step(p, "ready", to, staging)
      BY DEF S!Ready
    <3> QED BY <1>4, <1>6, <3>1
  <2>2. ~S!InitialIngest(p)
    BY <1>3, <1>6 DEF S!InitialIngest
  <2> QED BY <1>4, <1>6, <2>1, <2>2 DEF S!Activates, S!StopPath, S!SwitchRelease, S!SwitchVenv,
       S!InstallUnit, S!InstallIngestService, S!InstallIngestPath, S!Restart, S!Watch, S!Verify
<1>8. S!Restores(p) => S!Restored(p)
  <2>1. ~S!NotRestored(p)
    <3>1. S!NotRestored(p) => S!Step(p, sop[p].pc, "restore_failed", staging)
      BY DEF S!NotRestored
    <3> QED BY <1>4, <1>6, <3>1
  <2> QED BY <1>4, <1>6, <2>1 DEF S!Restores, S!RestoreStop, S!RestoreRelease, S!RestoreVenv,
       S!RestoreUnit, S!RestoreIngestService, S!RestoreIngestPath, S!RestoreRestart, S!RestoreWatch
<1>9. ~S!TurnBack(p)
  <2>1. S!TurnBack(p) => S!Step(p, sop[p].pc, "r_stop", staging)
    BY DEF S!TurnBack
  <2> QED BY <1>4, <1>6, <2>1
<1>10. ~S!Fails(p) /\ ~S!RestoreFails(p) /\ ~S!Kill(p)
  BY <1>3, <1>6 DEF S!Fails, S!RestoreFails, S!Kill, S!Fault
<1>11. S!Applied(p) \/ S!Restored(p)
  BY <1>2, <1>5, <1>7, <1>8, <1>9, <1>10
<1>12. CASE S!Applied(p)
  <2>1. S!Step(p, "again", "applied", staging)
    BY <1>12 DEF S!Applied
  <2>2. p = o /\ sop'[o].pc = "applied" /\ sop[o].pc = "again"
    BY <1>4, <1>6, <2>1
  <2> QED BY <1>12, <2>2 DEF SMoves, S!Changing
<1>13. CASE S!Restored(p)
  <2>1. S!Step(p, "r_verify", "restored", staging)
    BY <1>13 DEF S!Restored
  <2>2. p = o /\ sop'[o].pc = "restored" /\ sop[o].pc = "r_verify"
    BY <1>4, <1>6, <2>1
  <2> QED BY <1>13, <2>2 DEF SMoves, S!Restoring
<1> QED BY <1>11, <1>12, <1>13

LEMMA AppliedStep ==
    ASSUME SInv, NEW o \in StagingOps, sop[o].alone, S!Applied(o)
    PROVE  /\ staging' = [S!Whole(sop[o].target) EXCEPT !.unit = S!Expected(o)]
           /\ sop[o].target \in Ingesting => stagingDone' >= sop[o].snap
<1>1. /\ S!AppReady(o) /\ sop[o].pc = "again" /\ staging' = staging /\ stagingDone' = stagingDone
  BY DEF S!Applied, S!Step
<1>2. sop[o].pc \in SMoves
  BY <1>1 DEF SMoves, S!Changing
<1>3. PICK t, n, e : sop[o].target = t /\ sop[o].snap = n /\ e = S!Expected(o)
  OBVIOUS
<1>4. /\ staging \in Installations /\ t \in Releases /\ SForward("again", t, n)
  BY <1>1, <1>2, <1>3, SAtWork
<1>5. /\ staging.runs # None /\ staging.enabled /\ staging.release = t /\ staging.venv = t
      /\ staging.unit = e
  BY <1>1, <1>3 DEF S!AppReady
<1>6. /\ staging.isvc = IngestUnit(t) /\ staging.ipath = IngestUnit(t)
      /\ staging.watching = (t \in Ingesting) /\ staging.runs = <<t, t>>
  BY <1>4, <1>5 DEF SForward, Started
<1>7. t \in Ingesting => stagingDone >= n
  BY <1>4 DEF SForward
<1>8. staging.enabled = TRUE /\ e \in Maybe
  BY <1>4, <1>5, Fields
<1>9. PICK w : w = Whole(t)
  OBVIOUS
<1>10. /\ w \in Installations
       /\ w.release = t /\ w.venv = t /\ w.runs = <<t, t>> /\ w.enabled = TRUE
       /\ w.isvc = IngestUnit(t) /\ w.ipath = IngestUnit(t) /\ w.watching = (t \in Ingesting)
  BY <1>4, <1>9, WholeParts DEF Whole
<1>11. PICK j : j = [w EXCEPT !.unit = e]
  OBVIOUS
<1>12. /\ j \in Installations /\ j.unit = e /\ j.release = w.release /\ j.venv = w.venv
       /\ j.watching = w.watching /\ Units(w, j) /\ App(w, j)
  BY <1>8, <1>10, <1>11, SetUnit
<1>13. staging = j
  BY <1>4, <1>5, <1>6, <1>8, <1>10, <1>12, SameParts DEF Units, App
<1>14. S!Whole(sop[o].target) = w
  BY <1>3, <1>9, SameInstallations
<1> QED BY <1>1, <1>3, <1>7, <1>11, <1>13, <1>14

LEMMA RestoredStep ==
    ASSUME SInv, NEW o \in StagingOps, sop[o].alone, S!Restored(o)
    PROVE  staging' = [sop[o].before EXCEPT
                         !.runs = IF @ = None THEN None ELSE S!Loaded(sop[o].before)]
<1>1. /\ S!AsBefore(o) /\ sop[o].pc = "r_verify" /\ staging' = staging
  BY DEF S!Restored, S!Step
<1>2. sop[o].pc \in SMoves
  BY <1>1 DEF SMoves, S!Restoring
<1>3. PICK b : sop[o].before = b
  OBVIOUS
<1>4. /\ staging \in Installations /\ b \in Installations /\ SBackward("r_verify", b)
  BY <1>1, <1>2, <1>3, SAtWork
<1>5. staging.runs = IF b.runs = None THEN None ELSE Loaded(b)
  BY <1>4 DEF SBackward
<1>6. PICK y : y = IF b.runs = None THEN None ELSE Loaded(b)
  OBVIOUS
<1>7. y \in Processes
  BY <1>4, <1>6, LoadedType DEF Processes
<1>8. \A i \in Installations : \A x \in Processes : \A j : j = [i EXCEPT !.runs = x] =>
        /\ j \in Installations /\ j.runs = x
        /\ Links(i, j) /\ Units(i, j) /\ j.enabled = i.enabled /\ j.watching = i.watching
  BY DEF Installations, Links, Units
<1>9. [staging EXCEPT !.runs = None] = [b EXCEPT !.runs = None]
  BY <1>1, <1>3 DEF S!AsBefore
<1>10. PICK k : k = [b EXCEPT !.runs = None]
  OBVIOUS
<1>11. None \in Processes
  BY DEF Processes
<1>12. /\ Links(b, k) /\ Units(b, k) /\ k.enabled = b.enabled /\ k.watching = b.watching
  BY <1>4, <1>8, <1>10, <1>11
<1>13. k = [staging EXCEPT !.runs = None]
  BY <1>9, <1>10
<1>14. /\ Links(staging, k) /\ Units(staging, k) /\ k.enabled = staging.enabled
       /\ k.watching = staging.watching
  BY <1>4, <1>8, <1>11, <1>13
<1>15. PICK j : j = [b EXCEPT !.runs = y]
  OBVIOUS
<1>16. /\ j \in Installations /\ j.runs = y
       /\ Links(b, j) /\ Units(b, j) /\ j.enabled = b.enabled /\ j.watching = b.watching
  BY <1>4, <1>7, <1>8, <1>15
<1>17. staging.runs = j.runs
  BY <1>5, <1>6, <1>16
<1>18. staging = j
  BY <1>4, <1>12, <1>14, <1>16, <1>17, SameParts DEF Links, Units
<1>19. [sop[o].before EXCEPT !.runs = IF @ = None THEN None ELSE S!Loaded(sop[o].before)] = j
  <2>1. S!Loaded(b) = Loaded(b)
    BY SameInstallations
  <2>2. (IF b.runs = None THEN None ELSE S!Loaded(b)) = y
    BY <1>6, <2>1
  <2>3. [b EXCEPT !.runs = IF b.runs = None THEN None ELSE S!Loaded(b)] = j
    BY <1>15, <2>2
  <2> QED BY <1>3, <2>3
<1> QED BY <1>1, <1>18, <1>19

\* What the staging tool reports of an operation that ran alone is so, whatever the production
\* tool does meanwhile.
THEOREM StagingTheorem == DSpec => StagingExact
<1>1. IInv /\ [DNext]_allVars => [S!AppliedExact /\ S!RestoredExact]_allVars
  <2> SUFFICES ASSUME PInv, SInv, [DNext]_allVars, ~UNCHANGED allVars
               PROVE  S!AppliedExact /\ S!RestoredExact
    BY DEF IInv
  <2>1. CASE S!SNext /\ Proves /\ UNCHANGED productionVars
    <3>1. S!AppliedExact
      BY <2>1, NewEnd, AppliedStep DEF S!AppliedExact
    <3>2. S!RestoredExact
      BY <2>1, NewEnd, RestoredStep DEF S!RestoredExact
    <3> QED BY <3>1, <3>2
  <2>2. CASE Next /\ UNCHANGED <<staging, stagingData, stagingNewest, stagingStarts, stagingDone, stagingDue,
                                 sop, proven>>
    BY <2>2 DEF S!AppliedExact, S!RestoredExact
  <2> QED BY <2>1, <2>2, Turns
<1> QED BY <1>1, Invariant, PTL DEF DSpec, StagingExact

=============================================================================
