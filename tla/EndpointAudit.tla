---------------------------- MODULE EndpointAudit ----------------------------
(***************************************************************************)
(* The audit agent on the PLC (integrations/plc_endpoint_audit): the hook   *)
(* that sees each decoded Modbus request (audit_hook.py), the aggregation   *)
(* of writes into episodes (core.py), the signed spool and the state file   *)
(* (spool.py), and the health the agent reports (runtime.py).               *)
(*                                                                         *)
(* A step is one callback of the PLC's reactor, which is single threaded: a *)
(* request, a lost connection, a turn of the one-second flush loop, the     *)
(* shutdown.  Only the sender's start runs beside it, for the state file is *)
(* shared.  The clock counts turns of the flush loop.                       *)
(***************************************************************************)
EXTENDS Naturals, Sequences, FiniteSets, SequencesExt

CONSTANTS
    Peers,          \* connections that write to the PLC
    Writes,         \* kinds of writes they send
    ShutdownWindow, \* the three registers zeroed within it are a shutdown
    QuietWindow,    \* an episode ends when it is quiet for this long
    EmitInterval,   \* at most one aggregated revision in it
    MaxAge,         \* sensor_health_max_age_seconds of the sender
    MaxBuckets,     \* different writes an episode keeps
    Capacity,       \* bound: records the spool has room for
    MaxTime,        \* bound: turns of the clock
    MaxWrites,      \* bound: writes observed
    MaxBoots,       \* bound: boots of the PLC
    MaxFaults       \* bound: deaths and failing writes

Registers == {3, 4, 16}

\* The registers that each kind of write leaves at zero: three single writes, a block.
Zeroes == [stop3 |-> {3}, stop4 |-> {4}, stop16 |-> {16}, block |-> Registers, other |-> {}]
FunctionCode(w) == IF w = "block" THEN 16 ELSE 6

ASSUME EndpointAssumption ==
    /\ Writes \subseteq DOMAIN Zeroes
    /\ ShutdownWindow \in Nat /\ QuietWindow \in Nat \ {0} /\ EmitInterval \in Nat
    /\ MaxAge \in Nat /\ MaxBuckets \in Nat \ {0} /\ Capacity \in Nat
    /\ MaxTime \in Nat \ {0} /\ MaxWrites \in Nat /\ MaxBoots \in Nat \ {0} /\ MaxFaults \in Nat

VARIABLES
    now,
    boot,       \* boot id of the PLC
    running,    \* "up", "down", or "refused": the agent did not start, nor the PLC's server
    next,       \* the sequence the next episode gets, in memory
    state,      \* the state file: boot and sequence
    open,       \* the open episode of each peer
    spool,      \* complete lines: revisions, or Garbled
    torn,       \* an incomplete line ends the spool
    looping,    \* the flush loop is scheduled
    failure,    \* _failure_code is set
    health,     \* the health file: its status, and when it was written
    sender,     \* "off", "stale" (it has read the state of another boot) or "on"
    writes, faults,
    observed,   \* writes of each episode so far
    missed,     \* episodes that lost a revision to a failure, a death or a torn line
    failedAt,   \* when the last append failed, if none succeeded since
    clobbered   \* the sender has reset a sequence already in use

agent == <<next, open, looping, failure>>
disk  == <<state, spool, torn, health>>
ghost == <<writes, faults, observed, missed, failedAt, clobbered>>
vars  == <<now, boot, running, sender, agent, disk, ghost>>

Never   == 0            \* times start at 1
Numbers == 0 .. MaxWrites + MaxFaults
Ids     == (1 .. MaxBoots) \X Numbers
Garbled == [id |-> <<0, 0>>, rev |-> 0, shutdown |-> FALSE, writes |-> {}, codes |-> {},
            count |-> 0]

Episode(id) ==
    [id |-> id, rev |-> 0, last |-> now, emitted |-> Never, writes |-> {}, codes |-> {},
     count |-> 0, seen |-> [r \in Registers |-> Never], shutdown |-> FALSE, dirty |-> FALSE]

Closed   == [id |-> <<0, 0>>]
IsOpen(p) == open[p] # Closed
Openings == {p \in Peers : IsOpen(p)}

Init ==
    /\ now = 1 /\ boot = 1 /\ running = "up" /\ next = 0
    /\ state = [boot |-> 1, next |-> 0]
    /\ open = [p \in Peers |-> Closed]
    /\ spool = << >> /\ torn = FALSE
    /\ looping = TRUE /\ failure = FALSE /\ health = [status |-> "ready", at |-> 1]
    /\ sender = "off"
    /\ writes = 0 /\ faults = 0
    /\ observed = [id \in Ids |-> 0] /\ missed = {}
    /\ failedAt = Never /\ clobbered = FALSE

-----------------------------------------------------------------------------
\* The aggregation (core.py).

Apart(a, b) == IF a < b THEN b - a ELSE a - b

\* Whether the last zeroes of all three registers lie within the window.
Within(seen) ==
    /\ \A r \in Registers : seen[r] # Never
    /\ \A r, t \in Registers : Apart(seen[r], seen[t]) <= ShutdownWindow

\* Only a single-register write takes part in the correlation.
Correlates(w) == FunctionCode(w) = 6 /\ Zeroes[w] # {}

Seen(e, w) == [r \in Registers |-> IF r \in Zeroes[w] THEN now ELSE e.seen[r]]

IsShutdown(e, w) == IF Correlates(w) /\ \A r \in Registers : Seen(e, w)[r] # Never
                    THEN Within(Seen(e, w)) ELSE e.shutdown

Escalated(e, w) == Correlates(w) /\ Within(Seen(e, w)) /\ ~e.shutdown

Update(e, w) ==
    [e EXCEPT !.last = now, !.count = @ + 1, !.dirty = TRUE,
              !.codes = @ \cup {FunctionCode(w)},
              !.writes = IF Cardinality(@) < MaxBuckets THEN @ \cup {w} ELSE @,
              !.seen = IF Correlates(w) THEN Seen(e, w) ELSE @,
              !.shutdown = IsShutdown(e, w)]

\* Mutant: an escalation waits for its turn.
DueLate(e, w) == e.emitted = Never \/ now - e.emitted >= EmitInterval

Due(e, w) == e.emitted = Never \/ now - e.emitted >= EmitInterval \/ Escalated(e, w)

Rendered(e) == [e EXCEPT !.rev = @ + 1, !.emitted = e.last, !.dirty = FALSE]

Event(e) == [id |-> e.id, rev |-> e.rev + 1, shutdown |-> e.shutdown, writes |-> e.writes,
             codes |-> e.codes, count |-> e.count]

Expired == {p \in Openings : now - open[p].last >= QuietWindow}

\* Mutant: a closing connection drops what it has not emitted.
FinalsNone(P) == {<< >>}

\* The last revisions of the episodes that close, in the order of the dictionary.
Finals(P) ==
    {[i \in DOMAIN order |-> Event(open[order[i]])]
        : order \in SetToSeqs({p \in P \cap Openings : open[p].dirty})}

-----------------------------------------------------------------------------
\* The spool and the health (spool.py, runtime.py).

\* Mutant: the last record is measured without its own size.
FullLate(k) == Len(spool) + k > Capacity

Full(k) == Len(spool) + k >= Capacity

\* k lines are complete; a torn line becomes part of the first of them.
Lines(events, k) ==
    [i \in 1 .. k |-> IF i = 1 /\ torn THEN Garbled ELSE events[i]]

\* Mutant: the health is refreshed whatever failed before.
TouchAnyway == health' = [status |-> "ready", at |-> now]

Touch == IF failure THEN UNCHANGED health ELSE health' = [status |-> "ready", at |-> now]

\* The episodes of which a revision is lost when k lines are complete.
Lost(events, k) == {events[i].id : i \in {j \in DOMAIN events : j > k \/ (torn /\ j = 1)}}

\* _append_events, without a failure.
Appended(events) ==
    /\ events # << >>
    /\ ~Full(Len(events) - 1)
    /\ spool' = spool \o Lines(events, Len(events)) /\ torn' = FALSE
    /\ failure' = FALSE /\ health' = [status |-> "ready", at |-> now]
    /\ failedAt' = Never
    /\ missed' = missed \cup Lost(events, Len(events))
    /\ UNCHANGED faults

\* An append fails: the spool is full, or the write is; the rest is not tried.
AppendFails(events, k) ==
    /\ k < Len(events) /\ (k # 0 => ~Full(k - 1))
    /\ spool' = spool \o Lines(events, k)
    /\ \/ /\ Full(k)
          /\ torn' = (torn /\ k = 0) /\ UNCHANGED faults
       \/ /\ ~Full(k) /\ faults < MaxFaults
          /\ faults' = faults + 1
          /\ torn' \in IF torn /\ k = 0 THEN {TRUE} ELSE BOOLEAN
    /\ missed' = missed \cup Lost(events, k)
    /\ failedAt' = now

\* Mutant: the hook only logs the failure.
ReportQuietly == UNCHANGED <<failure, health>>

\* report_failure
Report == failure' = TRUE /\ health' = [status |-> "error", at |-> now]

\* _append_events called by the hook, which reports what fails.
Emit(events) ==
    \/ events = << >> /\ UNCHANGED <<spool, torn, failure, health, failedAt, faults, missed>>
    \/ Appended(events)
    \/ \E k \in 0 .. Len(events) : AppendFails(events, k) /\ Report

-----------------------------------------------------------------------------
\* The callbacks.

Close(P) == open' = [p \in Peers |-> IF p \in P THEN Closed ELSE open[p]]

\* Mutant: the new sequence is written when the episode ends.
SaveLater == UNCHANGED state

\* allocate_episode_sequence
Save == state' = [boot |-> boot, next |-> next + 1]

\* A decoded write request of p: observe, after the PLC's server has executed it.
Request(p, w) ==
    /\ running = "up" /\ writes < MaxWrites
    /\ LET fresh == ~IsOpen(p) \/ p \in Expired
           id    == IF fresh THEN <<boot, next>> ELSE open[p].id
           e     == IF fresh THEN Episode(id) ELSE open[p]
           u     == Update(e, w)
       IN /\ IF fresh THEN Save /\ next' = next + 1 ELSE UNCHANGED <<state, next>>
          /\ open' = [q \in Peers |->
                         IF q = p THEN IF Due(e, w) THEN Rendered(u) ELSE u
                         ELSE IF q \in Expired THEN Closed ELSE open[q]]
          /\ observed' = [observed EXCEPT ![id] = @ + 1]
          /\ \E finals \in Finals(Expired) :
                 Emit(finals \o (IF Due(e, w) THEN <<Event(u)>> ELSE << >>))
    /\ writes' = writes + 1
    /\ UNCHANGED <<now, boot, running, sender, looping, clobbered>>

\* The state file cannot be written: the request is not observed, the sequence is used up in
\* memory, and the episodes the request has closed are not emitted.
AllocationFails(p) ==
    /\ running = "up" /\ faults < MaxFaults /\ next < MaxWrites
    /\ ~IsOpen(p) \/ p \in Expired
    /\ next' = next + 1
    /\ Close(Expired)
    /\ missed' = missed \cup {open[q].id : q \in {q \in Expired : open[q].dirty}}
    /\ Report /\ failedAt' = now
    /\ faults' = faults + 1
    /\ UNCHANGED <<now, boot, running, sender, looping, state, spool, torn, writes, observed,
                   clobbered>>

\* connectionLost: flush_peer
Disconnect(p) ==
    /\ running = "up" /\ IsOpen(p)
    /\ Close({p})
    /\ \E finals \in Finals({p}) : Emit(finals)
    /\ UNCHANGED <<now, boot, running, sender, next, state, looping, writes, observed, clobbered>>

\* One turn of LoopingCall(flush_expired).  An exception ends the loop, and nobody reports it.
Flush(finals) ==
    \/ finals = << >> /\ Touch /\ UNCHANGED <<spool, torn, failure, failedAt, faults, missed, looping>>
    \/ Appended(finals) /\ UNCHANGED looping
    \/ \E k \in 0 .. Len(finals) :
          AppendFails(finals, k) /\ looping' = FALSE /\ UNCHANGED <<failure, health>>

Turn == running = "up" /\ looping /\ (Expired # {} \/ (health.at # now /\ ~failure))

\* The clock moves on when the loop has had its turn.
Tick ==
    /\ now < MaxTime /\ ~Turn
    /\ now' = now + 1
    /\ UNCHANGED <<boot, running, sender, agent, disk, ghost>>

FlushExpired ==
    /\ Turn
    /\ Close(Expired)
    /\ \E finals \in Finals(Expired) : Flush(finals)
    /\ UNCHANGED <<now, boot, running, sender, next, state, writes, observed, clobbered>>

\* The process ends: its episodes go with it.  Within a callback, the sequence may have been
\* saved already, and the line being written stays incomplete.
Die ==
    /\ running = "up" /\ faults < MaxFaults
    /\ running' = "down"
    /\ missed' = missed \cup {open[p].id : p \in {q \in Openings : open[q].dirty}}
    /\ Close(Peers)
    /\ state' \in {state, [boot |-> boot, next |-> next + 1]}
    /\ torn' \in {torn, TRUE}
    /\ faults' = faults + 1
    /\ UNCHANGED <<now, boot, sender, next, looping, failure, spool, health, writes,
                   observed, failedAt, clobbered>>

\* A controlled stop: flush_all before the reactor's shutdown.
Stop ==
    /\ running = "up"
    /\ running' = "down"
    /\ Close(Peers)
    /\ \E finals \in Finals(Peers) :
          \/ finals = << >> /\ UNCHANGED <<spool, torn, failure, health, failedAt, faults, missed>>
          \/ Appended(finals)
          \/ \E k \in 0 .. Len(finals) : AppendFails(finals, k) /\ UNCHANGED <<failure, health>>
    /\ UNCHANGED <<now, boot, sender, next, looping, state, writes, observed, clobbered>>

\* Mutant: the sequence starts again whatever boot the state file is of.
LoadFresh == [boot |-> boot, next |-> 0]

\* StateStore._load
Load == IF state.boot = boot THEN state ELSE [boot |-> boot, next |-> 0]

\* The last line of the spool is a record the agent can chain to.
Chains == ~torn /\ (spool # << >> => Last(spool) # Garbled)

\* The PLC's server starts, which starts the agent in it: AuditRuntime.
Start ==
    /\ running = "down"
    /\ state' = Load /\ next' = Load.next
    /\ IF Chains
       THEN /\ running' = "up" /\ looping' = TRUE /\ failure' = FALSE
            /\ health' = [status |-> "ready", at |-> now] /\ failedAt' = Never
       ELSE /\ running' = "refused"
            /\ UNCHANGED <<looping, failure, health, failedAt>>
    /\ UNCHANGED <<now, boot, sender, open, spool, torn, writes, faults, observed, missed,
                   clobbered>>

Reboot ==
    /\ running # "up" /\ boot < MaxBoots
    /\ boot' = boot + 1 /\ running' = "down" /\ sender' = "off"
    /\ UNCHANGED <<now, agent, disk, ghost>>

\* The sender starts too: it loads the same state file, and saves it if the boot is new.
SenderLoads ==
    /\ sender = "off"
    /\ sender' = IF state.boot = boot THEN "on" ELSE "stale"
    /\ UNCHANGED <<now, boot, running, agent, disk, ghost>>

SenderSaves ==
    /\ sender = "stale"
    /\ sender' = "on" /\ state' = [boot |-> boot, next |-> 0]
    /\ clobbered' = (clobbered \/ (state.boot = boot /\ state.next > 0))
    /\ UNCHANGED <<now, boot, running, agent, spool, torn, health, writes, faults, observed,
                   missed, failedAt>>

Next ==
    \/ \E p \in Peers, w \in Writes : Request(p, w)
    \/ \E p \in Peers : AllocationFails(p) \/ Disconnect(p)
    \/ Tick \/ FlushExpired
    \/ Die \/ Stop \/ Start \/ Reboot
    \/ SenderLoads \/ SenderSaves

Spec == Init /\ [][Next]_vars

-----------------------------------------------------------------------------
Events ==
    [id : Ids, rev : Nat \ {0}, shutdown : BOOLEAN, writes : SUBSET Writes,
     codes : SUBSET {6, 16}, count : 1 .. MaxWrites] \cup {Garbled}

Episodes ==
    [id : Ids, rev : Nat, last : 1 .. MaxTime, emitted : 0 .. MaxTime, writes : SUBSET Writes,
     codes : SUBSET {6, 16}, count : 1 .. MaxWrites, seen : [Registers -> 0 .. MaxTime],
     shutdown : BOOLEAN, dirty : BOOLEAN]

\* Every variable keeps its type, and the spool never exceeds its size.
TypeOK ==
    /\ now \in 1 .. MaxTime /\ boot \in 1 .. MaxBoots
    /\ running \in {"up", "down", "refused"} /\ sender \in {"off", "stale", "on"}
    /\ next \in Numbers
    /\ state \in [boot : 1 .. MaxBoots, next : Numbers]
    /\ \A p \in Peers : open[p] \in Episodes \cup {Closed}
    /\ Len(spool) <= Capacity /\ \A i \in DOMAIN spool : spool[i] \in Events
    /\ torn \in BOOLEAN /\ looping \in BOOLEAN /\ failure \in BOOLEAN
    /\ health \in [status : {"ready", "error"}, at : 1 .. MaxTime]
    /\ writes \in 0 .. MaxWrites /\ faults \in 0 .. MaxFaults
    /\ observed \in [Ids -> 0 .. MaxWrites] /\ missed \subseteq Ids
    /\ failedAt \in 0 .. MaxTime /\ clobbered \in BOOLEAN

RevisionsOf(id) == {i \in DOMAIN spool : spool[i].id = id}

\* An episode that is over is on the spool with all its writes, whether it ended quietly,
\* with its connection or with the process, unless a failure cost it a revision.
Accounted ==
    \A id \in Ids :
        (/\ observed[id] > 0 /\ id \notin missed /\ ~clobbered
         /\ \A p \in Peers : open[p].id # id)
            => \E i \in RevisionsOf(id) : spool[i].count = observed[id]

\* The spool is well formed and has every episode that is over (EndpointAudit's variables keep
\* their types, and Accounted).
SpoolAccounted == TypeOK /\ Accounted

\* The revisions of an episode are on the spool in their order and once each, over restarts
\* and reboots, unless the sender has reset the sequence under the agent.
RevisionsIncrease ==
    clobbered \/ \A id \in Ids : \A i, j \in RevisionsOf(id) : i < j => spool[i].rev < spool[j].rev

\* A shutdown sequence does not wait for the next aggregated revision: as long as the agent
\* holds it, the last revision spooled says so.
ShutdownSpooled ==
    \A p \in Openings :
        (open[p].shutdown /\ open[p].id \notin missed /\ ~clobbered)
            => \E i \in RevisionsOf(open[p].id) :
                  spool[i].shutdown /\ \A j \in RevisionsOf(open[p].id) : j <= i

Ready == health.status = "ready" /\ now - health.at <= MaxAge

\* A sender cannot take an agent that fails to append for a working one: the failure shows
\* within the age it accepts, the silent end of the flush loop included.
FailureShows == (running = "up" /\ failedAt # Never /\ Ready) => now - failedAt <= MaxAge

\* The semantic checks of the receiver that the agent's rendering could fail.
Accepted(e) ==
    /\ e.codes = {FunctionCode(w) : w \in e.writes}
    /\ e.shutdown <=> UNION {Zeroes[w] : w \in e.writes} = Registers

\* What the agent renders, the receiver accepts.
AlwaysAccepted == \A i \in DOMAIN spool : spool[i] # Garbled => Accepted(spool[i])
=============================================================================
