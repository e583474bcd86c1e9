---------------------------- MODULE HostOtDelivery ----------------------------
(***************************************************************************)
(* The way of an event from the spool of the PLC to a ticket: the sender on *)
(* the PLC (sender.py), the threads of the authenticated ingress            *)
(* (host_ot_ingress.py), the revision check and the signal                  *)
(* (host_ot_events.py), the ticket policy (ticket_policy.py) and the status *)
(* of the sensor (host_ot_status.py).                                       *)
(*                                                                         *)
(* A record is known by its place in the spool, and the revisions of an     *)
(* episode increase with it (RevisionsIncrease of EndpointAudit).  A step   *)
(* is a request or an answer of the sender, or one file operation or        *)
(* database transaction of one thread of the ingress.                       *)
(***************************************************************************)
EXTENDS Naturals, Sequences, FiniteSets

CONSTANTS
    Episodes,
    Threads,        \* threads of the ingress that may be at work at once
    BatchLimit,     \* batch_limit: records of one run of the sender
    MaxRecords,     \* bound: records of the spool
    MaxFaults       \* bound: timeouts, deaths, refusals for a locked database

ASSUME DeliveryAssumption ==
    /\ BatchLimit \in Nat \ {0} /\ MaxRecords \in Nat /\ MaxFaults \in Nat
    /\ "nobody" \notin Threads

\* What a line of the spool is: an event the receiver accepts, an event it refuses for good
\* (see AlwaysAccepted of EndpointAudit), or no event at all.
Kinds == {"event", "refused", "garbled"}

Records == [episode : Episodes, kind : {"event"}, shutdown : BOOLEAN]
              \cup [episode : Episodes, kind : Kinds \ {"event"}, shutdown : {FALSE}]

Beat == 0           \* a heartbeat, where records are numbered from 1
None == 0           \* an episode without a signal
NoThread == "nobody"

VARIABLES
    spool,
    cursor,         \* the sender's cursor, on disk
    sender,         \* "idle", "sending", "waiting" for an answer, or "off"
    batch,          \* the last record of the batch read
    awaited,        \* the thread whose answer the sender waits for
    thread,         \* what each thread is at, for which record, with which priority
    objects,        \* the content-addressed documents
    evidence,       \* the record the signal of each episode holds
    count,          \* occurrence_count of each signal
    priority,       \* of the ticket of each episode
    status,         \* the documents the status of the sensor tells of: at most one
    faults,
    tried,          \* the last record ever posted
    applied,        \* the records ever ingested
    overtaken       \* episodes whose evidence an older revision has replaced

plc    == <<spool, cursor, sender, batch, awaited, tried>>
store  == <<evidence, count, priority, applied, overtaken>>
vars   == <<plc, thread, objects, store, status, faults>>

Free == [at |-> "free", record |-> 0, priority |-> "none"]

Init ==
    /\ spool = << >> /\ cursor = 0
    /\ sender = "idle" /\ batch = 0 /\ awaited = NoThread
    /\ thread = [t \in Threads |-> Free]
    /\ objects = {}
    /\ evidence = [e \in Episodes |-> None] /\ count = [e \in Episodes |-> 0]
    /\ priority = [e \in Episodes |-> "none"]
    /\ status = {}
    /\ faults = 0 /\ tried = 0 /\ applied = {} /\ overtaken = {}

Episode(i) == spool[i].episode
IsEvent(i) == i \in 1 .. Len(spool) /\ spool[i].kind = "event"

Smaller(a, b) == IF a < b THEN a ELSE b

-----------------------------------------------------------------------------
\* The PLC.

\* The writes of an episode accumulate, and with them the values that tell a shutdown.
Accumulates(r) ==
    (\E i \in DOMAIN spool : IsEvent(i) /\ Episode(i) = r.episode /\ spool[i].shutdown)
        => (r.kind = "event" => r.shutdown)

\* SignedSpool.append
SpoolAppend(r) ==
    /\ Len(spool) < MaxRecords
    /\ Accumulates(r)
    /\ spool' = Append(spool, r)
    /\ UNCHANGED <<cursor, sender, batch, awaited, tried, thread, objects, store, status, faults>>

BatchEnd == Smaller(Len(spool), cursor + BatchLimit)

\* pending_envelopes: the chain is verified before a record of the batch is sent.
ReadPending ==
    /\ sender = "idle"
    /\ \A i \in cursor + 1 .. BatchEnd : spool[i].kind # "garbled"
    /\ sender' = "sending"
    /\ batch' = BatchEnd
    /\ UNCHANGED <<spool, cursor, awaited, tried, thread, objects, store, status, faults>>

\* A request of the sender that reaches the ingress, in a thread of its own.
Request(t, i) ==
    /\ sender = "sending" /\ thread[t] = Free
    /\ sender' = "waiting" /\ awaited' = t
    /\ thread' = [thread EXCEPT ![t] = [at |-> "new", record |-> i, priority |-> "none"]]

\* post_event of the next record of the batch.
Post(t) ==
    /\ cursor < batch
    /\ Request(t, cursor + 1)
    /\ tried' = IF tried > cursor THEN tried ELSE cursor + 1
    /\ UNCHANGED <<spool, cursor, batch, objects, store, status, faults>>

\* Mutant: the heartbeat is sent however the batch has ended.
BatchDoneAlways == TRUE

BatchDone == cursor >= batch

\* send_heartbeat_if_due, when it is due and the agent's health is good.
PostHeartbeat(t) ==
    /\ BatchDone
    /\ Request(t, Beat)
    /\ UNCHANGED <<spool, cursor, batch, tried, objects, store, status, faults>>

\* The run ends without a heartbeat.
RunEnds ==
    /\ sender = "sending" /\ BatchDone
    /\ sender' = "idle"
    /\ UNCHANGED <<spool, cursor, batch, awaited, tried, thread, objects, store, status, faults>>

\* Mutant: the cursor moves to the end of the batch.
SaveBatch(i) == cursor' = batch

\* SenderCursor.save
Save(i) == cursor' = i

\* An answer 2xx: the cursor is saved, or the run is over.
Accepted(t) ==
    /\ awaited = t /\ thread[t].at = "done"
    /\ awaited' = NoThread
    /\ thread' = [thread EXCEPT ![t] = Free]
    /\ IF thread[t].record = Beat
       THEN sender' = "idle" /\ UNCHANGED cursor
       ELSE sender' = "sending" /\ Save(thread[t].record)
    /\ UNCHANGED <<spool, batch, tried, objects, store, status, faults>>

\* Mutant: a refusal skips the record.
SkipRefused == cursor' = Smaller(cursor + 1, batch)

NotSaved == UNCHANGED cursor

\* Another answer ends the run; the next one starts at the cursor again.
Refused(t) ==
    /\ awaited = t /\ thread[t].at = "refused"
    /\ sender' = "idle" /\ awaited' = NoThread
    /\ thread' = [thread EXCEPT ![t] = Free]
    /\ NotSaved
    /\ UNCHANGED <<spool, batch, tried, objects, store, status, faults>>

\* The sender no longer waits for its thread, which goes on unless it has answered.
Abandoned ==
    [t \in Threads |-> IF t = awaited /\ thread[t].at \in {"done", "refused"}
                       THEN Free ELSE thread[t]]

\* A timeout, or an answer that is lost.
GiveUp ==
    /\ sender = "waiting" /\ faults < MaxFaults
    /\ sender' = "idle" /\ awaited' = NoThread /\ faults' = faults + 1
    /\ thread' = Abandoned
    /\ UNCHANGED <<spool, cursor, batch, tried, objects, store, status>>

SenderDies ==
    /\ sender # "off" /\ faults < MaxFaults
    /\ sender' = "off" /\ awaited' = NoThread /\ batch' = 0 /\ faults' = faults + 1
    /\ thread' = Abandoned
    /\ UNCHANGED <<spool, cursor, tried, objects, store, status>>

SenderStarts ==
    /\ sender = "off"
    /\ sender' = "idle"
    /\ UNCHANGED <<spool, cursor, batch, awaited, tried, thread, objects, store, status, faults>>

-----------------------------------------------------------------------------
\* The ingress.

Goes(t, at) == thread' = [thread EXCEPT ![t].at = at]

\* A thread that nobody waits for ends with its answer.
Answers(t, at) == thread' = [thread EXCEPT ![t] = IF awaited = t THEN [@ EXCEPT !.at = at]
                                                   ELSE Free]

\* Mutant: the document is not kept before the event is ingested.
StoresLater(i) == UNCHANGED objects

Stores(i) == objects' = IF i = Beat THEN objects ELSE objects \cup {i}

\* accept: the document is durable, whatever becomes of the event.
StoreBody(t) ==
    /\ thread[t].at = "new"
    /\ Stores(thread[t].record)
    /\ Goes(t, "stored")
    /\ UNCHANGED <<plc, store, status, faults>>

\* Mutant: a revision that the signal holds already is refused too.
NotOlderOrSame(i) == evidence[Episode(i)] < i

NotOlder(i) == evidence[Episode(i)] <= i

\* The events that pass validation and are not older than what the signal holds.
Acceptable(i) == IsEvent(i) /\ NotOlder(i)

\* ingest_host_ot_event up to the write: a heartbeat has no signal.
CheckRevision(t) ==
    LET i == thread[t].record
    IN /\ thread[t].at = "stored"
       /\ IF i = Beat THEN Goes(t, "raised")
          ELSE IF Acceptable(i) THEN Goes(t, "checked") ELSE Answers(t, "refused")
       /\ UNCHANGED <<plc, objects, store, status, faults>>

\* Mutant: a document the signal holds already counts again.
CountsAlways(i) == TRUE

\* _upsert_signal: the document the signal holds is no new observation.
IsNew(i) == evidence[Episode(i)] # i

\* ingest_signals
Ingest(t) ==
    LET i == thread[t].record
        e == Episode(i)
    IN /\ thread[t].at = "checked"
       /\ evidence' = [evidence EXCEPT ![e] = i]
       /\ count' = [count EXCEPT ![e] = IF IsNew(i) THEN @ + 1 ELSE @]
       /\ applied' = applied \cup {i}
       /\ overtaken' = IF evidence[e] <= i THEN overtaken ELSE overtaken \cup {e}
       /\ Goes(t, "ingested")
       /\ UNCHANGED <<plc, objects, priority, status, faults>>

\* _desired_priority, of the signal as it is when the policy reads it.
Desired(e) == IF spool[evidence[e]].shutdown THEN "p1" ELSE "p2"

ReadSignal(t) ==
    /\ thread[t].at = "ingested"
    /\ thread' = [thread EXCEPT ![t].at = "read",
                                ![t].priority = Desired(Episode(thread[t].record))]
    /\ UNCHANGED <<plc, objects, store, status, faults>>

\* create_ticket_with_tasks: the ticket of the signal, or a new one.
FileTicket(t) ==
    LET e == Episode(thread[t].record)
    IN /\ thread[t].at = "read"
       /\ priority' = [priority EXCEPT ![e] = IF @ = "none" THEN thread[t].priority ELSE @]
       /\ Goes(t, "filed")
       /\ UNCHANGED <<plc, objects, evidence, count, applied, overtaken, status, faults>>

\* Mutant: the priority of a ticket that exists is left alone.
RaisesNothing(e, p) == UNCHANGED priority

Raises(e, p) == priority' = IF p = "p1" THEN [priority EXCEPT ![e] = "p1"] ELSE priority

\* The policy raises a priority, it never lowers one.
RaisePriority(t) ==
    /\ thread[t].at = "filed"
    /\ Raises(Episode(thread[t].record), thread[t].priority)
    /\ Goes(t, "raised")
    /\ UNCHANGED <<plc, objects, evidence, count, applied, overtaken, status, faults>>

\* store_sensor_status, and the answer.
StoreStatus(t) ==
    /\ thread[t].at = "raised"
    /\ status' = {thread[t].record}
    /\ Answers(t, "done")
    /\ UNCHANGED <<plc, objects, store, faults>>

\* The database is locked, or a file cannot be written: an answer 422.
Fails(t) ==
    /\ thread[t].at \in {"new", "stored", "checked", "ingested", "read", "filed", "raised"}
    /\ faults < MaxFaults
    /\ faults' = faults + 1
    /\ Answers(t, "refused")
    /\ UNCHANGED <<plc, objects, store, status>>

\* The ingress dies with its threads; the sender's connection breaks.
ServerDies ==
    /\ faults < MaxFaults
    /\ \E t \in Threads : thread[t] # Free
    /\ thread' = [t \in Threads |-> Free]
    /\ sender' = IF sender = "waiting" THEN "idle" ELSE sender
    /\ awaited' = NoThread
    /\ faults' = faults + 1
    /\ UNCHANGED <<spool, cursor, batch, tried, objects, store, status>>

Works(t) ==
    \/ StoreBody(t) \/ CheckRevision(t) \/ Ingest(t) \/ ReadSignal(t) \/ FileTicket(t)
    \/ RaisePriority(t) \/ StoreStatus(t)

Sends == ReadPending \/ RunEnds \/ \E t \in Threads : Post(t) \/ Accepted(t) \/ Refused(t)

Next ==
    \/ \E r \in Records : SpoolAppend(r)
    \/ Sends \/ GiveUp \/ SenderDies \/ SenderStarts
    \/ \E t \in Threads : PostHeartbeat(t) \/ Works(t) \/ Fails(t)
    \/ ServerDies

\* The sender runs in a loop and is restarted; a request is served in the end.
Fairness ==
    /\ WF_vars(Sends) /\ WF_vars(SenderStarts)
    /\ \A t \in Threads : WF_vars(Works(t))

Spec == Init /\ [][Next]_vars /\ Fairness

-----------------------------------------------------------------------------
\* Every variable keeps its type, and cursor and batch stay within the spool.
TypeOK ==
    /\ spool \in Seq(Records) /\ Len(spool) <= MaxRecords
    /\ cursor \in 0 .. Len(spool) /\ batch \in 0 .. Len(spool)
    /\ sender \in {"idle", "sending", "waiting", "off"}
    /\ awaited \in Threads \cup {NoThread}
    /\ thread \in [Threads -> [at : {"free", "new", "stored", "checked", "ingested", "read",
                                     "filed", "raised", "done", "refused"},
                               record : 0 .. MaxRecords, priority : {"none", "p1", "p2"}]]
    /\ objects \subseteq 1 .. Len(spool) /\ applied \subseteq 1 .. Len(spool)
    /\ evidence \in [Episodes -> 0 .. Len(spool)] /\ count \in [Episodes -> Nat]
    /\ priority \in [Episodes -> {"none", "p1", "p2"}]
    /\ status \subseteq 0 .. MaxRecords
    /\ faults \in 0 .. MaxFaults /\ tried \in 0 .. Len(spool)
    /\ overtaken \subseteq Episodes

\* Evidence is never without its document: whatever a signal holds, was ever ingested or the
\* sensor's status tells of is a stored object (the comment of accept, host_ot_ingress.py:218).
ObjectsKept ==
    /\ \A e \in Episodes : evidence[e] # None => evidence[e] \in objects
    /\ applied \subseteq objects
    /\ status \ {Beat} \subseteq objects

\* A record the sender has left behind has done what it is for: it has a ticket, and unless
\* an older revision has overtaken it, the signal is as recent and a shutdown is a P1.
AckedDone ==
    \A i \in 1 .. cursor :
        /\ IsEvent(i)
        /\ i \in applied /\ priority[Episode(i)] # "none"
        /\ Episode(i) \notin overtaken =>
              evidence[Episode(i)] >= i /\ (spool[i].shutdown => priority[Episode(i)] = "p1")

\* What the PLC may forget is done and documented (the variables keep their types, ObjectsKept
\* and AckedDone).
DeliverySafe == TypeOK /\ ObjectsKept /\ AckedDone

\* A retry adds no observation: a signal counts its documents once each, unless one came back
\* after a newer one.
CountsDistinct ==
    \A e \in Episodes \ overtaken : count[e] = Cardinality({i \in applied : Episode(i) = e})

\* The sensor does not look alive while a record is stuck: a heartbeat is under way only when
\* every record ever tried has been acknowledged.
HeartbeatHonest ==
    \A t \in Threads : (awaited = t /\ thread[t].record = Beat) => tried <= cursor

\* Sender and receiver deliver the spool in its order, at least once, without a gap.
InOrder == INSTANCE InOrderDelivery WITH log <- spool, acked <- cursor
ImplementsInOrder == InOrder!Spec

\* The lines that stop the sender for good before it has delivered record i: one the receiver
\* refuses, or a garbled one, which stops the records of its batch with it.
Obstacles(i) ==
    {j \in 1 .. Len(spool) : \/ j <= i /\ spool[j].kind # "event"
                             \/ j < i + BatchLimit /\ spool[j].kind = "garbled"}

\* Every record that nothing obstructs is acknowledged in the end, over timeouts, deaths and
\* refusals of the moment.
Delivered ==
    \A i \in 1 .. MaxRecords :
        (i <= Len(spool) /\ Obstacles(i) = {}) ~> (cursor >= i \/ Obstacles(i) # {})
=============================================================================
