-------------------------- MODULE TicketStoreProofs --------------------------
(***************************************************************************)
(* Proofs about TicketStore, for any signals, processes, calendars, limits  *)
(* and failures: the trail explains every row, the decision times agree     *)
(* with the status, and a deadline belongs to the priority of its ticket.   *)
(* The three are inductive together with the types of the rows.  From them  *)
(* follow that the automatic policy reaches its priority, and that the      *)
(* store implements TicketLifecycle.  The tasks come last: a signal never   *)
(* holds a task of its playbook twice, and the retention spares the newest. *)
(***************************************************************************)
EXTENDS TicketStore, FiniteSetTheorems, FunctionTheorems, TLAPS

Inv == RowsOK /\ AuditExplains /\ DecisionTimes /\ DeadlineOfPriority

LEMMA StatusNames ==
    Statuses = {"new", "acknowledged", "investigating", "remediating", "waiting_ot",
                "resolved", "closed", "false_positive", "accepted_risk", "suppressed"}
  BY DEF Statuses, Transitions

Operations == {"idle", "policy", "create", "open", "govern", "priority", "transition",
               "add_task", "finish_task", "ensure", "comment", "saved", "recalculate"}

LEMMA RequestType ==
    ASSUME NEW op \in Operations, NEW s \in Signals
    PROVE  Request(op, s) \in Requests
  BY TicketAssumption, StatusNames DEF Operations, Request, Requests, Owners, Always

LEMMA IdleType == Idle \in Requests
<1>1. (CHOOSE s \in Signals : TRUE) \in Signals
  BY TicketAssumption
<1> QED BY <1>1, RequestType DEF Idle, Operations

LEMMA NoTicketType == NoTicket \in Rows /\ Audited(NoTicket) \in Trails
  BY TicketAssumption, StatusNames
  DEF NoTicket, Ticket, Rows, Trails, Deadlines, Due, Owners, Audited, Always

\* A row that is written and whose changed columns are all logged stays explained.
LEMMA Explained ==
    ASSUME RowsOK, AuditExplains,
           NEW s \in Signals, NEW row \in Rows, NEW columns \in SUBSET Columns,
           Write(s, row), Log(s, row, columns),
           \A c \in Columns \ columns : row[c] = ticket[s][c]
    PROVE  /\ ticket' \in [Signals -> Rows] /\ ticket' = [ticket EXCEPT ![s] = row]
           /\ audit' \in [Signals -> Trails]
           /\ AuditExplains'
<1> DEFINE trail == [c \in DOMAIN audit[s] |-> IF c \in columns THEN row[c] ELSE audit[s][c]]
<1>1. /\ ticket' = [ticket EXCEPT ![s] = row]
      /\ ticket' \in [Signals -> Rows]
  BY DEF Write, RowsOK
<1>2. audit' = [audit EXCEPT ![s] = trail] /\ audit[s] = Audited(ticket[s])
      /\ audit \in [Signals -> Trails]
  BY DEF Log, RowsOK, AuditExplains
<1>3. DOMAIN audit[s] = Columns
  BY <1>2 DEF Audited, Columns
<1>4. trail = [c \in Columns |-> row[c]]
  <2>1. ASSUME NEW c \in Columns PROVE trail[c] = row[c]
    <3>1. audit[s][c] = ticket[s][c]
      BY <1>2 DEF Audited, Columns
    <3> QED BY <2>1, <1>3, <3>1
  <2> QED BY <2>1, <1>3
<1>5. [c \in Columns |-> row[c]] = Audited(row)
  BY DEF Audited, Columns
<1>6. Audited(row) \in Trails
  BY DEF Audited, Trails, Rows
<1>7. AuditExplains'
  BY <1>1, <1>2, <1>4, <1>5 DEF AuditExplains, RowsOK
<1> QED BY <1>1, <1>2, <1>4, <1>5, <1>6, <1>7

LEMMA InvInit == Init => Inv
<1> SUFFICES ASSUME Init PROVE Inv
  OBVIOUS
<1>1. RowsOK
  BY TicketAssumption, NoTicketType, IdleType DEF Init, RowsOK, Absent
<1>2. AuditExplains /\ DeadlineOfPriority
  BY DEF Init, AuditExplains, DeadlineOfPriority, NoTicket, Ticket, Due
<1>3. DecisionTimes
  BY DEF Init, DecisionTimes, NoTicket, Ticket, Decided
<1> QED BY <1>1, <1>2, <1>3 DEF Inv

\* A step that changes no row, and gives one process a well-typed request.
LEMMA OnlyJob ==
    ASSUME Inv, NEW p \in Processes, NEW request \in Requests, Do(p, request),
           UNCHANGED <<ticket, audit, issued>>,
           signal' \in [Signals -> {Absent, 1, 2}], calendar' \in 1 .. MaxCalendars,
           faults' \in 0 .. MaxFaults
    PROVE  Inv'
  BY DEF Inv, RowsOK, Do, AuditExplains, Audited, DecisionTimes, DeadlineOfPriority

\* What a process asks for is well typed.
LEMMA JobType ==
    ASSUME RowsOK, NEW p \in Processes
    PROVE  /\ job[p] \in Requests
           /\ job[p].signal \in Signals /\ job[p].id \in Nat /\ job[p].status \in Statuses
           /\ job[p].priority \in Priorities /\ job[p].owner \in Owners
           /\ job[p].calendar \in 0 .. MaxCalendars
  BY DEF RowsOK, Requests

\* A transaction that writes a well-typed row and logs what it changes.
LEMMA WriteRow ==
    ASSUME Inv, NEW p \in Processes, NEW request \in Requests, Do(p, request),
           NEW s \in Signals, NEW row \in Rows, NEW columns \in SUBSET Columns,
           Write(s, row), Log(s, row, columns),
           \A c \in Columns \ columns : row[c] = ticket[s][c],
           row.closed <=> row.status = "closed",
           row.resolved <=> row.status \in Decided \cup {"closed"},
           row.due.priority = row.priority,
           UNCHANGED <<signal, calendar, faults>>, issued' \in Nat
    PROVE  Inv'
<1>1. /\ ticket' \in [Signals -> Rows] /\ ticket' = [ticket EXCEPT ![s] = row]
      /\ audit' \in [Signals -> Trails]
      /\ AuditExplains'
  BY Explained DEF Inv
<1>2. RowsOK'
  BY <1>1 DEF Inv, RowsOK, Do
<1>3. DecisionTimes' /\ DeadlineOfPriority'
  BY <1>1 DEF Inv, RowsOK, DecisionTimes, DeadlineOfPriority
<1> QED BY <1>1, <1>2, <1>3 DEF Inv

LEMMA ObserveInv == ASSUME Inv, NEW h \in Threads, Observe(h) PROVE Inv'
<1>1. PICK s \in Endpoint, p \in {1, 2} :
        signal' = [signal EXCEPT ![s] = p] /\ Do(h, Request("policy", s))
  BY DEF Observe
<1>2. Request("policy", s) \in Requests
  BY RequestType, TicketAssumption DEF Operations
<1>3. signal' \in [Signals -> {Absent, 1, 2}] /\ h \in Processes
  BY <1>1, TicketAssumption DEF Inv, RowsOK, Processes
<1> QED BY <1>1, <1>2, <1>3, OnlyJob DEF Observe, Inv, RowsOK

LEMMA IngestInv == ASSUME Inv, Ingest PROVE Inv'
  BY DEF Ingest, Inv, RowsOK, AuditExplains, Audited, DecisionTimes, DeadlineOfPriority, Absent

LEMMA ReadSignalInv == ASSUME Inv, NEW h \in Threads, ReadSignal(h) PROVE Inv'
<1> DEFINE s == job[h].signal
           request == [Request("create", s) EXCEPT !.priority = signal[s]]
<1>1. h \in Processes /\ s \in Signals
  BY JobType DEF Inv, Processes
<1>2. ASSUME signal[s] # Absent PROVE request \in Requests
  <2>1. signal[s] \in Priorities
    BY <1>1, <1>2, TicketAssumption DEF Inv, RowsOK
  <2>2. Request("create", s) \in Requests
    BY <1>1, RequestType DEF Operations
  <2> QED BY <2>1, <2>2 DEF Requests
<1>3. PICK r \in Requests : Do(h, r)
  BY <1>2, IdleType DEF ReadSignal
<1> QED BY <1>1, <1>3, OnlyJob DEF ReadSignal, store, Inv, RowsOK

LEMMA BeginInv == ASSUME Inv, NEW a \in Analysts, Begin(a) PROVE Inv'
<1>0. /\ a \in Processes
      /\ calendar \in 0 .. MaxCalendars
      /\ \A s \in Signals : ticket[s].id \in Nat
      /\ MaxCalendars \in Nat
  BY TicketAssumption DEF Processes, Inv, RowsOK, Rows
<1>1. ASSUME NEW request \in Requests, Do(a, request), UNCHANGED <<store, faults>>
      PROVE  Inv'
  BY <1>0, <1>1, OnlyJob DEF store, Inv, RowsOK
<1>2. CASE BeginCreate(a)
  <2>1. PICK s \in Signals, op \in {"create", "open"}, p \in Priorities, o \in Owners :
          Do(a, [Request(op, s) EXCEPT !.priority = p, !.owner = o, !.calendar = calendar])
    BY <1>2 DEF BeginCreate
  <2>2. Request(op, s) \in Requests
    BY RequestType DEF Operations
  <2>3. [Request(op, s) EXCEPT !.priority = p, !.owner = o, !.calendar = calendar]
            \in Requests
    BY <1>0, <2>2 DEF Requests
  <2> QED BY <1>1, <1>2, <2>1, <2>3 DEF BeginCreate
<1>3. CASE BeginGovernance(a)
  <2>1. PICK s \in Signals, p \in Priorities, o \in Owners :
          Do(a, [Request("govern", s) EXCEPT !.id = ticket[s].id, !.priority = p,
                                             !.owner = o, !.calendar = calendar])
    BY <1>3 DEF BeginGovernance
  <2>2. Request("govern", s) \in Requests
    BY RequestType DEF Operations
  <2>3. [Request("govern", s) EXCEPT !.id = ticket[s].id, !.priority = p,
                                     !.owner = o, !.calendar = calendar] \in Requests
    BY <1>0, <2>2 DEF Requests
  <2> QED BY <1>1, <1>3, <2>1, <2>3 DEF BeginGovernance
<1>4. CASE BeginTransition(a)
  <2>1. PICK s \in Signals, target \in Statuses :
          Do(a, [Request("transition", s) EXCEPT !.id = ticket[s].id, !.status = target])
    BY <1>4 DEF BeginTransition
  <2>2. Request("transition", s) \in Requests
    BY RequestType DEF Operations
  <2>3. [Request("transition", s) EXCEPT !.id = ticket[s].id, !.status = target] \in Requests
    BY <1>0, <2>2 DEF Requests
  <2> QED BY <1>1, <1>4, <2>1, <2>3 DEF BeginTransition
<1>5. CASE BeginTask(a)
  <2>1. PICK s \in Signals, op \in {"add_task", "finish_task"}, t \in Titles :
          Do(a, [Request(op, s) EXCEPT !.id = ticket[s].id, !.title = t])
    BY <1>5 DEF BeginTask, Titles
  <2>2. Request(op, s) \in Requests
    BY RequestType DEF Operations
  <2>3. [Request(op, s) EXCEPT !.id = ticket[s].id, !.title = t] \in Requests
    BY <1>0, <2>2 DEF Requests
  <2> QED BY <1>1, <1>5, <2>1, <2>3 DEF BeginTask
<1>6. CASE SaveCalendar(a)
  <2>1. [Idle EXCEPT !.op = "saved"] \in Requests
    BY IdleType DEF Requests
  <2>2. calendar' \in 1 .. MaxCalendars
    BY <1>6, <1>0 DEF SaveCalendar, Inv, RowsOK
  <2> QED BY <1>0, <1>6, <2>1, <2>2, OnlyJob DEF SaveCalendar, Inv, RowsOK
<1>7. CASE BeginRecalculation(a)
  <2>1. [Idle EXCEPT !.op = "recalculate", !.calendar = calendar] \in Requests
    BY <1>0, IdleType DEF Requests
  <2> QED BY <1>1, <1>7, <2>1 DEF BeginRecalculation
<1>8. CASE BeginUpkeep(a)
  <2>1. PICK s \in Signals, op \in {"comment", "ensure"} :
          Do(a, [Request(op, s) EXCEPT !.id = ticket[s].id])
    BY <1>8 DEF BeginUpkeep
  <2>2. Request(op, s) \in Requests
    BY RequestType DEF Operations
  <2>3. [Request(op, s) EXCEPT !.id = ticket[s].id] \in Requests
    BY <1>0, <2>2 DEF Requests
  <2> QED BY <1>1, <1>8, <2>1, <2>3 DEF BeginUpkeep
<1> QED BY <1>2, <1>3, <1>4, <1>5, <1>6, <1>7, <1>8 DEF Begin

\* Facts about the row a process is about.
LEMMA RowType ==
    ASSUME Inv, NEW p \in Processes
    PROVE  /\ Row(p) \in Rows /\ Row(p) = ticket[job[p].signal]
           /\ Row(p).closed <=> Row(p).status = "closed"
           /\ Row(p).resolved <=> Row(p).status \in Decided \cup {"closed"}
           /\ Row(p).due.priority = Row(p).priority
           /\ \A q \in Priorities, c \in 0 .. MaxCalendars :
                Due(q, c) \in Deadlines /\ Due(q, c).priority = q
<1>1. job[p].signal \in Signals
  BY JobType DEF Inv
<1> QED
  BY <1>1 DEF Inv, RowsOK, Row, DecisionTimes, DeadlineOfPriority, Due, Deadlines

LEMMA EscalateType ==
    ASSUME Inv, NEW p \in Processes, NEW row \in Rows, Escalate(p, row)
    PROVE  \E request \in Requests : Do(p, request)
<1> DEFINE request == [Request("priority", job[p].signal) EXCEPT !.id = row.id,
                                                           !.priority = job[p].priority]
<1>1. Request("priority", job[p].signal) \in Requests
  BY JobType, RequestType DEF Inv, Operations
<1>2. request \in Requests
  BY <1>1, JobType DEF Inv, Requests, Rows
<1> QED BY <1>2, IdleType DEF Escalate

\* The row of a new ticket: well typed, with an open clock and the deadline of its priority.
LEMMA NewRow ==
    ASSUME Inv, NEW p \in Processes, NEW row,
           row = Ticket(issued + 1, job[p].priority, job[p].owner,
                        Due(job[p].priority, job[p].calendar))
    PROVE  /\ row \in Rows /\ row.due.priority = row.priority
           /\ row.closed <=> row.status = "closed"
           /\ row.resolved <=> row.status \in Decided \cup {"closed"}
<1>1. /\ job[p].priority \in Priorities /\ job[p].owner \in Owners
      /\ job[p].calendar \in 0 .. MaxCalendars /\ issued + 1 \in Nat
  BY JobType DEF Inv, RowsOK
<1>2. /\ row \in Rows /\ row.due.priority = row.priority
      /\ row.status = "new" /\ row.resolved = FALSE /\ row.closed = FALSE
  BY <1>1, StatusNames DEF Ticket, Rows, Deadlines, Due
<1> QED BY <1>2 DEF Decided

LEMMA CreateInv == ASSUME Inv, NEW p \in Processes, CreateTicket(p) PROVE Inv'
<1> DEFINE s   == job[p].signal
           row == Ticket(issued + 1, job[p].priority, job[p].owner,
                         Due(job[p].priority, job[p].calendar))
<1>1. s \in Signals /\ ticket[s] \in Rows /\ issued + 1 \in Nat
  BY JobType DEF Inv, RowsOK
<1>2. CASE Exists(s)
  <2>1. PICK r \in Requests : Do(p, r)
    BY <1>1, <1>2, EscalateType DEF CreateTicket
  <2> QED BY <1>2, <2>1, OnlyJob DEF CreateTicket, Inv, RowsOK
<1>3. CASE ~Exists(s)
  <2>1. /\ row \in Rows /\ row.due.priority = row.priority
        /\ row.closed <=> row.status = "closed"
        /\ row.resolved <=> row.status \in Decided \cup {"closed"}
    BY NewRow
  <2>2. PICK r \in Requests : Do(p, r)
    BY <1>3, <2>1, EscalateType DEF CreateTicket
  <2>3. Write(s, row) /\ Log(s, row, Columns)
    BY <1>3 DEF CreateTicket
  <2>4. issued' \in Nat /\ UNCHANGED <<signal, calendar, faults>>
    BY <1>1, <1>3 DEF CreateTicket
  <2> HIDE DEF s, row
  <2> QED BY <1>1, <2>1, <2>2, <2>3, <2>4, WriteRow
<1> QED BY <1>2, <1>3

LEMMA OpenInv == ASSUME Inv, NEW p \in Processes, OpenTicket(p) PROVE Inv'
<1> DEFINE s   == job[p].signal
           row == Ticket(issued + 1, job[p].priority, job[p].owner,
                         Due(job[p].priority, job[p].calendar))
<1>1. s \in Signals /\ issued + 1 \in Nat /\ Do(p, Idle)
  BY JobType DEF Inv, RowsOK, OpenTicket, Committing
<1>2. CASE Exists(s)
  BY <1>1, <1>2, IdleType, OnlyJob DEF OpenTicket, Inv, RowsOK
<1>3. CASE ~Exists(s)
  <2>1. /\ row \in Rows /\ row.due.priority = row.priority
        /\ row.closed <=> row.status = "closed"
        /\ row.resolved <=> row.status \in Decided \cup {"closed"}
    BY NewRow
  <2>2. Write(s, row) /\ Log(s, row, Columns)
    BY <1>3 DEF OpenTicket
  <2>3. issued' \in Nat /\ UNCHANGED <<signal, calendar, faults>>
    BY <1>1, <1>3 DEF OpenTicket
  <2> HIDE DEF s, row
  <2> QED BY <1>1, <2>1, <2>2, <2>3, IdleType, WriteRow
<1> QED BY <1>2, <1>3

\* Where the legal transitions lead: a decision is only left by reopening the ticket, but
\* a resolution, which may also be closed, and only it.
LEMMA Onward ==
    ASSUME NEW from \in Statuses, NEW to \in Transitions[from]
    PROVE  /\ to = "closed" => from = "resolved"
           /\ from \in Stopped => to = "investigating"
           /\ from = "resolved" => to \in {"closed", "investigating"}
           /\ to = "investigating" => to \notin Decided
<1>1. CASE from \in {"new", "acknowledged"}
  BY <1>1 DEF Transitions, Dismissed, Decided, Stopped
<1>2. CASE from \in {"investigating", "remediating", "waiting_ot"}
  BY <1>2 DEF Transitions, Decided, Stopped
<1>3. CASE from \in {"resolved", "closed", "false_positive", "accepted_risk", "suppressed"}
  BY <1>3 DEF Transitions, Decided, Stopped
<1> QED BY <1>1, <1>2, <1>3, StatusNames

LEMMA TransitionInv == ASSUME Inv, NEW p \in Processes, Transition(p) PROVE Inv'
<1> DEFINE s  == job[p].signal
           to == job[p].status
           from == Row(p).status
           reopened == to = "investigating" /\ from \in Decided \cup Stopped
           row == [Row(p) EXCEPT !.status = to,
                                 !.resolved = (@ \/ to \in Decided) /\ ~reopened,
                                 !.closed = (@ \/ to = "closed") /\ ~reopened]
<1>1. s \in Signals /\ to \in Statuses /\ Row(p) \in Rows /\ Row(p) = ticket[s]
  BY JobType, RowType DEF Inv
<1>2. /\ row \in Rows
      /\ row.status = to /\ row.priority = Row(p).priority /\ row.owner = Row(p).owner
      /\ row.due = Row(p).due
      /\ row.resolved = ((Row(p).resolved \/ to \in Decided) /\ ~reopened)
      /\ row.closed = ((Row(p).closed \/ to = "closed") /\ ~reopened)
  BY <1>1 DEF Rows
<1>3. from \in Statuses /\ to \in Transitions[from]
  BY <1>1 DEF Transition, Rows
<1> HIDE DEF from, to
<1>4. row.closed <=> to = "closed"
  <2>1. Row(p).closed <=> from = "closed"
    BY RowType DEF from
  <2> QED BY <1>2, <1>3, <2>1, Onward DEF Stopped
<1>5. row.resolved <=> to \in Decided \cup {"closed"}
  <2>1. Row(p).resolved <=> from \in Decided \cup {"closed"}
    BY RowType DEF from
  <2> QED BY <1>2, <1>3, <2>1, Onward DEF Decided, Stopped
<1>6. row.due.priority = row.priority
  BY <1>2, RowType
<1>7. /\ Write(s, row) /\ Log(s, row, {"status"}) /\ Do(p, Idle)
      /\ UNCHANGED <<signal, calendar, faults>> /\ issued' \in Nat
  BY DEF Transition, Committing, Inv, RowsOK, from, to
<1>8. \A c \in Columns \ {"status"} : row[c] = ticket[s][c]
  BY <1>1, <1>2 DEF Columns
<1>9. {"status"} \in SUBSET Columns
  BY DEF Columns
<1> HIDE DEF row, s
<1> QED BY <1>1, <1>2, <1>4, <1>5, <1>6, <1>7, <1>8, <1>9, IdleType, WriteRow

LEMMA SetPriorityInv == ASSUME Inv, NEW p \in Processes, SetPriority(p) PROVE Inv'
<1> DEFINE s   == job[p].signal
           row == [Row(p) EXCEPT !.priority = job[p].priority,
                                 !.due = Due(job[p].priority, job[p].calendar)]
<1>1. /\ s \in Signals /\ Row(p) \in Rows /\ Row(p) = ticket[s]
      /\ job[p].priority \in Priorities
      /\ Due(job[p].priority, job[p].calendar) \in Deadlines
      /\ Due(job[p].priority, job[p].calendar).priority = job[p].priority
  BY JobType, RowType DEF Inv
<1>2. /\ row \in Rows
      /\ row.status = Row(p).status /\ row.owner = Row(p).owner
      /\ row.resolved = Row(p).resolved /\ row.closed = Row(p).closed
      /\ row.due.priority = row.priority
  BY <1>1 DEF Rows
<1>3. Do(p, Idle) /\ UNCHANGED <<signal, issued, calendar, faults>> /\ issued' \in Nat
  BY DEF SetPriority, Committing, Inv, RowsOK
<1>4. CASE Row(p).priority = job[p].priority
  BY <1>3, <1>4, IdleType, OnlyJob DEF SetPriority, Inv, RowsOK
<1>5. CASE Row(p).priority # job[p].priority
  <2>1. Write(s, row) /\ Log(s, row, {"priority", "due"})
    BY <1>5 DEF SetPriority
  <2>2. \A c \in Columns \ {"priority", "due"} : row[c] = ticket[s][c]
    BY <1>1, <1>2 DEF Columns
  <2>3. {"priority", "due"} \in SUBSET Columns
    BY DEF Columns
  <2>4. /\ row.closed <=> row.status = "closed"
        /\ row.resolved <=> row.status \in Decided \cup {"closed"}
    BY <1>2, RowType
  <2> HIDE DEF row, s
  <2> QED BY <1>1, <1>2, <1>3, <2>1, <2>2, <2>3, <2>4, IdleType, WriteRow
<1> QED BY <1>4, <1>5

LEMMA GovernInv == ASSUME Inv, NEW p \in Processes, Govern(p) PROVE Inv'
<1> DEFINE s   == job[p].signal
           due == IF Row(p).priority = job[p].priority THEN Row(p).due
                  ELSE Due(job[p].priority, job[p].calendar)
           row == [Row(p) EXCEPT !.owner = job[p].owner, !.priority = job[p].priority,
                                 !.due = due]
<1>1. /\ s \in Signals /\ Row(p) \in Rows /\ Row(p) = ticket[s]
      /\ job[p].priority \in Priorities /\ job[p].owner \in Owners
  BY JobType, RowType DEF Inv
<1>2. due \in Deadlines /\ due.priority = job[p].priority
  BY <1>1, RowType, JobType DEF Inv, Rows
<1> HIDE DEF due
<1>3. /\ row \in Rows
      /\ row.status = Row(p).status
      /\ row.resolved = Row(p).resolved /\ row.closed = Row(p).closed
      /\ row.due.priority = row.priority
  BY <1>1, <1>2 DEF Rows
<1>4. /\ Do(p, Idle) /\ UNCHANGED <<signal, calendar, faults>> /\ issued' \in Nat
      /\ Write(s, row) /\ Log(s, row, {"owner", "priority", "due"})
  BY DEF Govern, Committing, Inv, RowsOK, due
<1>5. \A c \in Columns \ {"owner", "priority", "due"} : row[c] = ticket[s][c]
  BY <1>1, <1>3 DEF Columns
<1>6. {"owner", "priority", "due"} \in SUBSET Columns
  BY DEF Columns
<1>7. /\ row.closed <=> row.status = "closed"
      /\ row.resolved <=> row.status \in Decided \cup {"closed"}
  BY <1>3, RowType
<1> HIDE DEF row, s
<1> QED BY <1>1, <1>3, <1>4, <1>5, <1>6, <1>7, IdleType, WriteRow

LEMMA RecalculateInv == ASSUME Inv, NEW p \in Processes, Recalculate(p) PROVE Inv'
<1> DEFINE open   == {s \in Signals : Exists(s) /\ ticket[s].status \notin Stopped}
           due(s) == Due(ticket[s].priority, job[p].calendar)
<1>1. /\ ticket' = [s \in Signals |-> IF s \in open THEN [ticket[s] EXCEPT !.due = due(s)]
                                      ELSE ticket[s]]
      /\ audit' = [s \in Signals |-> IF s \in open THEN [audit[s] EXCEPT !.due = due(s)]
                                     ELSE audit[s]]
      /\ Do(p, Idle) /\ UNCHANGED <<signal, issued, calendar, faults>>
  BY DEF Recalculate, Committing
<1>2. ASSUME NEW s \in Signals
      PROVE  /\ ticket[s] \in Rows /\ audit[s] \in Trails /\ audit[s] = Audited(ticket[s])
             /\ due(s) \in Deadlines /\ due(s).priority = ticket[s].priority
  BY JobType DEF Inv, RowsOK, AuditExplains, Rows, Due, Deadlines
<1> HIDE DEF open, due
<1>3. ASSUME NEW s \in Signals
      PROVE  /\ ticket'[s] \in Rows /\ audit'[s] \in Trails
             /\ audit'[s] = Audited(ticket'[s])
             /\ ticket'[s].status = ticket[s].status
             /\ ticket'[s].resolved = ticket[s].resolved
             /\ ticket'[s].closed = ticket[s].closed
             /\ ticket'[s].due.priority = ticket'[s].priority
  <2>1. CASE s \in open
    <3>1. ticket'[s] = [ticket[s] EXCEPT !.due = due(s)]
          /\ audit'[s] = [audit[s] EXCEPT !.due = due(s)]
      BY <1>1, <2>1
    <3>2. /\ ticket'[s] \in Rows
          /\ ticket'[s].due = due(s) /\ ticket'[s].priority = ticket[s].priority
          /\ ticket'[s].status = ticket[s].status /\ ticket'[s].owner = ticket[s].owner
          /\ ticket'[s].resolved = ticket[s].resolved
          /\ ticket'[s].closed = ticket[s].closed
      BY <1>2, <3>1 DEF Rows
    <3>3. audit'[s] \in Trails
      BY <1>2, <3>1 DEF Trails
    <3>4. audit'[s] = Audited(ticket'[s])
      <4> DEFINE row == ticket[s]
      <4>1. audit[s] = [status |-> row.status, priority |-> row.priority, owner |-> row.owner,
                        due |-> row.due]
        BY <1>2 DEF Audited
      <4>2. audit'[s] = [status |-> row.status, priority |-> row.priority,
                         owner |-> row.owner, due |-> due(s)]
        BY <3>1, <4>1
      <4>3. Audited(ticket'[s]) = [status |-> row.status, priority |-> row.priority,
                                   owner |-> row.owner, due |-> due(s)]
        BY <3>2 DEF Audited
      <4> QED BY <4>2, <4>3
    <3> QED BY <1>2, <3>2, <3>3, <3>4
  <2>2. CASE s \notin open
    BY <1>1, <1>2, <2>2 DEF Inv, DeadlineOfPriority
  <2> QED BY <2>1, <2>2
<1>4. RowsOK'
  BY <1>1, <1>3, IdleType DEF Inv, RowsOK, Do
<1>5. AuditExplains' /\ DecisionTimes' /\ DeadlineOfPriority'
  BY <1>3 DEF Inv, AuditExplains, DecisionTimes, DeadlineOfPriority
<1> QED BY <1>4, <1>5 DEF Inv

\* Operations that change the tasks, or nothing but the process.
Quiet(p) == AddTask(p) \/ EnsureTasks(p) \/ AddComment(p) \/ FinishTask(p) \/ Refuse(p) \/ Fail(p)

LEMMA QuietInv ==
    ASSUME Inv, NEW p \in Processes, Quiet(p)
    PROVE  Inv'
<1>1. faults' \in 0 .. MaxFaults
  BY TicketAssumption DEF Quiet, AddTask, EnsureTasks, AddComment, FinishTask, Refuse, Fail, Inv, RowsOK
<1>2. Do(p, Idle) /\ UNCHANGED <<signal, ticket, audit, issued, calendar>>
  BY DEF Quiet, AddTask, EnsureTasks, AddComment, FinishTask, Refuse, Fail, Committing, store
<1> QED BY <1>1, <1>2, IdleType, OnlyJob DEF Inv, RowsOK

LEMMA PruneInv == ASSUME Inv, Prune PROVE Inv'
<1>1. PICK kept :
        /\ ticket' = [s \in Signals |-> IF s \in kept THEN ticket[s] ELSE NoTicket]
        /\ audit' = [s \in Signals |-> IF s \in kept THEN audit[s] ELSE Audited(NoTicket)]
        /\ signal' = [s \in Signals |-> IF s \in kept THEN signal[s] ELSE Absent]
        /\ UNCHANGED <<issued, calendar, job, faults>>
  BY DEF Prune
<1>2. /\ NoTicket.closed = FALSE /\ NoTicket.resolved = FALSE /\ NoTicket.status = "new"
      /\ NoTicket.due.priority = NoTicket.priority
  BY DEF NoTicket, Ticket, Due
<1>3. RowsOK'
  BY <1>1, NoTicketType DEF Inv, RowsOK, Absent
<1>4. AuditExplains'
  BY <1>1 DEF Inv, RowsOK, AuditExplains
<1>5. DecisionTimes' /\ DeadlineOfPriority'
  BY <1>1, <1>2 DEF Inv, RowsOK, DecisionTimes, DeadlineOfPriority, Decided
<1> QED BY <1>3, <1>4, <1>5 DEF Inv

LEMMA InvStep == Inv /\ [Next]_vars => Inv'
<1> SUFFICES ASSUME Inv, [Next]_vars PROVE Inv'
  OBVIOUS
<1>1. ASSUME NEW h \in Threads, Observe(h) \/ ReadSignal(h) PROVE Inv'
  BY <1>1, ObserveInv, ReadSignalInv
<1>2. ASSUME NEW a \in Analysts, Begin(a) PROVE Inv'
  BY <1>2, BeginInv
<1>3. ASSUME NEW p \in Processes, Commit(p) PROVE Inv'
  BY <1>3, CreateInv, OpenInv, TransitionInv, SetPriorityInv, GovernInv, RecalculateInv,
     QuietInv
  DEF Commit, Quiet
<1>4. ASSUME NEW p \in Processes, Fail(p) PROVE Inv'
  BY <1>4, QuietInv DEF Quiet
<1>5. CASE UNCHANGED vars
  BY <1>5 DEF vars, store, Inv, RowsOK, AuditExplains, Audited, DecisionTimes,
              DeadlineOfPriority
<1> QED BY <1>1, <1>2, <1>3, <1>4, <1>5, IngestInv, PruneInv DEF Next

\* For any analysts, ingress threads and retention runs, interleaved in any way: the rows,
\* the trail and the requests keep their types.
THEOREM RowsCorrect == Spec => []RowsOK
<1>1. Inv => RowsOK
  BY DEF Inv
<1> QED BY <1>1, InvInit, InvStep, PTL DEF Spec

\* Whatever order the transactions commit in, the trail says what every row says: no
\* status, owner, priority or deadline is changed without its event.
THEOREM TrailExplainsRows == Spec => []AuditExplains
<1>1. Inv => AuditExplains
  BY DEF Inv
<1> QED BY <1>1, InvInit, InvStep, PTL DEF Spec

\* However often a ticket is reopened, closed_at and resolved_at are there exactly when the
\* status says so, which is what derive_ticket_sla stops its clocks by.
THEOREM ClocksAgree == Spec => []DecisionTimes
<1>1. Inv => DecisionTimes
  BY DEF Inv
<1> QED BY <1>1, InvInit, InvStep, PTL DEF Spec

\* No interleaving of escalations, governance forms and calendar changes leaves a ticket
\* with the deadline of another priority.
THEOREM DeadlinesBelong == Spec => []DeadlineOfPriority
<1>1. Inv => DeadlineOfPriority
  BY DEF Inv
<1> QED BY <1>1, InvInit, InvStep, PTL DEF Spec

-----------------------------------------------------------------------------
(* The automatic policy.                                                    *)

\* A thread that goes idle did so by a transaction of its own, by an error or by a fault.
LEMMA WhoStops ==
    ASSUME Inv, Next, NEW h \in Threads,
           job[h].op \in {"create", "priority"}, job'[h].op = "idle"
    PROVE  CreateTicket(h) \/ SetPriority(h) \/ Refuse(h) \/ Fail(h)
<1> USE DEF Do, Inv, RowsOK, Processes
<1>1. ASSUME NEW g \in Threads, Observe(g) \/ ReadSignal(g) PROVE FALSE
  <2>1. PICK r : job' = [job EXCEPT ![g] = r]
    BY <1>1 DEF Observe, ReadSignal
  <2>2. g = h
    BY <2>1
  <2> QED BY <1>1, <2>2 DEF Observe, ReadSignal
<1>2. ASSUME NEW a \in Analysts, Begin(a) PROVE FALSE
  <2>1. PICK r : job' = [job EXCEPT ![a] = r]
    BY <1>2 DEF Begin, BeginCreate, BeginGovernance, BeginTransition, BeginTask, BeginUpkeep,
                SaveCalendar, BeginRecalculation
  <2> QED BY <2>1, TicketAssumption
<1>3. ASSUME NEW p \in Processes, Commit(p) \/ Fail(p) PROVE p = h
  <2>1. PICK r : job' = [job EXCEPT ![p] = r]
    BY <1>3 DEF Commit, CreateTicket, OpenTicket, Escalate, Transition, SetPriority, Govern,
                Recalculate, AddTask, EnsureTasks, AddComment, FinishTask, Refuse, Fail,
                Committing
  <2> QED BY <2>1
<1>4. ~Ingest /\ ~Prune
  BY DEF Ingest, Prune
<1>5. PICK p \in Processes : Commit(p) \/ Fail(p)
  BY <1>1, <1>2, <1>4 DEF Next
<1>6. Commit(h) \/ Fail(h)
  BY <1>3, <1>5
<1> QED
  BY <1>6 DEF Commit, OpenTicket, Transition, Govern, Recalculate, AddTask, EnsureTasks,
              AddComment, FinishTask, Committing

\* A thread that read evidence and goes idle without a fault leaves the ticket of its
\* signal at least as urgent as that evidence, whatever analysts did meanwhile.
THEOREM PolicyReachesPriority == Spec => PolicyReaches
<1>1. ASSUME Inv, Next, NEW h \in Threads PROVE Reached(h)
  <2> DEFINE s == job[h].signal
  <2> SUFFICES ASSUME job[h].op \in {"create", "priority"}, job'[h].op = "idle",
                      faults' = faults, signal[s] # Absent,
                      job[h].op = "priority" => Found(h)
               PROVE  ticket'[s].id # 0 /\ ticket'[s].priority <= job[h].priority
    BY DEF Reached
  <2>1. /\ h \in Processes /\ s \in Signals /\ job[h].priority \in Nat
        /\ ticket[s] \in Rows /\ ticket[s].priority \in Nat /\ issued \in Nat
    <3>1. h \in Processes
      BY DEF Processes
    <3>2. \A n \in Priorities : n \in Nat
      BY TicketAssumption
    <3>3. s \in Signals /\ job[h].priority \in Priorities
      BY <1>1, <3>1, JobType DEF Inv
    <3>4. ticket[s] \in Rows /\ issued \in Nat
      BY <1>1, <3>3 DEF Inv, RowsOK
    <3> QED BY <3>1, <3>2, <3>3, <3>4 DEF Rows
  <2>2. CASE CreateTicket(h) /\ Exists(s)
    <3>1. ticket' = ticket /\ Escalate(h, ticket[s])
      BY <2>2 DEF CreateTicket
    <3>2. ~(job[h].priority < ticket[s].priority)
      <4>1. ASSUME job[h].priority < ticket[s].priority PROVE job'[h].op = "priority"
        BY <1>1, <2>1, <3>1, <4>1 DEF Escalate, Do, Inv, RowsOK, Request
      <4> QED BY <4>1
    <3> QED BY <2>1, <2>2, <3>1, <3>2 DEF Exists
  <2>3. CASE CreateTicket(h) /\ ~Exists(s)
    <3> DEFINE row == Ticket(issued + 1, job[h].priority, job[h].owner,
                             Due(job[h].priority, job[h].calendar))
    <3>1. ticket' = [ticket EXCEPT ![s] = row]
      BY <2>3 DEF CreateTicket, Write
    <3>2. row.id = issued + 1 /\ row.priority = job[h].priority
      BY DEF Ticket
    <3>3. ticket'[s] = row
      BY <1>1, <2>1, <3>1 DEF Inv, RowsOK
    <3> QED BY <2>1, <3>2, <3>3
  <2>4. CASE SetPriority(h)
    <3>1. job[h].op = "priority" /\ ticket[s].id # 0
      BY <2>4 DEF SetPriority, Committing, Found, Row
    <3>2. CASE ticket[s].priority = job[h].priority
      BY <2>1, <2>4, <3>1, <3>2 DEF SetPriority, Row
    <3>3. CASE ticket[s].priority # job[h].priority
      <4> DEFINE row == [Row(h) EXCEPT !.priority = job[h].priority,
                                       !.due = Due(job[h].priority, job[h].calendar)]
      <4>1. ticket' = [ticket EXCEPT ![s] = row]
        BY <2>4, <3>3 DEF SetPriority, Write, Row
      <4>2. row.priority = job[h].priority /\ row.id = ticket[s].id
        BY <2>1 DEF Row, Rows
      <4>3. ticket'[s] = row
        BY <1>1, <2>1, <4>1 DEF Inv, RowsOK
      <4> QED BY <2>1, <3>1, <4>2, <4>3
    <3> QED BY <3>2, <3>3
  <2>5. ~Refuse(h)
    BY DEF Refuse
  <2>6. ~Fail(h)
    BY <1>1 DEF Fail, Inv, RowsOK
  <2> QED BY <1>1, <2>2, <2>3, <2>4, <2>5, <2>6, WhoStops
<1>2. Inv /\ [Next]_vars => [\A h \in Threads : Reached(h)]_vars
  BY <1>1
<1> QED BY <1>2, InvInit, InvStep, PTL DEF Spec, PolicyReaches

-----------------------------------------------------------------------------
(* The lifecycle.                                                           *)

\* The phases under the invariant, by status.
LEMMA PhaseByStatus ==
    ASSUME NEW row \in Rows, row.id # 0,
           row.closed <=> row.status = "closed",
           row.resolved <=> row.status \in Decided \cup {"closed"}
    PROVE  /\ row.status \notin Decided \cup {"closed"} => PhaseOf(row) = "open"
           /\ row.status = "closed" => PhaseOf(row) = "closed"
           /\ row.status = "resolved" => PhaseOf(row) = "resolved"
           /\ row.status \in Stopped \ {"closed"} => PhaseOf(row) = "dismissed"
  BY DEF PhaseOf, Decided, Stopped

\* A row whose identity, status and decision times stay is in the same phase.
LEMMA SamePhase ==
    ASSUME NEW old, NEW new, new.id = old.id, new.status = old.status,
           new.closed = old.closed, new.resolved = old.resolved
    PROVE  PhaseOf(new) = PhaseOf(old)
  BY DEF PhaseOf

LEMMA OneRow ==
    ASSUME Inv, NEW s \in Signals, NEW row, Write(s, row)
    PROVE  Phase' = [Phase EXCEPT ![s] = PhaseOf(row)] /\ Phase[s] = PhaseOf(ticket[s])
<1>1. ticket' = [ticket EXCEPT ![s] = row] /\ ticket \in [Signals -> Rows]
  BY DEF Write, Inv, RowsOK
<1> QED BY <1>1 DEF Phase

LEMMA TransitionPhase ==
    ASSUME Inv, Inv', NEW p \in Processes, Transition(p)
    PROVE  \/ Phase' = Phase
           \/ \E s \in Signals :
                \/ Phase[s] = "open" /\ \E d \in {"resolved", "dismissed"} :
                                           Phase' = [Phase EXCEPT ![s] = d]
                \/ Phase[s] = "resolved" /\ Phase' = [Phase EXCEPT ![s] = "closed"]
                \/ Phase[s] \in {"resolved", "dismissed", "closed"}
                     /\ Phase' = [Phase EXCEPT ![s] = "open"]
<1> DEFINE s    == job[p].signal
           from == ticket[s].status
           to   == ticket'[s].status
<1>1. s \in Signals /\ ticket[s] \in Rows /\ ticket'[s] \in Rows
  BY JobType DEF Inv, RowsOK
<1>2. PICK row : Write(s, row) /\ row.status = job[p].status /\ row.id = ticket[s].id
  <2>1. PICK row : /\ Write(s, row)
                   /\ \E r, c : row = [ticket[s] EXCEPT !.status = job[p].status,
                                                        !.resolved = r, !.closed = c]
    BY DEF Transition, Row
  <2> QED BY <1>1, <2>1 DEF Rows
<1>3. ticket'[s] = row
  BY <1>1, <1>2 DEF Write, Inv, RowsOK
<1>4. /\ ticket[s].id # 0 /\ ticket'[s].id # 0
      /\ from \in Statuses /\ to \in Transitions[from]
  BY <1>1, <1>2, <1>3 DEF Transition, Found, Row, Rows
<1>5. Phase' = [Phase EXCEPT ![s] = PhaseOf(ticket'[s])] /\ Phase[s] = PhaseOf(ticket[s])
  BY <1>1, <1>2, <1>3, OneRow
<1>6. /\ from \notin Decided \cup {"closed"} => Phase[s] = "open"
      /\ from = "closed" => Phase[s] = "closed"
      /\ from = "resolved" => Phase[s] = "resolved"
      /\ from \in Stopped \ {"closed"} => Phase[s] = "dismissed"
  BY <1>1, <1>4, <1>5, PhaseByStatus DEF Inv, DecisionTimes
<1>7. /\ to \notin Decided \cup {"closed"} => PhaseOf(ticket'[s]) = "open"
      /\ to = "closed" => PhaseOf(ticket'[s]) = "closed"
      /\ to = "resolved" => PhaseOf(ticket'[s]) = "resolved"
      /\ to \in Stopped \ {"closed"} => PhaseOf(ticket'[s]) = "dismissed"
  BY <1>1, <1>4, PhaseByStatus DEF Inv, DecisionTimes
<1>8. /\ to = "closed" => from = "resolved"
      /\ from \in Stopped => to = "investigating"
      /\ from = "resolved" => to \in {"closed", "investigating"}
  BY <1>4, Onward
<1> HIDE DEF from, to
<1>9. CASE from \notin Decided \cup {"closed"}
  <2>1. to # "closed"
    BY <1>8, <1>9 DEF Decided
  <2>2. CASE to \notin Decided
    <3>1. PhaseOf(ticket'[s]) = Phase[s]
      BY <1>6, <1>7, <1>9, <2>1, <2>2
    <3> QED BY <1>1, <1>5, <3>1 DEF Phase
  <2>3. CASE to \in Decided
    <3>1. PhaseOf(ticket'[s]) \in {"resolved", "dismissed"}
      BY <1>7, <2>3 DEF Decided, Stopped
    <3> QED BY <1>1, <1>5, <1>6, <1>9, <3>1
  <2> QED BY <2>2, <2>3
<1>10. CASE from \in Stopped
  <2>1. to = "investigating" /\ to \notin Decided \cup {"closed"}
    BY <1>8, <1>10 DEF Decided
  <2>2. Phase[s] \in {"dismissed", "closed"} /\ PhaseOf(ticket'[s]) = "open"
    BY <1>6, <1>7, <1>10, <2>1 DEF Stopped
  <2> QED BY <1>1, <1>5, <2>2
<1>11. CASE from = "resolved"
  <2>1. CASE to = "closed"
    BY <1>1, <1>5, <1>6, <1>7, <1>11, <2>1
  <2>2. CASE to = "investigating"
    <3>1. PhaseOf(ticket'[s]) = "open"
      BY <1>7, <2>2 DEF Decided
    <3> QED BY <1>1, <1>5, <1>6, <1>11, <3>1
  <2> QED BY <1>8, <1>11, <2>1, <2>2
<1> QED BY <1>9, <1>10, <1>11 DEF Decided, Stopped

\* A transaction that keeps every ticket's identity, status and decision times.
LEMMA PhaseKept ==
    ASSUME \A s \in Signals : /\ ticket'[s].id = ticket[s].id
                              /\ ticket'[s].status = ticket[s].status
                              /\ ticket'[s].closed = ticket[s].closed
                              /\ ticket'[s].resolved = ticket[s].resolved
    PROVE  Phase' = Phase
<1>1. \A s \in Signals : PhaseOf(ticket'[s]) = PhaseOf(ticket[s])
  BY SamePhase
<1> QED BY <1>1 DEF Phase

LEMMA PhaseStep ==
    ASSUME Inv, Inv', Next
    PROVE  \/ Phase' = Phase
           \/ \E S \in SUBSET Signals :
                Phase' = [s \in Signals |-> IF s \in S THEN "none" ELSE Phase[s]]
           \/ \E s \in Signals :
                \/ Phase[s] = "none" /\ Phase' = [Phase EXCEPT ![s] = "open"]
                \/ Phase[s] = "open" /\ \E d \in {"resolved", "dismissed"} :
                                           Phase' = [Phase EXCEPT ![s] = d]
                \/ Phase[s] = "resolved" /\ Phase' = [Phase EXCEPT ![s] = "closed"]
                \/ Phase[s] \in {"resolved", "dismissed", "closed"}
                     /\ Phase' = [Phase EXCEPT ![s] = "open"]
<1>1. ASSUME ticket' = ticket PROVE Phase' = Phase
  BY <1>1 DEF Phase
<1>2. ASSUME NEW h \in Threads, Observe(h) \/ ReadSignal(h) PROVE ticket' = ticket
  BY <1>2 DEF Observe, ReadSignal, store
<1>3. ASSUME NEW a \in Analysts, Begin(a) PROVE ticket' = ticket
  BY <1>3 DEF Begin, BeginCreate, BeginGovernance, BeginTransition, BeginTask, BeginUpkeep,
              SaveCalendar, BeginRecalculation, store
<1>4. ASSUME NEW p \in Processes, Quiet(p)
      PROVE  ticket' = ticket
  BY <1>4 DEF Quiet, AddTask, EnsureTasks, AddComment, FinishTask, Refuse, Fail, store
<1>5. ASSUME NEW p \in Processes, CreateTicket(p) \/ OpenTicket(p)
      PROVE  \/ ticket' = ticket
             \/ \E s \in Signals : Phase[s] = "none" /\ Phase' = [Phase EXCEPT ![s] = "open"]
  <2> DEFINE s   == job[p].signal
             row == Ticket(issued + 1, job[p].priority, job[p].owner,
                           Due(job[p].priority, job[p].calendar))
  <2>1. s \in Signals /\ issued \in Nat
    BY JobType DEF Inv, RowsOK
  <2>2. CASE Exists(s)
    BY <1>5, <2>2 DEF CreateTicket, OpenTicket
  <2>3. CASE ~Exists(s)
    <3>1. Write(s, row)
      BY <1>5, <2>3 DEF CreateTicket, OpenTicket
    <3>2. row.id # 0 /\ row.closed = FALSE /\ row.resolved = FALSE
      BY <2>1 DEF Ticket
    <3>3. PhaseOf(row) = "open" /\ PhaseOf(ticket[s]) = "none"
      BY <2>3, <3>2 DEF PhaseOf, Exists
    <3> HIDE DEF s, row
    <3> QED BY <2>1, <3>1, <3>3, OneRow
  <2> QED BY <2>2, <2>3
<1>6. ASSUME NEW p \in Processes, SetPriority(p) \/ Govern(p) PROVE Phase' = Phase
  <2> DEFINE s == job[p].signal
  <2>1. s \in Signals /\ ticket[s] \in Rows /\ ticket \in [Signals -> Rows]
    BY JobType DEF Inv, RowsOK
  <2>2. CASE ticket' = ticket
    BY <1>1, <2>2
  <2>3. CASE ticket' # ticket
    <3>1. PICK row : /\ Write(s, row)
                     /\ \E o, q, d : row = [ticket[s] EXCEPT !.owner = o, !.priority = q,
                                                             !.due = d]
      <4>1. CASE Govern(p)
        BY <4>1 DEF Govern, Row
      <4>2. CASE SetPriority(p)
        <5>1. PICK row : /\ Write(s, row)
                         /\ \E q, d : row = [ticket[s] EXCEPT !.priority = q, !.due = d]
          BY <2>3, <4>2 DEF SetPriority, Row
        <5>2. PICK q, d : row = [ticket[s] EXCEPT !.priority = q, !.due = d]
          BY <5>1
        <5>3. row = [ticket[s] EXCEPT !.owner = ticket[s].owner, !.priority = q, !.due = d]
          BY <2>1, <5>2 DEF Rows
        <5> QED BY <5>1, <5>3
      <4> QED BY <1>6, <4>1, <4>2
    <3>2. /\ row.id = ticket[s].id /\ row.status = ticket[s].status
          /\ row.closed = ticket[s].closed /\ row.resolved = ticket[s].resolved
      BY <2>1, <3>1 DEF Rows
    <3>3. ticket' = [ticket EXCEPT ![s] = row]
      BY <3>1 DEF Write
    <3> QED BY <2>1, <3>2, <3>3, PhaseKept
  <2> QED BY <2>2, <2>3
<1>7. ASSUME NEW p \in Processes, Recalculate(p) PROVE Phase' = Phase
  <2>1. ASSUME NEW s \in Signals
        PROVE  ticket[s] \in Rows /\ \/ ticket'[s] = ticket[s]
                                     \/ \E d : ticket'[s] = [ticket[s] EXCEPT !.due = d]
    BY <1>7 DEF Recalculate, Inv, RowsOK
  <2> QED BY <2>1, PhaseKept DEF Rows
<1>8. ASSUME Prune
      PROVE  \E S \in SUBSET Signals :
                Phase' = [s \in Signals |-> IF s \in S THEN "none" ELSE Phase[s]]
  <2>1. PICK kept : ticket' = [s \in Signals |-> IF s \in kept THEN ticket[s] ELSE NoTicket]
    BY <1>8 DEF Prune
  <2>2. PhaseOf(NoTicket) = "none"
    BY DEF PhaseOf, NoTicket, Ticket
  <2>3. Phase' = [s \in Signals |-> IF s \in Signals \ kept THEN "none" ELSE Phase[s]]
    BY <2>1, <2>2 DEF Phase
  <2> QED BY <2>3
<1>9. Ingest => ticket' = ticket
  BY DEF Ingest
<1>10. ASSUME NEW p \in Processes, Transition(p)
       PROVE  \/ Phase' = Phase
              \/ \E s \in Signals :
                   \/ Phase[s] = "open" /\ \E d \in {"resolved", "dismissed"} :
                                              Phase' = [Phase EXCEPT ![s] = d]
                   \/ Phase[s] = "resolved" /\ Phase' = [Phase EXCEPT ![s] = "closed"]
                   \/ Phase[s] \in {"resolved", "dismissed", "closed"}
                        /\ Phase' = [Phase EXCEPT ![s] = "open"]
  BY <1>10, TransitionPhase
<1> QED
  BY <1>1, <1>2, <1>3, <1>4, <1>5, <1>6, <1>7, <1>8, <1>9, <1>10 DEF Next, Commit, Quiet

\* The store implements the lifecycle: whatever pages, policy and retention interleave, a
\* ticket is opened once, closed only after a resolution and reopened only to be open.
THEOREM LifecycleRefinement == Spec => ImplementsLifecycle
<1>1. Init => Lifecycle!Init
  <2> SUFFICES ASSUME Init PROVE Lifecycle!Init
    OBVIOUS
  <2>1. \A s \in Signals : PhaseOf(ticket[s]) = "none"
    BY DEF Init, PhaseOf, NoTicket, Ticket
  <2> QED BY <2>1 DEF Lifecycle!Init, Phase
<1>2. Inv /\ Inv' /\ [Next]_vars => [Lifecycle!Next]_Phase
  <2> SUFFICES ASSUME Inv, Inv', Next, Phase' # Phase PROVE Lifecycle!Next
    BY DEF vars, store, Phase
  <2>1. ASSUME NEW S \in SUBSET Signals,
               Phase' = [s \in Signals |-> IF s \in S THEN "none" ELSE Phase[s]]
        PROVE  Lifecycle!Next
    BY <2>1 DEF Lifecycle!Next, Lifecycle!Remove
  <2>2. ASSUME NEW s \in Signals, Phase[s] = "none", Phase' = [Phase EXCEPT ![s] = "open"]
        PROVE  Lifecycle!Next
    BY <2>2 DEF Lifecycle!Next, Lifecycle!Open, Lifecycle!Move
  <2>3. ASSUME NEW s \in Signals, Phase[s] = "open",
               \E d \in {"resolved", "dismissed"} : Phase' = [Phase EXCEPT ![s] = d]
        PROVE  Lifecycle!Next
    BY <2>3 DEF Lifecycle!Next, Lifecycle!Decide, Lifecycle!Move, Lifecycle!Decisions
  <2>4. ASSUME NEW s \in Signals, Phase[s] = "resolved",
               Phase' = [Phase EXCEPT ![s] = "closed"]
        PROVE  Lifecycle!Next
    BY <2>4 DEF Lifecycle!Next, Lifecycle!Close, Lifecycle!Move
  <2>5. ASSUME NEW s \in Signals, Phase[s] \in {"resolved", "dismissed", "closed"},
               Phase' = [Phase EXCEPT ![s] = "open"]
        PROVE  Lifecycle!Next
    BY <2>5 DEF Lifecycle!Next, Lifecycle!Reopen, Lifecycle!Move, Lifecycle!Decisions
  <2> QED BY <2>1, <2>2, <2>3, <2>4, <2>5, PhaseStep
<1> QED BY <1>1, <1>2, InvInit, InvStep, PTL DEF Spec, ImplementsLifecycle, Lifecycle!Spec
-----------------------------------------------------------------------------
(***************************************************************************)
(* The checklists.  The tasks of a ticket are finitely many, their positions *)
(* are 1, 2, ... without repetition, and of two that share a title the later *)
(* one was added by hand.  What an operation adds takes the positions after  *)
(* the last one.                                                             *)
(***************************************************************************)

Ordered(T) ==
    /\ T \subseteq Tasks /\ IsFiniteSet(T)
    /\ {k.position : k \in T} = 1 .. Cardinality(T)
    /\ \A k, l \in T : k.position = l.position => k = l
    /\ \A k, l \in T : k.title = l.title /\ k.position < l.position => l.byHand

\* What an analyst adds has one of the titles analysts type.
AddsManual == \A p \in Processes : job[p].op = "add_task" => job[p].title \in Manual

TasksInv == Inv /\ AddsManual /\ task \in [Signals -> SUBSET Tasks]
            /\ \A s \in Signals : Ordered(task[s])

LEMMA Counted == ASSUME NEW T, IsFiniteSet(T) PROVE Cardinality(T) \in Nat
  BY FS_CardinalityType

\* MAX(position) of an ordered checklist is its length.
LEMMA LastPosition ==
    ASSUME NEW s \in Signals, Ordered(task[s])
    PROVE  Last(s) = Cardinality(task[s])
<1> DEFINE n == Cardinality(task[s])
           P == {k.position : k \in task[s]}
<1>1. n \in Nat /\ P = 1 .. n
  BY Counted DEF Ordered
<1>2. \A k \in task[s] : k.position <= n
  BY <1>1
<1>3. n \in {0} \cup P
  BY <1>1
<1>4. ASSUME NEW m \in {0} \cup P, \A k \in task[s] : k.position <= m PROVE m = n
  <2>1. m \in 0 .. n
    BY <1>1
  <2>2. CASE n = 0
    BY <2>1, <2>2
  <2>3. CASE n > 0
    <3>1. n \in P
      BY <1>1, <2>3
    <3>2. PICK k \in task[s] : k.position = n
      BY <3>1
    <3> QED BY <1>1, <1>4, <2>1, <3>2
  <2> QED BY <1>1, <2>2, <2>3
<1>5. \E m \in {0} \cup P : \A k \in task[s] : k.position <= m
  BY <1>2, <1>3
<1>6. Last(s) \in {0} \cup P /\ \A k \in task[s] : k.position <= Last(s)
  <2>1. Last(s) = CHOOSE m \in {0} \cup P : \A k \in task[s] : k.position <= m
    BY DEF Last
  <2> HIDE DEF P
  <2> QED BY <1>5, <2>1, Zenon
<1> HIDE DEF P
<1> QED BY <1>4, <1>6

\* A finite checklist of n tasks with the positions 1 .. n, extended by as many as there are
\* new titles, at the positions after it.
LEMMA Extended ==
    ASSUME NEW T, Ordered(T), NEW C \in SUBSET Tasks, IsFiniteSet(C),
           {k.position : k \in C} = Cardinality(T) + 1 .. Cardinality(T) + Cardinality(C),
           \A k, l \in C : k.position = l.position => k = l,
           \A k \in C : k.byHand \/ \A l \in T \cup C : k.title = l.title => k = l
    PROVE  Ordered(T \cup C)
<1> DEFINE n == Cardinality(T)
           m == Cardinality(C)
<1>1. n \in Nat /\ m \in Nat
  BY Counted DEF Ordered
<1>2. /\ \A k \in T : k.position \in 1 .. n
      /\ \A k \in C : k.position \in n + 1 .. n + m
  BY DEF Ordered
<1>3. T \cap C = {}
  BY <1>1, <1>2
<1>4. IsFiniteSet(T \cup C) /\ Cardinality(T \cup C) = n + m
  <2>1. IsFiniteSet(T) /\ Cardinality(T \cap C) = 0
    BY <1>3, FS_EmptySet DEF Ordered
  <2>2. /\ IsFiniteSet(T \cup C)
        /\ Cardinality(T \cup C) = Cardinality(T) + Cardinality(C) - Cardinality(T \cap C)
    BY <2>1, FS_Union
  <2> HIDE DEF n, m
  <2>3. n + m - 0 = n + m
    BY <1>1
  <2> QED BY <2>1, <2>2, <2>3 DEF n, m
<1>5. {k.position : k \in T \cup C} = 1 .. n + m
  <2>1. {k.position : k \in T \cup C} = {k.position : k \in T} \cup {k.position : k \in C}
    OBVIOUS
  <2>2. (1 .. n) \cup (n + 1 .. n + m) = 1 .. n + m
    BY <1>1
  <2> QED BY <2>1, <2>2 DEF Ordered
<1>6. \A k, l \in T \cup C : k.position = l.position => k = l
  BY <1>1, <1>2 DEF Ordered
<1>7. \A k, l \in T \cup C : k.title = l.title /\ k.position < l.position => l.byHand
  <2> SUFFICES ASSUME NEW k \in T \cup C, NEW l \in T \cup C,
                      k.title = l.title, k.position < l.position
               PROVE  l.byHand
    OBVIOUS
  <2>1. CASE l \in C
    <3>1. k # l
      <4>1. l.position \in Nat
        BY <1>1, <1>2, <2>1
      <4> QED BY <4>1
    <3> QED BY <2>1, <3>1
  <2>2. CASE l \in T /\ k \in T
    BY <2>2 DEF Ordered
  <2>3. CASE l \in T /\ k \in C
    <3>1. l.position \in 1 .. n /\ k.position \in n + 1 .. n + m
      BY <1>2, <2>3
    <3> QED BY <1>1, <3>1
  <2> QED BY <2>1, <2>2, <2>3
<1> HIDE DEF n, m
<1> QED BY <1>4, <1>5, <1>6, <1>7 DEF Ordered

\* How many of M come up to i: the rank of i in M.
Rank(M, i) == Cardinality({j \in M : j <= i})

\* The ranks of a finite set of naturals are 1, 2, ... up to its cardinality, each once.
LEMMA Ranks ==
    ASSUME NEW M \in SUBSET Nat, IsFiniteSet(M)
    PROVE  /\ Cardinality(M) \in Nat
           /\ \A i \in M : Rank(M, i) \in 1 .. Cardinality(M)
           /\ \A i, j \in M : Rank(M, i) = Rank(M, j) => i = j
           /\ \A r \in 1 .. Cardinality(M) : \E i \in M : Rank(M, i) = r
<1> DEFINE n == Cardinality(M)
           upto(i) == {j \in M : j <= i}
           f == [i \in M |-> Rank(M, i)]
<1>1. n \in Nat
  BY Counted
<1>2. ASSUME NEW i \in M
      PROVE  IsFiniteSet(upto(i)) /\ Cardinality(upto(i)) \in 1 .. n
  <2>1. IsFiniteSet(upto(i)) /\ Cardinality(upto(i)) <= n
    BY FS_Subset
  <2>2. upto(i) # {}
    BY <1>2
  <2>3. Cardinality(upto(i)) # 0 /\ Cardinality(upto(i)) \in Nat
    BY <2>1, <2>2, FS_EmptySet, Counted
  <2> HIDE DEF upto
  <2> QED BY <1>1, <2>1, <2>3
<1>3. \A i \in M : Rank(M, i) \in 1 .. n
  BY <1>2 DEF Rank
<1>4. ASSUME NEW i \in M, NEW j \in M, i < j PROVE Rank(M, i) # Rank(M, j)
  <2>1. upto(i) \in SUBSET upto(j)
    <3>1. ASSUME NEW k \in M, k <= i PROVE k <= j
      BY <1>4, <3>1
    <3> QED BY <3>1
  <2>2. j \in upto(j) /\ j \notin upto(i)
    BY <1>4
  <2> HIDE DEF upto
  <2>3. Cardinality(upto(i)) # Cardinality(upto(j))
    BY <1>2, <2>1, <2>2, FS_Subset
  <2> QED BY <2>3 DEF Rank, upto
<1>5. \A i, j \in M : Rank(M, i) = Rank(M, j) => i = j
  BY <1>4
<1>6. f \in Injection(M, 1 .. n)
  BY <1>3, <1>5, Fun_IsInj
<1>7. IsFiniteSet(1 .. n) /\ Cardinality(1 .. n) = n
  <2> HIDE DEF n
  <2>1. 1 \in Int /\ n \in Int
    BY <1>1
  <2>2. /\ IsFiniteSet(1 .. n)
        /\ Cardinality(1 .. n) = IF 1 > n THEN 0 ELSE n - 1 + 1
    BY <2>1, FS_Interval
  <2> QED BY <1>1, <2>2
<1>8. f \in Surjection(M, 1 .. n)
  <2> HIDE DEF f
  <2> QED BY <1>6, <1>7, FS_Injection
<1>9. \A r \in 1 .. n : \E i \in M : f[i] = r
  <2> HIDE DEF f, n
  <2> QED BY <1>8, Fun_SurjectionProperties
<1> QED BY <1>1, <1>3, <1>5, <1>9

\* A checklist goes on ordered when the playbook's titles it lacks are added: their positions
\* are the ranks among the missing ones, after the last position of the ticket.
LEMMA ChecklistOrdered ==
    ASSUME NEW s \in Signals, Ordered(task[s])
    PROVE  Ordered(task[s] \cup Checklist(s))
<1> DEFINE n == Cardinality(task[s])
           M == Missing(s)
           C == Checklist(s)
           item(i) == [title |-> Playbook[i], position |-> n + Rank(M, i),
                       status |-> "pending", byHand |-> FALSE]
<1>1. n \in Nat /\ Last(s) = n
  BY Counted, LastPosition DEF Ordered
<1>2. C = {item(i) : i \in M}
  BY <1>1 DEF Checklist, Rank
<1>3. M \in SUBSET Nat /\ IsFiniteSet(M)
  <2>1. DOMAIN Playbook = 1 .. Len(Playbook) /\ Len(Playbook) \in Nat
    BY TicketAssumption
  <2>2. IsFiniteSet(1 .. Len(Playbook))
    BY <2>1, FS_Interval
  <2>3. M \in SUBSET (1 .. Len(Playbook))
    BY <2>1 DEF Missing
  <2>4. 1 .. Len(Playbook) \subseteq Nat
    BY <2>1
  <2> HIDE DEF M
  <2>5. IsFiniteSet(M)
    BY <2>2, <2>3, FS_Subset
  <2> QED BY <2>3, <2>4, <2>5
<1>4. \A i \in M : Playbook[i] \in Titles
  BY DEF Missing, Titles
<1>5. \A i, j \in M : Playbook[i] = Playbook[j] => i = j
  BY TicketAssumption DEF Missing
<1>6. \A i \in M, l \in task[s] : l.title # Playbook[i]
  BY DEF Missing
<1> DEFINE m == Cardinality(M)
           r(i) == Rank(M, i)
<1>7. /\ m \in Nat
      /\ \A i \in M : r(i) \in 1 .. m
      /\ \A i, j \in M : r(i) = r(j) => i = j
      /\ \A k \in 1 .. m : \E i \in M : r(i) = k
  <2> HIDE DEF M
  <2> QED BY <1>3, Ranks
<1> HIDE DEF M, n, m, r
<1>8. C \in SUBSET Tasks
  <2>1. \A i \in M : n + r(i) \in Nat
    BY <1>1, <1>7
  <2>2. \A i \in M : item(i) \in Tasks
    BY <1>4, <2>1 DEF Tasks, r
  <2> HIDE DEF item, C
  <2> QED BY <1>2, <2>2
<1>9. IsFiniteSet(C) /\ Cardinality(C) = m
  <2> DEFINE g == [i \in M |-> item(i)]
  <2>1. g \in [M -> C] /\ \A k \in C : \E i \in M : g[i] = k
    BY <1>2
  <2>2. \A i, j \in M : g[i] = g[j] => i = j
    BY <1>5
  <2> HIDE DEF g, C
  <2>3. g \in Bijection(M, C)
    BY <2>1, <2>2, Fun_IsBij
  <2>4. ExistsBijection(M, C)
    BY <2>3 DEF ExistsBijection
  <2> QED BY <1>3, <2>4, FS_Bijection DEF m
<1>10. {k.position : k \in C} = n + 1 .. n + m
  <2>1. \A i \in M : item(i).position = n + r(i)
    BY DEF r
  <2>2. {k.position : k \in C} = {n + r(i) : i \in M}
    <3>1. {k.position : k \in C} = {item(i).position : i \in M}
      <4> HIDE DEF C, item
      <4> QED BY <1>2
    <3> HIDE DEF C, item
    <3> QED BY <2>1, <3>1
  <2>3. ASSUME NEW q \in n + 1 .. n + m PROVE \E i \in M : q = n + r(i)
    <3>1. q - n \in 1 .. m
      BY <1>1, <1>7
    <3>2. PICK i \in M : r(i) = q - n
      BY <1>7, <3>1
    <3> QED BY <1>1, <3>2
  <2>4. \A i \in M : n + r(i) \in n + 1 .. n + m
    BY <1>1, <1>7
  <2> QED BY <2>2, <2>3, <2>4
<1>11. \A k, l \in C : k.position = l.position => k = l
  <2>1. ASSUME NEW i \in M, NEW j \in M, n + r(i) = n + r(j) PROVE i = j
    <3>1. r(i) = r(j)
      BY <1>1, <1>7, <2>1
    <3> QED BY <1>7, <3>1
  <2>2. \A i \in M : item(i).position = n + r(i)
    BY DEF r
  <2> HIDE DEF item, C
  <2> QED BY <1>2, <2>1, <2>2
<1>12. \A k \in C, l \in task[s] \cup C : k.title = l.title => k = l
  <2>1. \A i \in M : item(i).title = Playbook[i]
    OBVIOUS
  <2> HIDE DEF item, C
  <2> QED BY <1>2, <1>5, <1>6, <2>1
<1> HIDE DEF C
<1>13. Ordered(task[s] \cup C)
  BY <1>8, <1>9, <1>10, <1>11, <1>12, Extended DEF n
<1> QED BY <1>13 DEF C

\* A task an analyst adds comes after the last one.
LEMMA OneMoreOrdered ==
    ASSUME NEW s \in Signals, Ordered(task[s]), NEW title \in Manual
    PROVE  Ordered(task[s] \cup {[title |-> title, position |-> Last(s) + 1,
                                  status |-> "pending", byHand |-> TRUE]})
<1> DEFINE n == Cardinality(task[s])
           k == [title |-> title, position |-> n + 1, status |-> "pending", byHand |-> TRUE]
<1>1. n \in Nat /\ Last(s) = n
  BY Counted, LastPosition DEF Ordered
<1>2. {k} \in SUBSET Tasks
  BY <1>1 DEF Tasks, Titles
<1>3. IsFiniteSet({k}) /\ Cardinality({k}) = 1
  BY FS_Singleton
<1>4. k.position = n + 1 /\ k.byHand
  OBVIOUS
<1> HIDE DEF k, n
<1>5. {l.position : l \in {k}} = n + 1 .. n + 1
  BY <1>1, <1>4
<1>6. Ordered(task[s] \cup {k})
  BY <1>2, <1>3, <1>4, <1>5, Extended DEF n
<1> QED BY <1>1, <1>6 DEF k

\* A task that only changes its status keeps its place.
LEMMA StatusOrdered ==
    ASSUME NEW T, Ordered(T), NEW k \in T, NEW status \in {"pending", "completed", "skipped"}
    PROVE  Ordered((T \ {k}) \cup {[k EXCEPT !.status = status]})
<1> DEFINE l == [k EXCEPT !.status = status]
           U == (T \ {k}) \cup {l}
<1>1. k \in Tasks /\ l \in Tasks /\ l.position = k.position /\ l.title = k.title
      /\ l.byHand = k.byHand
  BY DEF Ordered, Tasks
<1> HIDE DEF l
<1>2. l \notin T \ {k}
  BY <1>1 DEF Ordered
<1>3. IsFiniteSet(U) /\ Cardinality(U) = Cardinality(T)
  <2>1. IsFiniteSet(T \ {k}) /\ Cardinality(T \ {k}) = Cardinality(T) - 1
    BY FS_RemoveElement DEF Ordered
  <2>2. IsFiniteSet(U) /\ Cardinality(U) = Cardinality(T \ {k}) + 1
    BY <1>2, <2>1, FS_AddElement
  <2>3. Cardinality(T) \in Nat
    BY Counted DEF Ordered
  <2> QED BY <2>1, <2>2, <2>3
<1>4. U \subseteq Tasks /\ {j.position : j \in U} = {j.position : j \in T}
  BY <1>1 DEF Ordered
<1>5. \A i, j \in U : i.position = j.position => i = j
  BY <1>1 DEF Ordered
<1>6. \A i, j \in U : i.title = j.title /\ i.position < j.position => j.byHand
  BY <1>1 DEF Ordered
<1> QED BY <1>3, <1>4, <1>5, <1>6 DEF Ordered, l

LEMMA EmptyOrdered == Ordered({})
<1>1. IsFiniteSet({}) /\ Cardinality({}) = 0
  BY FS_EmptySet
<1>2. 1 .. 0 = {}
  OBVIOUS
<1> QED BY <1>1, <1>2 DEF Ordered

\* An operation that one process begins or ends, seen through what the process is in next.
LEMMA ManualKept ==
    ASSUME Inv, AddsManual, NEW p \in Processes, \E request : Do(p, request),
           job'[p].op = "add_task" => job'[p].title \in Manual
    PROVE  AddsManual'
  BY DEF Inv, RowsOK, AddsManual, Do

LEMMA AddsManualStep == ASSUME Inv, AddsManual, Next PROVE AddsManual'
<1>1. \A p \in Processes : \A request : Do(p, request) => job'[p] = request
  BY DEF Inv, RowsOK, Do
<1>2. ASSUME NEW p \in Processes, Do(p, Idle) PROVE AddsManual'
  <2>1. job'[p].op = "idle"
    BY <1>1, <1>2 DEF Idle, Request
  <2> QED BY <1>2, <2>1, ManualKept
<1>3. ASSUME job' = job PROVE AddsManual'
  BY <1>3 DEF AddsManual
<1>4. ASSUME NEW h \in Threads, Observe(h) \/ ReadSignal(h) PROVE AddsManual'
  <2>1. h \in Processes
    BY DEF Processes
  <2>2. \E request : Do(h, request)
    BY <1>4 DEF Observe, ReadSignal
  <2>3. job'[h].op # "add_task"
    <3>1. CASE Observe(h)
      BY <1>1, <2>1, <3>1 DEF Observe, Request
    <3>2. CASE ReadSignal(h)
      <4> DEFINE s == job[h].signal
      <4>1. \/ Do(h, Idle)
            \/ Do(h, [Request("create", s) EXCEPT !.priority = signal[s]])
        BY <3>2 DEF ReadSignal
      <4>2. [Request("create", s) EXCEPT !.priority = signal[s]].op = "create"
        BY DEF Request
      <4>3. Idle.op = "idle"
        BY DEF Idle, Request
      <4> HIDE DEF s
      <4> QED BY <1>1, <2>1, <4>1, <4>2, <4>3
    <3> QED BY <1>4, <3>1, <3>2
  <2> QED BY <2>1, <2>2, <2>3, ManualKept
<1>5. ASSUME NEW a \in Analysts, Begin(a) PROVE AddsManual'
  <2>1. a \in Processes
    BY DEF Processes
  <2>2. \E request : Do(a, request)
    BY <1>5 DEF Begin, BeginCreate, BeginGovernance, BeginTransition, BeginTask, BeginUpkeep,
                SaveCalendar, BeginRecalculation
  <2>3. CASE BeginCreate(a) \/ BeginGovernance(a) \/ BeginTransition(a) \/ BeginUpkeep(a)
    <3>1. job'[a].op # "add_task"
      BY <1>1, <2>1, <2>3 DEF BeginCreate, BeginGovernance, BeginTransition, BeginUpkeep, Request
    <3> QED BY <2>1, <2>2, <3>1, ManualKept
  <2>4. CASE BeginTask(a)
    <3>1. job'[a].op = "add_task" => job'[a].title \in Manual
      BY <1>1, <2>1, <2>4 DEF BeginTask, Request
    <3> QED BY <2>1, <2>2, <3>1, ManualKept
  <2>5. CASE SaveCalendar(a) \/ BeginRecalculation(a)
    <3>1. job'[a].op # "add_task"
      BY <1>1, <2>1, <2>5 DEF SaveCalendar, BeginRecalculation, Idle, Request
    <3> QED BY <2>1, <2>2, <3>1, ManualKept
  <2> QED BY <1>5, <2>3, <2>4, <2>5 DEF Begin
<1>6. ASSUME NEW p \in Processes, NEW row, Escalate(p, row) PROVE AddsManual'
  <2>1. \E request : Do(p, request)
    BY <1>6 DEF Escalate
  <2>2. job'[p].op # "add_task"
    <3> DEFINE request == [Request("priority", job[p].signal) EXCEPT !.id = row.id,
                                                       !.priority = job[p].priority]
    <3>1. Do(p, request) \/ Do(p, Idle)
      BY <1>6 DEF Escalate
    <3>2. request.op = "priority" /\ Idle.op = "idle"
      BY DEF Idle, Request
    <3> HIDE DEF request
    <3> QED BY <1>1, <3>1, <3>2
  <2> QED BY <2>1, <2>2, ManualKept
<1>7. ASSUME NEW p \in Processes, Commit(p) \/ Fail(p) PROVE AddsManual'
  <2>1. CASE CreateTicket(p)
    BY <1>6, <2>1 DEF CreateTicket
  <2>2. CASE ~CreateTicket(p)
    <3>1. Do(p, Idle)
      BY <1>7, <2>2 DEF Commit, Fail, Committing, OpenTicket, Transition, SetPriority, Govern,
                    Recalculate, AddTask, EnsureTasks, AddComment, FinishTask, Refuse
    <3> QED BY <1>2, <3>1
  <2> QED BY <2>1, <2>2
<1>8. Ingest \/ Prune => job' = job
  BY DEF Ingest, Prune
<1> QED BY <1>3, <1>4, <1>5, <1>7, <1>8 DEF Next

\* What a step does to the tasks: it leaves them alone, empties some checklists, or changes
\* those of one signal, which stay ordered.
LEMMA TaskStep ==
    ASSUME TasksInv, Next
    PROVE  \/ task' = task
           \/ \E S \in SUBSET Signals : task' = [s \in Signals |-> IF s \in S THEN task[s] ELSE {}]
           \/ \E s \in Signals : \E T : Ordered(T) /\ task' = [task EXCEPT ![s] = T]
<1>1. ASSUME NEW h \in Threads, Observe(h) \/ ReadSignal(h) PROVE task' = task
  BY <1>1 DEF Observe, ReadSignal, store
<1>2. ASSUME NEW a \in Analysts, Begin(a) PROVE task' = task
  BY <1>2 DEF Begin, BeginCreate, BeginGovernance, BeginTransition, BeginTask, BeginUpkeep,
              SaveCalendar, BeginRecalculation, store
<1>3. ASSUME NEW p \in Processes, Fail(p) PROVE task' = task
  BY <1>3 DEF Fail, store
<1>4. ASSUME NEW p \in Processes, Commit(p)
      PROVE  task' = task \/ \E s \in Signals : \E T : Ordered(T) /\ task' = [task EXCEPT ![s] = T]
  <2> DEFINE s == job[p].signal
  <2>1. s \in Signals /\ Ordered(task[s])
    BY JobType DEF TasksInv, Inv
  <2>2. CASE CreateTicket(p) \/ EnsureTasks(p)
    <3>1. task' = [task EXCEPT ![s] = task[s] \cup Checklist(s)]
      BY <2>2 DEF CreateTicket, EnsureTasks
    <3> QED BY <2>1, <3>1, ChecklistOrdered
  <2>3. CASE AddTask(p)
    <3> DEFINE k == [title |-> job[p].title, position |-> Last(s) + 1, status |-> "pending",
                     byHand |-> TRUE]
    <3>1. job[p].title \in Manual
      BY <2>3 DEF AddTask, Committing, TasksInv, AddsManual
    <3>2. task' = [task EXCEPT ![s] = task[s] \cup {k}]
      BY <2>3 DEF AddTask
    <3> QED BY <2>1, <3>1, <3>2, OneMoreOrdered
  <2>4. CASE FinishTask(p)
    <3>1. PICK k \in task[s], status \in {"pending", "completed", "skipped"} :
            task' = [task EXCEPT ![s] = (task[s] \ {k}) \cup {[k EXCEPT !.status = status]}]
      BY <2>4 DEF FinishTask
    <3> QED BY <2>1, <3>1, StatusOrdered
  <2>5. CASE ~(CreateTicket(p) \/ EnsureTasks(p) \/ AddTask(p) \/ FinishTask(p))
    BY <1>4, <2>5 DEF Commit, OpenTicket, Transition, SetPriority, Govern, Recalculate,
                      AddComment, Refuse, store
  <2> QED BY <2>2, <2>3, <2>4, <2>5
<1>5. Ingest => task' = task
  BY DEF Ingest
<1>6. ASSUME Prune
      PROVE  \E S \in SUBSET Signals : task' = [s \in Signals |-> IF s \in S THEN task[s] ELSE {}]
  <2>1. PICK kept : task' = [s \in Signals |-> IF s \in kept THEN task[s] ELSE {}]
    BY <1>6 DEF Prune
  <2>2. task' = [s \in Signals |-> IF s \in kept \cap Signals THEN task[s] ELSE {}]
    BY <2>1
  <2> QED BY <2>2
<1> QED BY <1>1, <1>2, <1>3, <1>4, <1>5, <1>6 DEF Next

LEMMA TasksInvariant == Spec => []TasksInv
<1>1. Init => TasksInv
  <2> SUFFICES ASSUME Init PROVE TasksInv
    OBVIOUS
  <2>1. AddsManual
    BY DEF Init, AddsManual, Idle, Request
  <2>2. \A s \in Signals : task[s] = {}
    BY DEF Init
  <2>3. task \in [Signals -> SUBSET Tasks]
    BY DEF Init
  <2> QED BY <2>1, <2>2, <2>3, InvInit, EmptyOrdered DEF TasksInv
<1>2. TasksInv /\ [Next]_vars => TasksInv'
  <2> SUFFICES ASSUME TasksInv, [Next]_vars PROVE TasksInv'
    OBVIOUS
  <2>1. CASE UNCHANGED vars
    <3>1. Inv'
      BY <2>1, InvStep DEF TasksInv
    <3> QED BY <2>1, <3>1 DEF vars, store, TasksInv, AddsManual, Ordered, Tasks
  <2>2. CASE Next
    <3>1. Inv' /\ AddsManual'
      BY <2>2, InvStep, AddsManualStep DEF TasksInv
    <3>2. task' \in [Signals -> SUBSET Tasks] /\ \A s \in Signals : Ordered(task'[s])
      <4>1. \A s \in Signals : Ordered(task[s])
        BY DEF TasksInv
      <4>2. task \in [Signals -> SUBSET Tasks]
        BY DEF TasksInv
      <4>3. \A T : Ordered(T) => T \subseteq Tasks
        BY DEF Ordered
      <4>4. CASE task' = task
        BY <4>1, <4>2, <4>4
      <4>5. CASE \E S \in SUBSET Signals :
                   task' = [s \in Signals |-> IF s \in S THEN task[s] ELSE {}]
        BY <4>1, <4>2, <4>5, EmptyOrdered
      <4>6. CASE \E s \in Signals : \E T : Ordered(T) /\ task' = [task EXCEPT ![s] = T]
        BY <4>1, <4>2, <4>3, <4>6
      <4> QED BY <2>2, <4>4, <4>5, <4>6, TaskStep
    <3> QED BY <3>1, <3>2 DEF TasksInv, Ordered, Tasks
  <2> QED BY <2>1, <2>2
<1> QED BY <1>1, <1>2, PTL DEF Spec

\* However creations, escalations and additions interleave, a ticket has one checklist: its
\* positions are 1, 2, ... without repetition, and a title that occurs again was added by hand,
\* whatever titles the analysts type, the playbook's included.
THEOREM ChecklistTheorem == Spec => []ChecklistOnce
<1>1. TasksInv => ChecklistOnce
  BY DEF TasksInv, Inv, ChecklistOnce, TypeOK, Ordered
<1> QED BY <1>1, TasksInvariant, PTL
-----------------------------------------------------------------------------
(* The retention script.                                                    *)

\* The tickets of the store are finitely many, whatever Signals is.
FewTickets == Inv /\ IsFiniteSet(Tickets)

LEMMA FewTicketsInvariant == Spec => []FewTickets
<1>1. Init => FewTickets
  <2> SUFFICES ASSUME Init PROVE FewTickets
    OBVIOUS
  <2>1. Tickets = {}
    BY DEF Init, Tickets, Exists, NoTicket, Ticket
  <2> QED BY <2>1, InvInit, FS_EmptySet DEF FewTickets
<1>2. FewTickets /\ [Next]_vars => FewTickets'
  <2> SUFFICES ASSUME FewTickets, [Next]_vars PROVE FewTickets'
    OBVIOUS
  <2>1. Inv /\ Inv'
    BY InvStep DEF FewTickets
  <2>2. Tickets = {s \in Signals : Phase[s] # "none"}
    BY DEF Tickets, Exists, Phase, PhaseOf
  <2>3. Tickets' = {s \in Signals : Phase'[s] # "none"}
    BY DEF Tickets, Exists, Phase, PhaseOf
  <2>4. DOMAIN Phase = Signals
    BY DEF Phase
  <2>5. \/ Tickets' \subseteq Tickets
        \/ \E s \in Signals : Tickets' \subseteq Tickets \cup {s}
    <3>1. CASE UNCHANGED vars
      BY <3>1 DEF vars, store, Tickets, Exists
    <3>2. CASE Next
      BY <2>1, <2>2, <2>3, <2>4, <3>2, PhaseStep
    <3> QED BY <3>1, <3>2
  <2>6. \A s : IsFiniteSet(Tickets \cup {s})
    BY FS_AddElement DEF FewTickets
  <2>7. IsFiniteSet(Tickets')
    BY <2>5, <2>6, FS_Subset DEF FewTickets
  <2> QED BY <2>1, <2>7 DEF FewTickets
<1> QED BY <1>1, <1>2, PTL DEF Spec

\* No operation but the retention script removes a ticket.
LEMMA OnlyPruneRemoves ==
    ASSUME Inv, Next, ~Prune, NEW s \in Signals, ticket[s].id # 0
    PROVE  ticket'[s].id # 0
<1>1. ASSUME NEW h \in Threads, Observe(h) \/ ReadSignal(h) PROVE ticket' = ticket
  BY <1>1 DEF Observe, ReadSignal, store
<1>2. ASSUME NEW a \in Analysts, Begin(a) PROVE ticket' = ticket
  BY <1>2 DEF Begin, BeginCreate, BeginGovernance, BeginTransition, BeginTask, BeginUpkeep,
              SaveCalendar, BeginRecalculation, store
<1>3. ASSUME NEW p \in Processes, Quiet(p) PROVE ticket' = ticket
  BY <1>3 DEF Quiet, AddTask, EnsureTasks, AddComment, FinishTask, Refuse, Fail, store
<1>4. Ingest => ticket' = ticket
  BY DEF Ingest
<1>5. ASSUME NEW p \in Processes,
             CreateTicket(p) \/ OpenTicket(p) \/ Transition(p) \/ SetPriority(p) \/ Govern(p)
      PROVE  ticket'[s].id # 0
  <2> DEFINE t == job[p].signal
  <2>1. ticket \in [Signals -> Rows] /\ t \in Signals /\ issued \in Nat
    BY JobType DEF Inv, RowsOK
  <2>2. ticket' = ticket \/ \E row : Write(t, row) /\ row.id # 0
    <3>1. CASE CreateTicket(p) \/ OpenTicket(p)
      <4> DEFINE row == Ticket(issued + 1, job[p].priority, job[p].owner,
                               Due(job[p].priority, job[p].calendar))
      <4>1. ticket' = ticket \/ Write(t, row)
        BY <3>1 DEF CreateTicket, OpenTicket
      <4>2. row.id # 0
        BY <2>1 DEF Ticket
      <4> HIDE DEF row
      <4> QED BY <4>1, <4>2
    <3>2. CASE Transition(p) \/ SetPriority(p) \/ Govern(p)
      <4>1. ticket[t].id # 0 \/ ticket' = ticket
        BY <3>2 DEF Transition, SetPriority, Govern, Found, Row
      <4>2. ASSUME NEW o, NEW q, NEW d
            PROVE  [ticket[t] EXCEPT !.owner = o, !.priority = q, !.due = d].id = ticket[t].id
        BY <2>1 DEF Rows
      <4>3. ASSUME NEW q, NEW d
            PROVE  [ticket[t] EXCEPT !.priority = q, !.due = d].id = ticket[t].id
        BY <2>1 DEF Rows
      <4>4. ASSUME NEW to, NEW r, NEW c
            PROVE  [ticket[t] EXCEPT !.status = to, !.resolved = r, !.closed = c].id = ticket[t].id
        BY <2>1 DEF Rows
      <4>5. CASE Transition(p)
        <5>1. PICK to, r, c :
                Write(t, [ticket[t] EXCEPT !.status = to, !.resolved = r, !.closed = c])
          BY <4>5 DEF Transition, Row
        <5> DEFINE row == [ticket[t] EXCEPT !.status = to, !.resolved = r, !.closed = c]
        <5>2. row.id = ticket[t].id /\ Write(t, row)
          BY <4>4, <5>1
        <5> HIDE DEF row
        <5> QED BY <4>1, <5>2
      <4>6. CASE SetPriority(p)
        <5>1. ticket' = ticket \/ \E q, d :
                Write(t, [ticket[t] EXCEPT !.priority = q, !.due = d])
          BY <4>6 DEF SetPriority, Row
        <5> QED BY <4>1, <4>3, <5>1
      <4>7. CASE Govern(p)
        <5>1. ticket' = ticket \/ \E o, q, d :
                Write(t, [ticket[t] EXCEPT !.owner = o, !.priority = q, !.due = d])
          BY <4>7 DEF Govern, Row
        <5>2. ASSUME NEW o, NEW q, NEW d,
                     Write(t, [ticket[t] EXCEPT !.owner = o, !.priority = q, !.due = d]),
                     ticket[t].id # 0
              PROVE  \E row : Write(t, row) /\ row.id # 0
          <6> DEFINE row == [ticket[t] EXCEPT !.owner = o, !.priority = q, !.due = d]
          <6>1. row.id = ticket[t].id /\ Write(t, row)
            BY <4>2, <5>2
          <6> HIDE DEF row
          <6> QED BY <5>2, <6>1
        <5> QED BY <4>1, <5>1, <5>2
      <4> QED BY <3>2, <4>5, <4>6, <4>7
    <3> QED BY <1>5, <3>1, <3>2
  <2> QED BY <2>1, <2>2 DEF Write
<1>6. ASSUME NEW p \in Processes, Recalculate(p) PROVE ticket'[s].id # 0
  <2>1. ticket[s] \in Rows
    BY DEF Inv, RowsOK
  <2>2. ticket'[s] = ticket[s] \/ \E d : ticket'[s] = [ticket[s] EXCEPT !.due = d]
    BY <1>6 DEF Recalculate
  <2> QED BY <2>1, <2>2 DEF Rows
<1> QED BY <1>1, <1>2, <1>3, <1>4, <1>5, <1>6 DEF Next, Commit, Quiet

\* What the script keeps of a window: tickets, one of a security test among them if there is
\* any, and no more than the window holds, or than that one.
LEMMA KeptProperties ==
    ASSUME FewTickets, NEW W \in Windows, NEW kept \in Kept(W)
    PROVE  /\ kept \subseteq Tickets
           /\ Tests # {} => Tests \cap kept # {}
           /\ \/ Tickets \subseteq kept
              \/ Cardinality(kept) <= Retain \/ Cardinality(kept) = 1
<1> DEFINE size == IF Cardinality(Tickets) < Retain THEN Cardinality(Tickets) ELSE Retain
<1>1. W \subseteq Tickets /\ Cardinality(W) = size
  BY DEF Windows
<1>2. IsFiniteSet(W) /\ Cardinality(Tickets) \in Nat /\ Retain \in Nat
  BY <1>1, FS_Subset, Counted, TicketAssumption DEF FewTickets
<1>3. Cardinality(W) \in Nat /\ Cardinality(W) <= Retain
  BY <1>1, <1>2
<1>4. CASE Tests = {} \/ Tests \cap W # {}
  BY <1>1, <1>3, <1>4 DEF Kept
<1>5. CASE ~(Tests = {} \/ Tests \cap W # {})
  <2>1. PICK last \in IF W = {} THEN Tests ELSE W, t \in Tests :
          kept = (W \ {last}) \cup {t}
    BY <1>5 DEF Kept
  <2>2. t \in Tickets /\ t \notin W
    BY <1>5 DEF Tests
  <2>3. kept \subseteq Tickets /\ Tests \cap kept # {}
    BY <1>1, <2>1, <2>2
  <2>4. Cardinality(kept) = Cardinality(W \ {last}) + 1
    <3>1. IsFiniteSet(W \ {last})
      BY <1>2, FS_RemoveElement
    <3> QED BY <2>1, <2>2, <3>1, FS_AddElement
  <2>5. CASE W = {}
    <3>1. W \ {last} = {} /\ Cardinality({}) = 0
      BY <2>5, FS_EmptySet
    <3> QED BY <2>3, <2>4, <3>1
  <2>6. CASE W # {}
    <3>1. Cardinality(W \ {last}) = Cardinality(W) - 1
      BY <1>2, <2>1, <2>6, FS_RemoveElement
    <3>2. Cardinality(kept) <= Retain
      BY <1>2, <1>3, <2>4, <3>1
    <3> QED BY <2>3, <3>2
  <2> QED BY <2>5, <2>6
<1> QED BY <1>4, <1>5

\* The retention script keeps a ticket of a security test if there is one, and no more than
\* it was asked to, or that one; nothing else removes a ticket.
THEOREM RetentionTheorem == Spec => PruneKeepsTests
<1>1. ASSUME FewTickets, Next PROVE KeepsTests
  <2> DEFINE left == {s \in Signals : ticket'[s].id # 0}
  <2>1. CASE ~Prune
    <3>1. Tickets \subseteq left
      BY <1>1, <2>1, OnlyPruneRemoves DEF FewTickets, Tickets, Exists
    <3> QED BY <3>1 DEF KeepsTests
  <2>2. CASE Prune
    <3>0. PICK W \in Windows : \E kept \in Kept(W) :
            ticket' = [s \in Signals |-> IF s \in kept THEN ticket[s] ELSE NoTicket]
      BY <2>2 DEF Prune
    <3>1. PICK kept \in Kept(W) :
            ticket' = [s \in Signals |-> IF s \in kept THEN ticket[s] ELSE NoTicket]
      BY <3>0
    <3>2. /\ kept \subseteq Tickets
          /\ Tests # {} => Tests \cap kept # {}
          /\ \/ Tickets \subseteq kept
             \/ Cardinality(kept) <= Retain \/ Cardinality(kept) = 1
      BY <1>1, KeptProperties
    <3>3. NoTicket.id = 0 /\ kept \subseteq Signals
      BY <3>2 DEF NoTicket, Ticket, Tickets
    <3>4. left = kept
      BY <3>1, <3>2, <3>3 DEF Tickets, Exists
    <3> QED BY <3>2, <3>4 DEF KeepsTests
  <2> QED BY <2>1, <2>2
<1>2. FewTickets /\ [Next]_vars => [KeepsTests]_vars
  BY <1>1
<1> QED BY <1>2, FewTicketsInvariant, PTL DEF Spec, PruneKeepsTests
==============================================================================
