---------------------------- MODULE TicketStore ------------------------------
(***************************************************************************)
(* The ticket store (src/dtlab/services/ticket_store.py): tickets, tasks    *)
(* and the audit trail in one SQLite file, written by the analysts' pages   *)
(* (src/dtlab/ui/views/operations.py, administration.py), by the threads of *)
(* the host-OT ingress, which apply the automatic ticket policy             *)
(* (src/dtlab/services/ticket_policy.py), and by the retention script       *)
(* (scripts/prune_ticket_store.py).                                         *)
(*                                                                         *)
(* Every operation takes its arguments, the working calendar included,      *)
(* before BEGIN IMMEDIATE, and commits in one transaction: one step of the  *)
(* model begins an operation, another one is its transaction.  A deadline   *)
(* is what it was computed from, the priority and the calendar, its anchor  *)
(* being always created_at.                                                 *)
(***************************************************************************)
EXTENDS Naturals, FiniteSets, Sequences

CONSTANTS
    Signals,        \* signals the store may hold
    Endpoint,       \* those of the PLC endpoint; the others come with snapshots
    SecurityTests,  \* those that an announced security test caused
    Analysts,       \* sessions of the dashboard
    Threads,        \* threads of the host-OT ingress
    Priorities,     \* 1 for P1 to 4 for P4
    Playbook,       \* titles of the tasks every new ticket gets, in their order
    Manual,         \* titles analysts type for tasks they add, the playbook's own included
    Retain,         \* tickets the retention script keeps
    MaxTickets,     \* bound: tickets ever created
    MaxCalendars,   \* bound: working calendars ever saved
    MaxTasks,       \* bound: tasks of one ticket
    MaxFaults       \* bound: operations that fail

ASSUME TicketAssumption ==
    /\ Signals # {}
    /\ Endpoint \subseteq Signals /\ SecurityTests \subseteq Endpoint
    /\ Analysts \cap Threads = {}
    /\ {1, 2} \subseteq Priorities /\ Priorities \subseteq 1 .. 4
    /\ Playbook \in Seq(STRING) /\ Manual \subseteq STRING
    /\ \A i, j \in DOMAIN Playbook : i # j => Playbook[i] # Playbook[j]
    /\ Retain \in Nat /\ MaxTickets \in Nat /\ MaxTasks \in Nat /\ MaxFaults \in Nat
    /\ MaxCalendars \in Nat \ {0}

VARIABLES
    signal,     \* the priority the evidence of a signal calls for, or Absent
    ticket,     \* the row of the ticket of each signal
    task,       \* the rows of its tasks
    audit,      \* what its append-only trail says
    issued,     \* ticket identifiers given so far
    calendar,   \* the working calendar saved last
    job,        \* the operation each process is in
    faults

store == <<signal, ticket, task, audit, issued, calendar>>
vars  == <<store, job, faults>>

Processes == Analysts \cup Threads
Absent    == 0
Nobody    == "nobody"
Owners    == {Nobody} \cup Analysts
Titles    == {Playbook[i] : i \in DOMAIN Playbook} \cup Manual
Always    == 0      \* a store opened without use_operational_settings: 24 hours, 7 days

Stopped  == {"closed", "false_positive", "accepted_risk", "suppressed"}
Decided  == {"resolved", "false_positive", "accepted_risk", "suppressed"}
Dismissed == Decided \ {"resolved"}

\* Mutant: an investigation can be closed without a resolution.
TransitionsShort ==
    [new            |-> {"acknowledged", "investigating"} \cup Dismissed,
     acknowledged   |-> {"investigating"} \cup Dismissed,
     investigating  |-> {"remediating", "waiting_ot", "closed"} \cup Decided,
     remediating    |-> {"investigating", "waiting_ot", "resolved"},
     waiting_ot     |-> {"investigating", "remediating", "resolved"},
     resolved       |-> {"closed", "investigating"},
     closed         |-> {"investigating"},
     false_positive |-> {"investigating"},
     accepted_risk  |-> {"investigating"},
     suppressed     |-> {"investigating"}]

Transitions ==
    [new            |-> {"acknowledged", "investigating"} \cup Dismissed,
     acknowledged   |-> {"investigating"} \cup Dismissed,
     investigating  |-> {"remediating", "waiting_ot"} \cup Decided,
     remediating    |-> {"investigating", "waiting_ot", "resolved"},
     waiting_ot     |-> {"investigating", "remediating", "resolved"},
     resolved       |-> {"closed", "investigating"},
     closed         |-> {"investigating"},
     false_positive |-> {"investigating"},
     accepted_risk  |-> {"investigating"},
     suppressed     |-> {"investigating"}]

Statuses == DOMAIN Transitions

Due(p, c) == [priority |-> p, calendar |-> c]

Ticket(id, p, owner, due) ==
    [id |-> id, status |-> "new", priority |-> p, owner |-> owner, due |-> due,
     resolved |-> FALSE, closed |-> FALSE]

NoTicket == Ticket(0, 1, Nobody, Due(1, Always))
Exists(s) == ticket[s].id # 0

\* The audited columns of a row.
Audited(row) == [status |-> row.status, priority |-> row.priority, owner |-> row.owner,
                 due |-> row.due]

Request(op, s) ==
    [op |-> op, signal |-> s, id |-> 0, status |-> "new", priority |-> 1, owner |-> Nobody,
     calendar |-> Always, title |-> Nobody]

Idle == Request("idle", CHOOSE s \in Signals : TRUE)

Init ==
    /\ signal = [s \in Signals |-> Absent]
    /\ ticket = [s \in Signals |-> NoTicket]
    /\ task = [s \in Signals |-> {}]
    /\ audit = [s \in Signals |-> Audited(NoTicket)]
    /\ issued = 0
    /\ calendar = 1
    /\ job = [p \in Processes |-> Idle]
    /\ faults = 0

Do(p, request) == job' = [job EXCEPT ![p] = request]

\* The transaction p is in, which leaves p idle.
Committing(p, op) == job[p].op = op /\ Do(p, Idle)

\* The row of the ticket p is about, unless the retention script has removed it.
Row(p)   == ticket[job[p].signal]
Found(p) == Row(p).id # 0 /\ Row(p).id = job[p].id

\* UPDATE tickets, and the event that _audit writes about the columns it names.
Write(s, row)        == ticket' = [ticket EXCEPT ![s] = row]
Log(s, row, columns) == audit' = [audit EXCEPT ![s] =
                            [c \in DOMAIN @ |-> IF c \in columns THEN row[c] ELSE @[c]]]

Columns == {"status", "priority", "owner", "due"}

-----------------------------------------------------------------------------
(* Host-OT signals and the automatic policy.                                *)

\* ingest_signals commits what the endpoint reports, then the policy is applied.
Observe(h) ==
    /\ job[h].op = "idle"
    /\ \E s \in Endpoint, p \in {1, 2} :
         /\ signal' = [signal EXCEPT ![s] = p]
         /\ Do(h, Request("policy", s))
    /\ UNCHANGED <<ticket, task, audit, issued, calendar, faults>>

\* ingest_snapshot_signals: a signal of a snapshot waits for an analyst.
Ingest ==
    /\ \E s \in Signals \ Endpoint :
         signal[s] = Absent /\ signal' = [signal EXCEPT ![s] = 2]
    /\ UNCHANGED <<ticket, task, audit, issued, calendar, job, faults>>

\* apply_host_ot_ticket_policy: get_signal, and the priority its evidence calls for.
ReadSignal(h) ==
    LET s == job[h].signal IN
    /\ job[h].op = "policy"
    /\ Do(h, IF signal[s] = Absent THEN Idle
             ELSE [Request("create", s) EXCEPT !.priority = signal[s]])
    /\ UNCHANGED <<store, faults>>

-----------------------------------------------------------------------------
(* What an analyst's page starts: the calendar is read now, the row is not. *)

\* The page offers the form of a signal that has no ticket yet.  A ticket without its checklist
\* is what create_ticket_from_signal gives to whoever uses the store without the page.
BeginCreate(a) ==
    /\ job[a].op = "idle"
    /\ \E s \in Signals, op \in {"create", "open"}, p \in Priorities, o \in Owners :
         /\ signal[s] # Absent /\ ~Exists(s)
         /\ Do(a, [Request(op, s) EXCEPT !.priority = p, !.owner = o, !.calendar = calendar])
    /\ UNCHANGED <<store, faults>>

\* update_ticket_governance, and set_ticket_priority and assign_ticket, which change one
\* of the two columns in the same way.
BeginGovernance(a) ==
    /\ job[a].op = "idle"
    /\ \E s \in Signals, p \in Priorities, o \in Owners :
         /\ Exists(s)
         /\ Do(a, [Request("govern", s) EXCEPT !.id = ticket[s].id, !.priority = p,
                                               !.owner = o, !.calendar = calendar])
    /\ UNCHANGED <<store, faults>>

BeginTransition(a) ==
    /\ job[a].op = "idle"
    /\ \E s \in Signals, target \in Statuses :
         /\ Exists(s)
         /\ target \in Transitions[ticket[s].status]
         /\ Do(a, [Request("transition", s) EXCEPT !.id = ticket[s].id, !.status = target])
    /\ UNCHANGED <<store, faults>>

BeginTask(a) ==
    /\ job[a].op = "idle"
    /\ \E s \in Signals :
         /\ Exists(s)
         /\ \/ \E t \in Manual :
                 /\ Cardinality(task[s]) + Cardinality(Analysts) <= MaxTasks
                 /\ Do(a, [Request("add_task", s) EXCEPT !.id = ticket[s].id, !.title = t])
            \/ \E t \in {k.title : k \in task[s]} \cap Titles :
                 Do(a, [Request("finish_task", s) EXCEPT !.id = ticket[s].id, !.title = t])
    /\ UNCHANGED <<store, faults>>

\* The comment form, and the button that the page of a signal shows while its ticket has no task.
BeginUpkeep(a) ==
    /\ job[a].op = "idle"
    /\ \E s \in Signals, op \in {"comment", "ensure"} :
         /\ Exists(s)
         /\ op = "ensure" => task[s] = {}
         /\ Do(a, [Request(op, s) EXCEPT !.id = ticket[s].id])
    /\ UNCHANGED <<store, faults>>

\* The settings page: set_business_hours commits, then the open deadlines are recalculated.
SaveCalendar(a) ==
    /\ job[a].op = "idle"
    /\ calendar < MaxCalendars
    /\ calendar' = calendar + 1
    /\ Do(a, [Idle EXCEPT !.op = "saved"])
    /\ UNCHANGED <<signal, ticket, task, audit, issued, faults>>

BeginRecalculation(a) ==
    /\ job[a].op = "saved"
    /\ Do(a, [Idle EXCEPT !.op = "recalculate", !.calendar = calendar])
    /\ UNCHANGED <<store, faults>>

-----------------------------------------------------------------------------
(* The transactions.                                                        *)

\* MAX(position) of the tasks of a ticket, read in the transaction.
Last(s) == CHOOSE n \in {0} \cup {k.position : k \in task[s]} : \A k \in task[s] : k.position <= n

\* Mutant: the titles the ticket has already are not looked at.
MissingAll(s) == DOMAIN Playbook

Missing(s) == {i \in DOMAIN Playbook : \A k \in task[s] : k.title # Playbook[i]}

\* The playbook's tasks whose title the ticket lacks, after those it has.
Checklist(s) ==
    {[title    |-> Playbook[i],
      position |-> Last(s) + Cardinality({j \in Missing(s) : j <= i}),
      status   |-> "pending",
      byHand   |-> FALSE] : i \in Missing(s)}

\* Mutant: the ranks compared the other way round.
EscalateDown(p, row) ==
    IF p \in Threads /\ job[p].priority > row.priority
    THEN Do(p, [Request("priority", job[p].signal) EXCEPT !.id = row.id,
                                                          !.priority = job[p].priority])
    ELSE Do(p, Idle)

\* After create_ticket_with_tasks: the policy compares the row it returned.
Escalate(p, row) ==
    IF p \in Threads /\ job[p].priority < row.priority
    THEN Do(p, [Request("priority", job[p].signal) EXCEPT !.id = row.id,
                                                          !.priority = job[p].priority])
    ELSE Do(p, Idle)

\* create_ticket_with_tasks: one ticket per signal, and each playbook title once.
CreateTicket(p) ==
    LET s   == job[p].signal
        row == Ticket(issued + 1, job[p].priority, job[p].owner,
                      Due(job[p].priority, job[p].calendar)) IN
    /\ job[p].op = "create"
    /\ signal[s] # Absent
    /\ IF Exists(s)
       THEN Escalate(p, ticket[s]) /\ UNCHANGED <<ticket, audit, issued>>
       ELSE /\ issued' = issued + 1
            /\ Write(s, row) /\ Log(s, row, Columns)
            /\ Escalate(p, row)
    /\ task' = [task EXCEPT ![s] = @ \cup Checklist(s)]
    /\ UNCHANGED <<signal, calendar, faults>>

\* create_ticket_from_signal: the ticket alone.
OpenTicket(p) ==
    LET s   == job[p].signal
        row == Ticket(issued + 1, job[p].priority, job[p].owner,
                      Due(job[p].priority, job[p].calendar)) IN
    /\ Committing(p, "open")
    /\ signal[s] # Absent
    /\ IF Exists(s) THEN UNCHANGED <<ticket, audit, issued>>
       ELSE issued' = issued + 1 /\ Write(s, row) /\ Log(s, row, Columns)
    /\ UNCHANGED <<signal, task, calendar, faults>>

\* Mutant: reopening a closed ticket forgets its closed_at.
TransitionHalf(p) ==
    LET s == job[p].signal  to == job[p].status  from == Row(p).status
        reopened == to = "investigating" /\ from \in Decided \cup Stopped
        row == [Row(p) EXCEPT !.status = to,
                              !.resolved = (@ \/ to \in Decided) /\ ~reopened,
                              !.closed = @ \/ to = "closed"] IN
    /\ Committing(p, "transition")
    /\ Found(p) /\ to \in Transitions[from]
    /\ Write(s, row) /\ Log(s, row, {"status"})
    /\ UNCHANGED <<signal, task, issued, calendar, faults>>

\* transition_ticket
Transition(p) ==
    LET s == job[p].signal  to == job[p].status  from == Row(p).status
        reopened == to = "investigating" /\ from \in Decided \cup Stopped
        row == [Row(p) EXCEPT !.status = to,
                              !.resolved = (@ \/ to \in Decided) /\ ~reopened,
                              !.closed = (@ \/ to = "closed") /\ ~reopened] IN
    /\ Committing(p, "transition")
    /\ Found(p) /\ to \in Transitions[from]
    /\ Write(s, row) /\ Log(s, row, {"status"})
    /\ UNCHANGED <<signal, task, issued, calendar, faults>>

\* Mutant: the priority without its deadline.
SetPriorityAlone(p) ==
    LET s == job[p].signal
        row == [Row(p) EXCEPT !.priority = job[p].priority] IN
    /\ Committing(p, "priority")
    /\ Found(p)
    /\ Write(s, row) /\ Log(s, row, {"priority", "due"})
    /\ UNCHANGED <<signal, task, issued, calendar, faults>>

\* set_ticket_priority: _update_ticket_field of the priority, and the deadline with it.
SetPriority(p) ==
    LET s == job[p].signal
        row == [Row(p) EXCEPT !.priority = job[p].priority,
                              !.due = Due(job[p].priority, job[p].calendar)] IN
    /\ Committing(p, "priority")
    /\ Found(p)
    /\ IF Row(p).priority = job[p].priority
       THEN UNCHANGED <<ticket, audit>>
       ELSE Write(s, row) /\ Log(s, row, {"priority", "due"})
    /\ UNCHANGED <<signal, task, issued, calendar, faults>>

\* Mutant: the deadline moves without a word in the trail.
GovernSilent(p) ==
    LET s == job[p].signal
        row == [Row(p) EXCEPT !.owner = job[p].owner, !.priority = job[p].priority,
                              !.due = Due(job[p].priority, job[p].calendar)] IN
    /\ Committing(p, "govern")
    /\ Found(p)
    /\ Write(s, row) /\ Log(s, row, {"owner", "priority"})
    /\ UNCHANGED <<signal, task, issued, calendar, faults>>

\* update_ticket_governance: both columns, the deadline only when the priority changes.
Govern(p) ==
    LET s == job[p].signal
        due == IF Row(p).priority = job[p].priority THEN Row(p).due
               ELSE Due(job[p].priority, job[p].calendar)
        row == [Row(p) EXCEPT !.owner = job[p].owner, !.priority = job[p].priority,
                              !.due = due] IN
    /\ Committing(p, "govern")
    /\ Found(p)
    /\ Write(s, row) /\ Log(s, row, {"owner", "priority", "due"})
    /\ UNCHANGED <<signal, task, issued, calendar, faults>>

\* recalculate_open_sla_deadlines: every ticket whose clock has not stopped.
Recalculate(p) ==
    LET open == {s \in Signals : Exists(s) /\ ticket[s].status \notin Stopped}
        due(s) == Due(ticket[s].priority, job[p].calendar) IN
    /\ Committing(p, "recalculate")
    /\ ticket' = [s \in Signals |-> IF s \in open THEN [ticket[s] EXCEPT !.due = due(s)]
                                    ELSE ticket[s]]
    /\ audit' = [s \in Signals |-> IF s \in open THEN [audit[s] EXCEPT !.due = due(s)]
                                   ELSE audit[s]]
    /\ UNCHANGED <<signal, task, issued, calendar, faults>>

\* add_task: any title, one the ticket has already included.
AddTask(p) ==
    LET s == job[p].signal IN
    /\ Committing(p, "add_task")
    /\ Found(p)
    /\ task' = [task EXCEPT ![s] = @ \cup {[title |-> job[p].title, position |-> Last(s) + 1,
                                           status |-> "pending", byHand |-> TRUE]}]
    /\ UNCHANGED <<signal, ticket, audit, issued, calendar, faults>>

\* ensure_tasks: what the checklist lacks by now, which others may have begun meanwhile.
EnsureTasks(p) ==
    LET s == job[p].signal IN
    /\ Committing(p, "ensure")
    /\ Found(p)
    /\ task' = [task EXCEPT ![s] = @ \cup Checklist(s)]
    /\ UNCHANGED <<signal, ticket, audit, issued, calendar, faults>>

\* add_comment: no column of the row but updated_at.
AddComment(p) ==
    /\ Committing(p, "comment")
    /\ Found(p)
    /\ UNCHANGED <<store, faults>>

\* update_task_status
FinishTask(p) ==
    LET s == job[p].signal IN
    /\ Committing(p, "finish_task")
    /\ Found(p)
    /\ \E k \in task[s], status \in {"pending", "completed", "skipped"} :
         /\ k.title = job[p].title
         /\ task' = [task EXCEPT ![s] = (@ \ {k}) \cup {[k EXCEPT !.status = status]}]
    /\ UNCHANGED <<signal, ticket, audit, issued, calendar, faults>>

\* A signal or a ticket the retention script removed meanwhile, a transition that is no
\* longer legal: an error, and nothing changed.
Refuse(p) ==
    /\ \/ job[p].op \in {"create", "open"} /\ signal[job[p].signal] = Absent
       \/ job[p].op \notin {"idle", "policy", "create", "open", "saved", "recalculate"} /\ ~Found(p)
       \/ job[p].op = "transition" /\ job[p].status \notin Transitions[Row(p).status]
    /\ Do(p, Idle)
    /\ UNCHANGED <<store, faults>>

\* The database stays locked for ten seconds, or the process dies: rolled back.
Fail(p) ==
    /\ job[p].op # "idle"
    /\ faults < MaxFaults
    /\ faults' = faults + 1
    /\ Do(p, Idle)
    /\ UNCHANGED store

-----------------------------------------------------------------------------
(* scripts/prune_ticket_store.py --apply                                    *)

Tickets == {s \in Signals : Exists(s)}
Tests   == Tickets \cap SecurityTests

\* The newest tickets by updated_at, of which the model knows nothing else.
Windows ==
    LET size == IF Cardinality(Tickets) < Retain THEN Cardinality(Tickets) ELSE Retain IN
    {W \in SUBSET Tickets : Cardinality(W) = size}

\* Mutant: the window alone.
KeptWindow(W) == {W}

\* A ticket of a security test takes the place of the last one, if none is in the window.
Kept(W) ==
    IF Tests = {} \/ Tests \cap W # {} THEN {W}
    ELSE {(W \ {last}) \cup {t} : last \in IF W = {} THEN Tests ELSE W, t \in Tests}

Prune ==
    /\ issued + Cardinality(Signals) <= MaxTickets
    /\ \E W \in Windows : \E kept \in Kept(W) :
         /\ ticket' = [s \in Signals |-> IF s \in kept THEN ticket[s] ELSE NoTicket]
         /\ task' = [s \in Signals |-> IF s \in kept THEN task[s] ELSE {}]
         /\ audit' = [s \in Signals |-> IF s \in kept THEN audit[s] ELSE Audited(NoTicket)]
         /\ signal' = [s \in Signals |-> IF s \in kept THEN signal[s] ELSE Absent]
    /\ UNCHANGED <<issued, calendar, job, faults>>

-----------------------------------------------------------------------------
Begin(a) ==
    \/ BeginCreate(a) \/ BeginGovernance(a) \/ BeginTransition(a) \/ BeginTask(a)
    \/ BeginUpkeep(a) \/ SaveCalendar(a) \/ BeginRecalculation(a)

Commit(p) ==
    \/ CreateTicket(p) \/ OpenTicket(p) \/ Transition(p) \/ SetPriority(p) \/ Govern(p)
    \/ Recalculate(p) \/ AddTask(p) \/ EnsureTasks(p) \/ AddComment(p) \/ FinishTask(p)
    \/ Refuse(p)

Next ==
    \/ \E h \in Threads : Observe(h) \/ ReadSignal(h)
    \/ \E a \in Analysts : Begin(a)
    \/ \E p \in Processes : Commit(p) \/ Fail(p)
    \/ Ingest \/ Prune

Spec == Init /\ [][Next]_vars

-----------------------------------------------------------------------------
(* Properties.                                                              *)

Deadlines == [priority : Priorities, calendar : 0 .. MaxCalendars]

Rows == [id : Nat, status : Statuses, priority : Priorities, owner : Owners,
         due : Deadlines, resolved : BOOLEAN, closed : BOOLEAN]

Trails == [status : Statuses, priority : Priorities, owner : Owners, due : Deadlines]

\* byHand: a row add_task wrote, not one of the checklist.
Tasks == [title : Titles, position : Nat, status : {"pending", "completed", "skipped"},
          byHand : BOOLEAN]

Requests ==
    [op : {"idle", "policy", "create", "open", "govern", "priority", "transition", "add_task",
           "finish_task", "ensure", "comment", "saved", "recalculate"},
     signal : Signals, id : Nat, status : Statuses, priority : Priorities, owner : Owners,
     calendar : 0 .. MaxCalendars, title : Titles \cup {Nobody}]

RowsOK ==
    /\ signal \in [Signals -> {Absent, 1, 2}]
    /\ ticket \in [Signals -> Rows]
    /\ audit \in [Signals -> Trails]
    /\ issued \in Nat
    /\ calendar \in 1 .. MaxCalendars
    /\ job \in [Processes -> Requests]
    /\ faults \in 0 .. MaxFaults

\* Every variable keeps its type.
TypeOK == RowsOK /\ task \in [Signals -> SUBSET Tasks]

\* The audit trail accounts for the row: whatever transactions interleave, its latest
\* status, priority, owner and deadline are those of the ticket.
AuditExplains == \A s \in Signals : audit[s] = Audited(ticket[s])

\* The decision times agree with the status over any number of reopenings: derive_ticket_sla
\* stops a clock at closed_at or resolved_at, so neither may be missing or left over.
DecisionTimes ==
    \A s \in Signals :
        /\ ticket[s].closed <=> ticket[s].status = "closed"
        /\ ticket[s].resolved <=> ticket[s].status \in Decided \cup {"closed"}

\* A deadline always belongs to the priority the ticket has now.
DeadlineOfPriority == \A s \in Signals : ticket[s].due.priority = ticket[s].priority

\* Concurrent creations, completions of the checklist and manual additions, under whatever
\* title, leave one checklist: the positions are 1, 2, ... without repetition, and a title
\* comes back at a later position only because an analyst added it by hand: neither a repeated
\* delivery nor the page ever adds a title the ticket has, whoever it is from.
ChecklistOnce ==
    TypeOK /\ \A s \in Signals :
        /\ {k.position : k \in task[s]} = 1 .. Cardinality(task[s])
        /\ \A k, l \in task[s] : k.title = l.title /\ k.position < l.position => l.byHand

\* When the policy is done with a signal, its ticket is at least as urgent as the evidence
\* it read asked for, whoever created the ticket and with what priority.
Reached(h) ==
    LET s == job[h].signal IN
    (/\ job[h].op \in {"create", "priority"} /\ job'[h].op = "idle" /\ faults' = faults
     /\ signal[s] # Absent
     /\ job[h].op = "priority" => Found(h))
        => ticket'[s].id # 0 /\ ticket'[s].priority <= job[h].priority

PolicyReaches == [][\A h \in Threads : Reached(h)]_vars

\* The retention script never removes the last ticket of a security test, and keeps no
\* more than it was asked to, or that one.
KeepsTests ==
    LET kept == {s \in Signals : ticket'[s].id # 0} IN
    \/ Tickets \subseteq kept
    \/ /\ Tests # {} => Tests \cap kept # {}
       /\ Cardinality(kept) <= Retain \/ Cardinality(kept) = 1

PruneKeepsTests == [][KeepsTests]_vars

\* The policy never downgrades a priority: only an analyst's own transaction does.
Lowered(s) == ticket[s].id # 0 /\ ticket'[s].id = ticket[s].id
              /\ ticket'[s].priority > ticket[s].priority

PolicyNeverLowers ==
    [][\A s \in Signals : Lowered(s) => \E a \in Analysts : job'[a] # job[a]]_vars

\* The phase of a ticket in its life, seen through the decision times alone.
PhaseOf(row) ==
    IF row.id = 0 THEN "none"
    ELSE IF row.closed THEN "closed"
    ELSE IF ~row.resolved THEN "open"
    ELSE IF row.status = "resolved" THEN "resolved" ELSE "dismissed"

Phase == [s \in Signals |-> PhaseOf(ticket[s])]

Lifecycle == INSTANCE TicketLifecycle WITH phase <- Phase

\* Whatever pages, policy and retention interleave, a ticket is opened once, closed only
\* after a resolution, and a decision undone only by reopening it for investigation.
ImplementsLifecycle == Lifecycle!Spec
=============================================================================
