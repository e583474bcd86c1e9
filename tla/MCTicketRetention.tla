--------------------------- MODULE MCTicketRetention -------------------------
\* TicketStore bounded to two overlapping situations: the retention script and a second
\* signal beside an analyst and one busy thread of the ingress, one of whose operations
\* fails; and an analyst and two threads at work on the checklist of one signal, the only
\* one in the store, before anything has failed.
EXTENDS MCTicketStore

Retention ==
    /\ \E h \in Threads : job[h].op = "idle"
    /\ \A a \in Analysts : job[a].op \notin {"add_task", "finish_task", "open", "ensure", "comment"}
    /\ \A s \in Signals : \A k \in task[s] : ~k.byHand /\ k.status = "pending"
    /\ \A s \in Signals : Exists(s) => task[s] # {}

OneSignal ==
    /\ faults = 0 /\ issued <= 1
    /\ \A s \in Signals : \A k \in task[s] : k.status # "skipped"
    /\ \A a \in Analysts : job[a].op \notin {"govern", "transition", "comment"}
    /\ \A s \in Signals \ Endpoint : signal[s] = Absent

\* Owners are left to the other run: neither the retention nor a checklist reads one.
Unassigned == \A a \in Analysts : job[a].owner = Nobody

MCAllowed == (Unassigned /\ (Retention \/ OneSignal))'
=============================================================================
