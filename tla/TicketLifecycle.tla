-------------------------- MODULE TicketLifecycle ----------------------------
(***************************************************************************)
(* What the ticket store promises of a signal's ticket, whoever edits it:   *)
(* a ticket is opened once, decided by a person, closed only after its      *)
(* resolution, and a decision is only ever undone by reopening the ticket   *)
(* for investigation.                                                       *)
(***************************************************************************)
CONSTANT Signals

VARIABLE phase      \* of the ticket of each signal

Decisions == {"resolved", "dismissed"}
Phases    == {"none", "open", "closed"} \cup Decisions

Init == phase = [s \in Signals |-> "none"]

Move(s, from, to) ==
    /\ phase[s] \in from
    /\ \E p \in to : phase' = [phase EXCEPT ![s] = p]

Open(s)   == Move(s, {"none"}, {"open"})
Decide(s) == Move(s, {"open"}, Decisions)
Close(s)  == Move(s, {"resolved"}, {"closed"})
Reopen(s) == Move(s, Decisions \cup {"closed"}, {"open"})

\* The retention script removes any number of tickets at once.
Remove == \E S \in SUBSET Signals :
              phase' = [s \in Signals |-> IF s \in S THEN "none" ELSE phase[s]]

Next == Remove \/ \E s \in Signals : Open(s) \/ Decide(s) \/ Close(s) \/ Reopen(s)

Spec == Init /\ [][Next]_phase
=============================================================================
