----------------------------- MODULE MCTicketStore ---------------------------
(* Model values and symmetry for checking TicketStore with TLC. *)
EXTENDS TicketStore, TLC
CONSTANTS s1, s2, a1, a2, h1, h2

MCNone      == {}
MCOneSignal == {s1}
MCSignals   == {s1, s2}
MCAnalyst   == {a1}
MCAnalysts  == {a1, a2}
MCThread    == {h1}
MCThreads   == {h1, h2}

MCUrgent    == {1, 2}
MCLevels    == {1, 2, 3}
MCPlaybook  == <<"isolate", "verify">>
MCNoTasks   == <<>>
MCManual    == {"call", "verify"}

\* Whom a ticket is given to only shows in its row and in the trail: nobody, or the analyst.
OwnTickets  == \A a \in Analysts : job'[a].owner \in {Nobody, a}

Sessions    == Permutations(MCAnalysts) \cup Permutations(MCThreads)
=============================================================================
