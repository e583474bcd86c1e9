------------------------------ MODULE Deployment ----------------------------
\* The two deployment tools together: production is promoted from what staging
\* holds while staging may be changed.  Faults are counted together.
EXTENDS ProductionDeploy

CONSTANTS StagingOps, FirstStaged, MaxStagingSnapshots

ASSUME DeploymentAssumption == /\ IsFiniteSet(StagingOps) /\ FirstStaged \subseteq Maybe
                               /\ MaxStagingSnapshots \in Nat \ {0}

VARIABLES
    stagingNewest, stagingDone, stagingDue, sop,  \* of StagingDeploy
    proven  \* the releases staging has been verified with (for the properties only)

S == INSTANCE StagingDeploy WITH sfaults <- faults, MaxStagingFaults <- MaxFaults

allVars == <<vars, stagingNewest, stagingDone, stagingDue, sop, proven>>

DInit == /\ Init /\ S!SInit
         /\ proven = {staging.release} \ {None}

DNext == \/ /\ Next
            /\ UNCHANGED <<stagingNewest, stagingDone, stagingDue, sop, proven>>
         \/ /\ S!SNext
            /\ UNCHANGED productionVars
            /\ proven' = proven \cup {sop[s].target : s \in
                   {t \in StagingOps : sop[t].pc # "applied" /\ sop'[t].pc = "applied"}}

DSpec == DInit /\ [][DNext]_allVars

-----------------------------------------------------------------------------
\* Every variable of both tools keeps its type.
DTypeOK == TypeOK /\ S!STypeOK /\ proven \subseteq Releases

\* The state of the server is well formed, and a marker tells what is torn (DTypeOK and
\* TornIsMarked of ProductionDeploy).
MarkedExactly == DTypeOK /\ TornIsMarked

\* A release that staging has tried and turned back is not promoted: whatever is
\* promoted has been verified in staging, or some staging operation on it has not
\* come to an end of its own (it is under way, was killed, could not be restored
\* or ran against another one).
PromotedWasStaged == [][\A o \in ProductionOps :
    op[o].pc = "locked" /\ op'[o].pc = "mark1" /\ op[o].kind = "promote" =>
        \/ op[o].target \in proven
        \/ \E s \in StagingOps : /\ sop[s].target = op[o].target
                                 /\ \/ S!Running(s)
                                    \/ sop[s].pc \in {"killed", "restore_failed"}
                                    \/ ~sop[s].alone]_allVars

\* What the staging tool reports is so, whatever the production tool does meanwhile: success
\* means an installation of exactly its release, a completed restore means the one it found
\* (AppliedExact and RestoredExact of StagingDeploy).
StagingExact == [][S!AppliedExact /\ S!RestoredExact]_allVars
=============================================================================
