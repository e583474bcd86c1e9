---------------------------- MODULE MCDeployment ----------------------------
\* Model checking of Deployment, in three scenarios chosen at the start: the
\* production operations with the publisher while staging stands still, the
\* staging operations while production stands still (two that overlap without
\* publications or faults), and one operation of each
\* tool interleaved, without publications.
EXTENDS Deployment, TLC

VARIABLE scenario

\* The store of the tool that stands still is up to date.
MCInit == /\ DInit /\ scenario \in {"production", "staging", "both"}
          /\ scenario # "staging" => stagingDone = 1
          /\ scenario = "staging" => done = 1 /\ archived = {1}

Overlap == \E s \in StagingOps : ~sop'[s].alone

MCAllowed ==
    /\ 3 \in archived' => faults' = 0
    /\ scenario = "production" => UNCHANGED <<staging, stagingData, stagingNewest, stagingDue, stagingDone, sop>>
    /\ scenario = "staging" => /\ UNCHANGED productionVars
                               /\ Overlap => stagingNewest' = 1 /\ faults' = 0
    /\ scenario = "both" => /\ archived' \subseteq {1} /\ stagingNewest' = 1
                            /\ Cardinality({o \in ProductionOps : op'[o].pc # "idle"}) <= 1
                            /\ Cardinality({o \in StagingOps : sop'[o].pc # "idle"}) <= 1

MCNext == DNext /\ UNCHANGED scenario /\ MCAllowed

MCSpec == MCInit /\ [][MCNext]_<<allVars, scenario>>

MCSymmetry == Permutations(ProductionOps) \cup Permutations(StagingOps)
=============================================================================
