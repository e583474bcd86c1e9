--------------------------- MODULE VerifiedStaging ---------------------------
(***************************************************************************)
(* An operator brings the current snapshot to the staging server while the *)
(* collector goes on: tools/publish_verified_staging.py.  A dry run shows  *)
(* a plan bound to the manifest and to the policy of the gate; the plan is *)
(* confirmed in a second run, which reads current again before it publishes*)
(* and whose publisher reads it once more.                                 *)
(***************************************************************************)
EXTENDS Collection

VARIABLES
    aged,     \* more than 900 seconds since the current snapshot
    plan,     \* the plan last shown to the operator: [id, allow]
    op,       \* the run that applies a plan: its step, that plan and the
              \* snapshot it is about to send
    staging   \* the snapshot staging serves, 0 for none

staged == <<plan, op, staging>>
stagingVars == <<vars, aged, staged>>

NoPlan == [id |-> 0, allow |-> FALSE]
Quiet  == [step |-> "none", plan |-> NoPlan, id |-> 0]

StagingInit ==
    /\ Init
    /\ aged = FALSE /\ plan = NoPlan /\ op = Quiet /\ staging = 0

-----------------------------------------------------------------------------
\* The gate on current, with the age it has now.
Gate(allow) == allow \in current.approved /\ ~aged

\* The dry run: an approved current gives a plan.
ShowPlan(allow) ==
    /\ Gate(allow)
    /\ plan' = [id |-> current.id, allow |-> allow]
    /\ UNCHANGED <<vars, aged, op, staging>>

\* The run that applies: current must be the expected manifest, pass the gate
\* and give the same token as the plan.
Apply(allow) ==
    /\ op = Quiet /\ plan # NoPlan
    /\ current.id = plan.id /\ Gate(allow) /\ allow = plan.allow
    /\ op' = [step |-> "confirmed", plan |-> plan, id |-> current.id]
    /\ UNCHANGED <<vars, aged, plan, staging>>

\* It reads current again, after every check of the plan.
Unchanged == current.id = op.plan.id /\ Gate(op.plan.allow)

ReadsWithoutComparing ==
    /\ op.step = "confirmed"
    /\ op' = IF Gate(op.plan.allow) THEN [op EXCEPT !.step = "publishing", !.id = current.id] ELSE Quiet
    /\ UNCHANGED <<vars, aged, plan, staging>>
Reread ==
    /\ op.step = "confirmed"
    /\ op' = IF Unchanged THEN [op EXCEPT !.step = "publishing", !.id = current.id] ELSE Quiet
    /\ UNCHANGED <<vars, aged, plan, staging>>

\* The publisher reads it once more before it touches the server.
PublisherReads ==
    /\ op.step = "publishing"
    /\ op' = IF current.id = op.id THEN [op EXCEPT !.step = "sending"] ELSE Quiet
    /\ UNCHANGED <<vars, aged, plan, staging>>

Commit ==
    /\ op.step = "sending"
    /\ staging' = op.id
    /\ op' = Quiet
    /\ UNCHANGED <<vars, aged, plan>>

\* The connection fails, or the operator interrupts the run.
Abandon ==
    /\ op # Quiet
    /\ op' = Quiet
    /\ UNCHANGED <<vars, aged, plan, staging>>

GrowOld ==
    /\ current.id > 0 /\ ~aged
    /\ aged' = TRUE
    /\ UNCHANGED <<vars, staged>>

StagingNext ==
    \/ \E mode \in {"on", "off", "unsupported"} : Start(mode) /\ UNCHANGED <<aged, staged>>
    \/ RawEsxiFails /\ UNCHANGED <<aged, staged>>
    \/ ReadPage /\ UNCHANGED <<aged, staged>>
    \/ Answer /\ UNCHANGED <<aged, staged>>
    \/ NewUiAnswer /\ UNCHANGED <<aged, staged>>
    \/ NotFound /\ UNCHANGED <<aged, staged>>
    \/ \E how \in Failures \cup {"malformed"} : Fail(how) /\ UNCHANGED <<aged, staged>>
    \/ RawCybervisionFails /\ UNCHANGED <<aged, staged>>
    \/ \E inventory \in Inventories, back \in BOOLEAN :
           /\ Assemble(inventory, back)
           /\ aged' = (aged /\ current' = current)
           /\ UNCHANGED staged
    \/ Restart /\ UNCHANGED <<aged, staged>>
    \/ \E d \in Devices, i \in 1..Len(center) + 1 : Appear(d, i) /\ UNCHANGED <<aged, staged>>
    \/ \E d \in Devices : Disappear(d) /\ UNCHANGED <<aged, staged>>
    \/ \E status \in Range(AlertStatuses) : AlertMoves(status) /\ UNCHANGED <<aged, staged>>
    \/ \E allow \in BOOLEAN : ShowPlan(allow) \/ Apply(allow)
    \/ Reread \/ PublisherReads \/ Commit \/ Abandon \/ GrowOld

StagingSpec == StagingInit /\ [][StagingNext]_stagingVars

-----------------------------------------------------------------------------
\* What reaches staging is the snapshot of the plan the operator confirmed,
\* which the gate, under the policy of that plan, approved again after the
\* confirmation, however often current was replaced meanwhile.
StagedAsPlanned ==
    [][/\ staging' # staging => staging' = op.plan.id
       /\ op'.step = "publishing" /\ op.step # "publishing" =>
              current.id = op.plan.id /\ Gate(op.plan.allow)]_stagingVars
=============================================================================
