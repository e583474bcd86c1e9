----------------------------- MODULE Collection -----------------------------
(***************************************************************************)
(* One cycle of the collector, from the first question put to Cyber Vision *)
(* to the snapshot that becomes current: run_sync of collector/sync.py     *)
(* with collect_cybervision_raw, the adapters, assemble_snapshot, the      *)
(* contract and the gate of tools/verify_staging_snapshot.py.              *)
(*                                                                         *)
(* The collector asks for one list after the other while the center goes   *)
(* on discovering devices: a device may appear or disappear between two    *)
(* pages, between a list and the records that refer to it, or before the   *)
(* questions about it are asked.  A question may fail, and the kind of the *)
(* failure decides whether the cycle, the source or one capability is lost.*)
(*                                                                         *)
(* The lists that move with the devices, theirs and those of components,   *)
(* activities and flows, are read page by page, each with one record for a *)
(* device, in the order of the center.  The others are one question each,  *)
(* whose pages fail as one: vulnerabilities, baselines, sensors, reports   *)
(* and the differences of a baseline.  What a cycle does not read of the   *)
(* disk and of the clock until the snapshot is assembled (the ESXi         *)
(* inventory, the time) is chosen there.                                   *)
(***************************************************************************)
EXTENDS IdentityLinks, SequencesExt

CONSTANTS
    Initially,    \* the devices of the center at the beginning, in its order
    Baselines, Sensors,  \* the baselines and the sensors the center lists
    Scored,       \* devices whose record carries a risk score
    PageSize, MaxPages, MaxDetails,  \* page_size, max_pages, max_device_details
    MinQuality,   \* the quality score below which the gate refuses
    MaxFaults, MaxChanges, MaxCycles  \* bounds of the model

ASSUME CollectionAssumption ==
    /\ Initially \in Seq(Devices) /\ IsInjective(Initially) /\ Scored \subseteq Devices
    /\ Baselines \in Seq(Range(Baselines)) /\ Sensors \in Seq(Range(Sensors))
    /\ {PageSize, MaxPages, MaxDetails} \subseteq Nat \ {0}
    /\ {MinQuality, MaxFaults, MaxChanges, MaxCycles} \subseteq Nat

VARIABLES
    center,   \* the devices of the center, in the order of its list
    alert,    \* the status of the one New UI alert
    pc,       \* what the collector does: idle, ask, assemble; dead
    newui,    \* New UI of this cycle: on, off (no token) or unsupported
    asked,    \* questions of the plan already answered or failed
    page,     \* pages already read of the list that is being read
    results,  \* devices its records name, without repetitions
    got,      \* the list of devices, once it has been read
    failed,   \* question -> how it failed
    seen,     \* list -> devices its records name, once it has been read
    shown,    \* statuses under which the alert was returned
    current,  \* the current snapshot: what the properties read of it
    faults, changes, cycles,  \* counters for the bounds
    stayed,   \* auxiliary: devices in the center since the cycle began
    shaken,   \* auxiliary: a list moved under its pages too much
    inserted  \* auxiliary: devices that appeared since the last page

cycle  == <<newui, asked, page, results, got, failed, seen, shown>>
aux    == <<stayed, shaken, inserted>>
bounds == <<faults, changes, cycles>>
vars   == <<center, alert, pc, cycle, current, bounds, aux>>

-----------------------------------------------------------------------------
(* The questions of a cycle, in the order of the code.                     *)

Lists == <<"devices", "components", "activities", "flows", "event_categories",
           "event_severities", "risk_distribution", "protocol_distribution",
           "vulnerabilities", "baselines", "sensors", "reports_metadata">>

NewUiLists == <<"new_ui_assets", "new_ui_vulnerability_assets",
                "new_ui_networks", "new_ui_org_hierarchy">>

AlertStatuses == <<"Active", "Cleared", "Muted">>

\* A question about a whole list, and the questions about each record.
Whole(names) == [i \in DOMAIN names |-> <<names[i], "list">>]
Each(name, records) == [i \in DOMAIN records |-> <<name, records[i]>>]

\* Two questions about each record, one record after the other.
EachTwice(first, second, records) ==
    [i \in 1..2 * Len(records) |->
        <<IF i % 2 = 1 THEN first ELSE second, records[(i + 1) \div 2]>>]

\* What the optional question for a list returned: nothing if it failed.
Listed(name, records) == IF <<name, "list">> \in DOMAIN failed THEN <<>> ELSE records

DetailedDevices == SubSeq(got, 1, Min({MaxDetails, Len(got)}))

Plan ==
    <<<<"version", "list">>>>
    \o Whole(Lists)
    \o EachTwice("device_risk_scores", "device_vulnerabilities", DetailedDevices)
    \o Each("baseline_differences", Listed("baselines", Baselines))
    \o EachTwice("sensor_details", "sensor_stats", Listed("sensors", Sensors))
    \o (IF newui = "on"
        THEN Whole(NewUiLists) \o Each("new_ui_alerts", AlertStatuses)
        ELSE <<>>)

Question == Plan[asked + 1]

\* The lists whose pages move when a device appears or disappears.
Paged == {"devices", "components", "activities", "flows"}

\* A record of answers or failures, with one more question.
Noted(f, q, how) == [x \in DOMAIN f \cup {q} |-> IF x = q THEN how ELSE f[x]]

NewUiCapabilities == Range(NewUiLists) \cup {"new_ui_alerts"}
DeviceDetails == {"device_risk_scores", "device_vulnerabilities"}
ClassicCapabilities ==
    {"version", "baseline_differences", "sensor_details", "sensor_stats"}
        \cup Range(Lists) \cup DeviceDetails

-----------------------------------------------------------------------------
(* How a question fails.  fatal: credential, 401, 403, TLS or redirect;    *)
(* unlicensed: 402; gone: 404; server: 5xx; other: timeout, 429, bad JSON, *)
(* pagination.  malformed is an answer of New UI with a null where the     *)
(* adapter iterates over a list.                                           *)

Failures == {"fatal", "unlicensed", "gone", "server", "other"}
Malformed(q) ==
    q[1] \in {"new_ui_assets", "new_ui_vulnerability_assets", "new_ui_alerts"}

\* The failures that end the collection instead of one capability.
AbortsWithNewUi(q, how) == q[1] = "version" \/ how = "fatal"
Aborts(q, how) ==
    \/ q[1] = "version"
    \/ how = "fatal" /\ q[1] \notin NewUiCapabilities

\* Cyber Vision is unavailable in this cycle: the collection was aborted, its
\* answers could not be written to the raw store or could not be normalised.
Lost == \E q \in DOMAIN failed :
            Aborts(q, failed[q]) \/ failed[q] = "malformed" \/ q[1] = "raw_store"

-----------------------------------------------------------------------------
(* The status of a capability, from the questions it took.                 *)

Attempts(c) == {q \in Range(Plan) : q[1] = c}
Failing(c)  == {q \in Attempts(c) \cap DOMAIN failed : failed[q] # "malformed"}
Truncated   == Len(got) > MaxDetails

\* Several questions make one capability: the status of them together.
Together(attempts, failing) ==
    CASE failing = {} -> "available"
      [] failing # {} /\ failing # attempts -> "partial"
      [] failing # {} /\ failing = attempts ->
            IF \A q \in failing : failed[q] = "unlicensed" THEN "feature_unlicensed"
            ELSE IF \A q \in failing : failed[q] = "gone" THEN "endpoint_unavailable"
            ELSE "error"

Status(c) ==
    LET attempts == Attempts(c) IN
    CASE attempts = {} -> "not_applicable"
      [] attempts # {} /\ c \in DeviceDetails /\ Truncated -> "truncated"
      [] attempts # {} /\ ~(c \in DeviceDetails /\ Truncated) -> Together(attempts, Failing(c))

\* Without a token or without support the capabilities of New UI are not asked.
NewUiStatus(c) ==
    CASE newui = "on" -> Status(c)
      [] newui = "off" -> "not_configured"
      [] newui = "unsupported" -> "version_unsupported"

\* The one problem the gate may be told to accept.
StatsServerError ==
    Status("sensor_stats") = "error"
        /\ \A q \in Failing("sensor_stats") : failed[q] = "server"

-----------------------------------------------------------------------------
(* The adapter: the records of the snapshot, by the devices they name.     *)

Assets == Range(got)
Answered(q) == q \in Range(Plan) \ DOMAIN failed
Named(list) == IF list \in DOMAIN seen THEN seen[list] ELSE {}

\* A device has a component; an activity names components, a flow components
\* or devices, an event devices, a difference any of them.
Owners           == Named("components") \cap Assets
Scores           == Assets \cap Scored
ActivityRefs     == Named("activities") \cap Owners
FlowRefs         == Named("flows") \cap Assets
EventRefs        == Named("event_severities") \cap Assets
VulnerableAssets == {d \in Assets : Answered(<<"device_vulnerabilities", d>>)}
DifferenceRefs   == Named("baseline_differences") \cap Assets

\* The baselines of the snapshot, those its differences name, and the sensors
\* that are shown with measures.
BaselineIds     == Range(Listed("baselines", Baselines))
DifferenceOf    == {b \in Range(Baselines) : Answered(<<"baseline_differences", b>>)}
MeasuredSensors == {x \in Range(Sensors) : Answered(<<"sensor_stats", x>>)}

\* The state of the Classic source.
Problems == {"error", "endpoint_unavailable", "partial", "truncated"}
ClassicSource ==
    IF Lost THEN "unavailable"
    ELSE IF \E c \in ClassicCapabilities : Status(c) \in Problems THEN "degraded"
    ELSE "connected"

\* The state of the New UI source.
NewUiSource ==
    CASE newui = "off" -> "not_configured"
      [] newui = "unsupported" -> "unavailable"
      [] newui = "on" ->
            IF \A c \in NewUiCapabilities : Status(c) = "available" THEN "connected"
            ELSE IF \E c \in NewUiCapabilities : Status(c) \in {"available", "partial"}
            THEN "degraded" ELSE "unavailable"

\* An alert that changes between the three questions may be returned by more
\* than one of them: the status of the signal.
ShownStatus ==
    CASE "Active" \in shown -> "Active"
      [] "Active" \notin shown /\ "Muted" \in shown -> "Muted"
      [] shown = {"Cleared"} -> "Cleared"
      [] shown = {} -> "none"

-----------------------------------------------------------------------------
(* The quality score.  Coverages are in ten-thousandths.                   *)

Rounded(n, d) ==  \* n / d to the nearest integer, halves to the even one
    LET q == n \div d  r == n % d
    IN  IF 2 * r > d \/ (2 * r = d /\ q % 2 = 1) THEN q + 1 ELSE q

QualityCapabilities ==
    {c \in Range(Lists) \cup {"device_vulnerabilities", "baseline_differences",
                              "sensor_details", "sensor_stats"} :
        Status(c) \notin {"feature_unlicensed", "not_applicable"}}

Coverage(c) ==
    CASE Status(c) = "available" -> 10000
      [] Status(c) \in {"partial", "truncated"} ->
            Rounded(10000 * Cardinality(Attempts(c) \ Failing(c)), Cardinality(Attempts(c)))
      [] Status(c) \notin {"available", "partial", "truncated"} -> 0

RiskCoverage ==
    IF got # <<>> THEN Rounded(10000 * Cardinality(Scores), Cardinality(Assets))
    ELSE IF Status("devices") = "available" THEN 10000 ELSE 0

NewUiCoverage(c) ==
    CASE Status(c) = "available" -> 10000
      [] Status(c) = "partial" -> 5000
      [] Status(c) \notin {"available", "partial"} -> 0

CybervisionQuality ==
    LET five == IF newui = "on" THEN NewUiCapabilities ELSE {}
    IN  Rounded(MapThenSumSet(Coverage, QualityCapabilities) + RiskCoverage
                    + MapThenSumSet(NewUiCoverage, five),
                100 * (Cardinality(QualityCapabilities) + 1 + Cardinality(five)))

\* The ESXi inventory: complete; without the hosts, which the account may not
\* see; or with two machines that carry the name of the official target.
Inventories == {"complete", "hosts_hidden", "two_targets"}

OfficialTargets(inventory) == IF inventory = "two_targets" THEN 2 ELSE 1
HostScope(inventory) ==
    IF inventory = "hosts_hidden" THEN "endpoint_unavailable" ELSE "available"
EsxiQuality(inventory) == IF HostScope(inventory) = "available" THEN 100 ELSE 50

Quality(inventory) ==
    Rounded(3 * EsxiQuality(inventory) + 7 * (IF Lost THEN 0 ELSE CybervisionQuality), 10)

-----------------------------------------------------------------------------
(* The contract of a snapshot and the gate.                                *)

UniqueIds == Lost \/ IsInjective(got)

References ==
    \/ Lost
    \/ /\ UNION {Scores, ActivityRefs, FlowRefs, EventRefs, VulnerableAssets,
                 DifferenceRefs} \subseteq Assets
       /\ DifferenceOf \subseteq BaselineIds
       /\ \A link \in Links(Assets) : link.asset \in Assets /\ link.vm \in Vms

\* back: the clock was set back during the cycle.
Semantics(inventory, back) == OfficialTargets(inventory) <= 1 /\ ~back

Valid(inventory, back) == UniqueIds /\ References /\ Semantics(inventory, back)

\* The one failure an operator may approve.  Hidden hosts are only a warning.
Accepted(c, allow) == c = "sensor_stats" /\ allow /\ StatsServerError

\* evaluate_snapshot, before the age of the snapshot: allow accepts the server
\* error of sensor_stats and the partial snapshot that follows from it.
Approved(inventory, allow) ==
    /\ ~Lost
    /\ \A c \in ClassicCapabilities : Status(c) = "available" \/ Accepted(c, allow)
    /\ \A c \in NewUiCapabilities : NewUiStatus(c) = "available"
    /\ ClassicSource = "connected" \/ (allow /\ StatsServerError)
    /\ NewUiSource = "connected"
    /\ Quality(inventory) >= MinQuality

Snapshot(inventory) ==
    [id       |-> cycles,
     approved |-> {allow \in BOOLEAN : Approved(inventory, allow)},
     classic  |-> ClassicSource,
     alert    |-> IF Lost THEN "none" ELSE ShownStatus]

-----------------------------------------------------------------------------
Init ==
    /\ center = Initially
    /\ alert = "Active"
    /\ pc = "idle"
    /\ newui = "off" /\ asked = 0 /\ page = 0 /\ results = <<>> /\ got = <<>>
    /\ failed = <<>> /\ seen = <<>> /\ shown = {}
    /\ current = [id |-> 0, approved |-> {}, classic |-> "none", alert |-> "none"]
    /\ faults = 0 /\ changes = 0 /\ cycles = 0
    /\ stayed = {} /\ shaken = FALSE /\ inserted = 0

\* Nothing of a cycle outlives it.
Forget ==
    /\ newui' = "off" /\ asked' = 0 /\ page' = 0 /\ results' = <<>> /\ got' = <<>>
    /\ failed' = <<>> /\ seen' = <<>> /\ shown' = {}
    /\ stayed' = {} /\ shaken' = FALSE /\ inserted' = 0

(* The cycle begins.  Without the VPN or the ESXi inventory it ends here,   *)
(* and nothing has changed.                                                *)
Start(mode) ==
    /\ pc = "idle" /\ cycles < MaxCycles
    /\ pc' = "ask" /\ cycles' = cycles + 1
    /\ newui' = mode
    /\ stayed' = Range(center)
    /\ UNCHANGED <<center, alert, asked, page, results, got, failed, seen, shown,
                   current, faults, changes, shaken, inserted>>

(* The ESXi answers cannot be written to the raw store: no handler expects *)
(* that, and the process ends.                                             *)
RawEsxiFails ==
    /\ pc = "idle" /\ cycles < MaxCycles /\ faults < MaxFaults
    /\ pc' = "dead"
    /\ cycles' = cycles + 1 /\ faults' = faults + 1
    /\ UNCHANGED <<center, alert, cycle, current, changes, aux>>

\* The next question, or the end of the collection.
Proceed ==
    /\ asked' = asked + 1 /\ page' = 0 /\ results' = <<>> /\ inserted' = 0
    /\ pc' = IF asked' = Len(Plan') THEN "assemble" ELSE "ask"

(* A page of a list: classic_pages.                                        *)
PageItems ==
    SubSeq(center, page * PageSize + 1, Min({Len(center), (page + 1) * PageSize}))
KeepsRepetitions == PageItems
NewItems ==
    LET new[n \in 0..Len(PageItems)] ==
            IF n = 0 THEN <<>>
            ELSE IF PageItems[n] \in Range(results) \cup Range(new[n - 1]) THEN new[n - 1]
            ELSE Append(new[n - 1], PageItems[n])
    IN  new[Len(PageItems)]
StopsAtRepetition == Len(PageItems) < PageSize \/ Len(NewItems) < Len(PageItems)
LastPage == Len(PageItems) < PageSize \/ NewItems = <<>>

ReadPage ==
    /\ pc = "ask" /\ Question[1] \in Paged
    /\ UNCHANGED <<center, alert, newui, shown, current, bounds, stayed, shaken>>
    /\ \/ /\ LastPage
          /\ IF Question[1] = "devices"
             THEN got' = results \o NewItems /\ UNCHANGED seen
             ELSE seen' = Noted(seen, Question[1], Range(results \o NewItems)) /\ UNCHANGED got
          /\ UNCHANGED failed
          /\ Proceed
       \/ /\ ~LastPage /\ page + 1 < MaxPages
          /\ results' = results \o NewItems
          /\ page' = page + 1 /\ inserted' = 0
          /\ UNCHANGED <<pc, asked, got, failed, seen>>
       \/ /\ ~LastPage /\ page + 1 = MaxPages  \* pagination_limit: nothing is kept
          /\ failed' = Noted(failed, Question, "other")
          /\ UNCHANGED <<got, seen>>
          /\ Proceed

\* A device that left the center has no details any more.
Vanished(q) == q[1] \in DeviceDetails /\ q[2] \notin Range(center)

Answer ==
    /\ pc = "ask" /\ Question[1] \in ClassicCapabilities \ Paged /\ ~Vanished(Question)
    /\ seen' = IF Question[1] \in {"event_severities", "baseline_differences"}
               THEN Noted(seen, Question[1], Range(center)) ELSE seen
    /\ UNCHANGED <<center, alert, newui, got, failed, shown, current, bounds, stayed, shaken>>
    /\ Proceed

\* An envelope of New UI, from its first cursor to its last.
NewUiAnswer ==
    /\ pc = "ask" /\ Question[1] \in NewUiCapabilities
    /\ shown' = IF Question = <<"new_ui_alerts", alert>> THEN shown \cup {alert} ELSE shown
    /\ UNCHANGED <<center, alert, newui, got, failed, seen, current, bounds, stayed, shaken>>
    /\ Proceed

NotFound ==
    /\ pc = "ask" /\ Vanished(Question)
    /\ failed' = Noted(failed, Question, "gone")
    /\ UNCHANGED <<center, alert, newui, got, seen, shown, current, bounds, stayed, shaken>>
    /\ Proceed

Fail(how) ==
    /\ pc = "ask" /\ faults < MaxFaults
    /\ how \in Failures \/ (how = "malformed" /\ Malformed(Question))
    /\ failed' = Noted(failed, Question, how)
    /\ faults' = faults + 1
    /\ UNCHANGED <<center, alert, newui, got, seen, shown, current, changes, cycles,
                   stayed, shaken>>
    /\ IF Aborts(Question, how)
       THEN pc' = "assemble" /\ UNCHANGED <<asked, page, results, inserted>>
       ELSE Proceed

(* The answers of Cyber Vision cannot be written to the raw store.         *)
RawCybervisionFails ==
    /\ pc = "assemble" /\ ~Lost /\ faults < MaxFaults
    /\ failed' = Noted(failed, <<"raw_store", "list">>, "other")
    /\ faults' = faults + 1
    /\ UNCHANGED <<center, alert, pc, newui, asked, page, results, got, seen, shown,
                   current, changes, cycles, aux>>

(* Assembly and publication; a snapshot that breaks the contract ends the  *)
(* process of live_sync, which handles no such error.                      *)
Assemble(inventory, back) ==
    /\ pc = "assemble"
    /\ back => faults < MaxFaults
    /\ faults' = IF back THEN faults + 1 ELSE faults
    /\ IF Valid(inventory, back)
       THEN current' = Snapshot(inventory) /\ pc' = "idle"
       ELSE pc' = "dead" /\ UNCHANGED current
    /\ Forget
    /\ UNCHANGED <<center, alert, changes, cycles>>

(* live_sync is started again.                                             *)
Restart ==
    /\ pc = "dead"
    /\ pc' = "idle"
    /\ UNCHANGED <<center, alert, cycle, current, bounds, aux>>

-----------------------------------------------------------------------------
(* The center while a cycle runs.                                          *)

\* Between two pages of a list.
Paging == page > 0

Appear(d, i) ==
    /\ pc = "ask" /\ changes < MaxChanges
    /\ d \notin Range(center)
    /\ center' = InsertAt(center, i, d)
    /\ changes' = changes + 1
    /\ inserted' = IF Paging THEN inserted + 1 ELSE inserted
    /\ shaken' = (shaken \/ inserted' >= PageSize)
    /\ UNCHANGED <<alert, pc, cycle, current, faults, cycles, stayed>>

Disappear(d) ==
    /\ pc = "ask" /\ changes < MaxChanges
    /\ \E i \in DOMAIN center : center[i] = d /\ center' = RemoveAt(center, i)
    /\ changes' = changes + 1
    /\ stayed' = stayed \ {d}
    /\ shaken' = (shaken \/ Paging)
    /\ UNCHANGED <<alert, pc, cycle, current, faults, cycles, inserted>>

AlertMoves(status) ==
    /\ pc = "ask" /\ changes < MaxChanges
    /\ status # alert
    /\ alert' = status
    /\ changes' = changes + 1
    /\ UNCHANGED <<center, pc, cycle, current, faults, cycles, aux>>

Next ==
    \/ \E mode \in {"on", "off", "unsupported"} : Start(mode)
    \/ RawEsxiFails
    \/ ReadPage \/ Answer \/ NewUiAnswer \/ NotFound
    \/ \E how \in Failures \cup {"malformed"} : Fail(how)
    \/ RawCybervisionFails
    \/ \E inventory \in Inventories, back \in BOOLEAN : Assemble(inventory, back)
    \/ Restart
    \/ \E d \in Devices, i \in 1..Len(center) + 1 : Appear(d, i)
    \/ \E d \in Devices : Disappear(d)
    \/ \E status \in Range(AlertStatuses) : AlertMoves(status)

Spec == Init /\ [][Next]_vars

-----------------------------------------------------------------------------
(* Type invariant.                                                         *)
TypeOK ==
    /\ {center, results, got} \subseteq Seq(Devices)
    /\ alert \in Range(AlertStatuses) /\ shown \subseteq Range(AlertStatuses)
    /\ pc \in {"idle", "ask", "assemble", "dead"}
    /\ newui \in {"on", "off", "unsupported"}
    /\ asked \in 0..Len(Plan) /\ page \in 0..MaxPages
    /\ \A q \in DOMAIN failed : failed[q] \in Failures \cup {"malformed"}
    /\ \A l \in DOMAIN seen : seen[l] \subseteq Devices
    /\ current.id \in 0..MaxCycles /\ current.approved \subseteq BOOLEAN
    /\ faults \in 0..MaxFaults /\ changes \in 0..MaxChanges /\ cycles \in 0..MaxCycles
    /\ stayed \subseteq Devices /\ shaken \in BOOLEAN /\ inserted \in Nat

-----------------------------------------------------------------------------
(* What a snapshot may say.                                                *)

\* However the lists moved while they were read and whatever failed, the
\* records of the cycle keep the contract: no asset twice, no reference to an
\* asset that is not there.  Only the inventory and the clock can break it.
ContractKept == TypeOK /\ (pc = "assemble" => UniqueIds /\ References)

Published == current'.id # current.id

\* What the gate approves is faithful: every question of the cycle was
\* answered, except the accepted server errors; every device has been asked
\* about; no device that was there all along is missing from the assets or
\* has lost its component, activities, flows or events, unless one left or a
\* page of them appeared between two pages of a list; and an alert seen active
\* is shown active.
ApprovedFaithful ==
    [][Published /\ current'.approved # {} =>
        /\ \A q \in Range(Plan) \cap DOMAIN failed :
               q[1] = "sensor_stats" /\ failed[q] = "server" /\ current'.approved = {TRUE}
        /\ VulnerableAssets = Assets /\ DifferenceOf = Range(Baselines)
        /\ FALSE \in current'.approved => MeasuredSensors = Range(Sensors)
        /\ ~shaken => stayed \subseteq Owners \cap ActivityRefs \cap FlowRefs \cap EventRefs
        /\ "Active" \in shown => current'.alert = "Active"]_vars

\* New UI stays apart: whatever its questions answer, short of a malformed
\* record, the Classic source of the same cycle is connected.
NewUiApart ==
    [][Published /\ ~Truncated
            /\ (\A q \in DOMAIN failed : q[1] \in NewUiCapabilities /\ failed[q] # "malformed")
        => current'.classic = "connected"]_vars
=============================================================================
