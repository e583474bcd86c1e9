---------------------------- MODULE MCCollection ----------------------------
EXTENDS VerifiedStaging

CONSTANTS d1, d2, d3, d4, d5, d6, v1, v2, b1, s1

MCInitially == <<d1, d2, d3, d4>>
MCBaselines == <<b1>>
MCSensors == <<s1>>
MCScored == Devices \ {d2}

\* v1 shares both addresses with d1, v2 its address with d2 and, once it has
\* appeared, with d5; d3 has the name of v2.
MCVmIp  == v1 :> {"ip1"} @@ v2 :> {"ip2"}
MCVmMac == v1 :> {"mac1"} @@ v2 :> {"mac2"}
MCDeviceIp ==
    [d \in Devices |-> CASE d = d1 -> {"ip1"} [] d \in {d2, d5} -> {"ip2"}
                         [] d \notin {d1, d2, d5} -> {}]
MCDeviceMac == [d \in Devices |-> IF d = d1 THEN {"mac1"} ELSE {}]
MCAlike == {<<d3, v2>>}
MCConfirmedIp == v1 :> "ip1"

\* Devices d5 and d6 appear in this order; the center and the alert change
\* only where a question is about to read them; other failures are like
\* server, save for sensor_stats; a cycle without New UI asks the questions
\* of one with it and is left alone; a cycle is disturbed twice, the second
\* cycle is not.
Reduction ==
    /\ (staged' # staged \/ (aged' # aged /\ current' = current)) =>
        pc = "idle" /\ changes = 0
    /\ faults' + changes' > faults + changes =>
        /\ newui = "on" \/ pc # "ask"
        /\ cycles' = 1
        /\ faults' + changes' <= 2
        /\ "other" \in Range(failed') =>
               \E q \in DOMAIN failed' : q[1] \in {"sensor_stats", "devices", "raw_store"}
    /\ center' # center =>
        /\ Paging \/ asked \in 2..4 \/ (asked > Len(Lists) /\ Question[1] \in DeviceDetails)
        /\ d6 \in Range(center') => d5 \in Range(center') \/ d6 \in Range(center)
    /\ alert' # alert => asked > Len(Lists) /\ Question[1] = "new_ui_alerts"
=============================================================================
