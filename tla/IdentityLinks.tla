--------------------------- MODULE IdentityLinks ---------------------------
(***************************************************************************)
(* Which virtual machine of the ESXi host is which asset of Cyber Vision:  *)
(* resolve_vm_asset_identities of services/identity.py.  Neither source    *)
(* knows the identifiers of the other, so a pair is proposed on the        *)
(* addresses or the names that both report, and confirmed where an         *)
(* operator wrote down the address of the machine.                         *)
(***************************************************************************)
EXTENDS Naturals, FiniteSets

CONSTANTS
    Vms,          \* virtual machines of the inventory
    Devices,      \* devices Cyber Vision may report
    Legacy,       \* machines excluded from the operational KPIs
    VmIp, VmMac, DeviceIp, DeviceMac,  \* the addresses each of them reports
    Alike,        \* pairs of a device and a machine one of whose names contains the other
    ConfirmedIp   \* machines whose address the operator wrote down -> that address

ASSUME IdentityAssumption ==
    /\ Legacy \subseteq Vms
    /\ IsFiniteSet(Vms) /\ IsFiniteSet(Devices)
    /\ DOMAIN VmIp = Vms /\ DOMAIN VmMac = Vms
    /\ DOMAIN DeviceIp = Devices /\ DOMAIN DeviceMac = Devices
    /\ DOMAIN ConfirmedIp \subseteq Vms

-----------------------------------------------------------------------------
Eligible == Vms \ Legacy

\* An address counts for a pair only if no other machine and no other asset
\* of the snapshot, whose assets are A, reports it.
Exclusive(x, A, ofVm, ofDevice) ==
    /\ Cardinality({v \in Eligible : x \in ofVm[v]}) = 1
    /\ Cardinality({a \in A : x \in ofDevice[a]}) = 1

Shares(a, v, A, ofVm, ofDevice) ==
    \E x \in ofVm[v] \cap ofDevice[a] : Exclusive(x, A, ofVm, ofDevice)

\* The confidence of a pair, in hundredths; 0 is no candidate.
Level(a, v, A) ==
    LET mac == Shares(a, v, A, VmMac, DeviceMac)
        ip  == Shares(a, v, A, VmIp, DeviceIp)
    IN  CASE mac /\ ip -> 99
          [] mac /\ ~ip -> 97
          [] ip /\ ~mac -> 88
          [] ~mac /\ ~ip /\ <<a, v>> \in Alike -> 65
          [] OTHER -> 0

\* The pairs that are the best of their asset, without an equal.
BestOfAsset(A) ==
    {p \in A \X Eligible :
        /\ Level(p[1], p[2], A) > 0
        /\ \A v \in Eligible \ {p[2]} : Level(p[1], v, A) < Level(p[1], p[2], A)}

\* Of those, the pairs that are the best of their machine, without an equal.
LinkedPairs(A) ==
    {p \in BestOfAsset(A) :
        \A q \in BestOfAsset(A) \ {p} :
            q[2] = p[2] => Level(q[1], q[2], A) < Level(p[1], p[2], A)}

\* A name alone is never confirmed.
Confirmed(p, A) ==
    /\ p[2] \in DOMAIN ConfirmedIp
    /\ ConfirmedIp[p[2]] \in DeviceIp[p[1]]
    /\ Level(p[1], p[2], A) # 65

Links(A) ==
    {[asset |-> p[1], vm |-> p[2],
      status |-> IF Confirmed(p, A) THEN "confirmed" ELSE "proposed"] : p \in LinkedPairs(A)}
=============================================================================
