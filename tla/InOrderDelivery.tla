--------------------------- MODULE InOrderDelivery ----------------------------
(***************************************************************************)
(* What the sender and the receiver of the endpoint's events promise        *)
(* together: a log that only grows, of which a prefix is acknowledged; a    *)
(* record is applied when those before it are acknowledged, may be applied  *)
(* again until then, and is acknowledged only once it has been applied.     *)
(***************************************************************************)
EXTENDS Naturals, Sequences

CONSTANTS Records, MaxRecords

VARIABLES log, acked, applied

vars == <<log, acked, applied>>

Init == log = << >> /\ acked = 0 /\ applied = {}

Extend(r) ==
    /\ Len(log) < MaxRecords
    /\ log' = Append(log, r)
    /\ UNCHANGED <<acked, applied>>

Apply(i) ==
    /\ i \in 1 .. Len(log) /\ i <= acked + 1
    /\ applied' = applied \cup {i}
    /\ UNCHANGED <<log, acked>>

Acknowledge ==
    /\ acked + 1 \in applied
    /\ acked' = acked + 1
    /\ UNCHANGED <<log, applied>>

Next == Acknowledge \/ (\E r \in Records : Extend(r)) \/ \E i \in 1 .. Len(log) : Apply(i)

Spec == Init /\ [][Next]_vars
=============================================================================
