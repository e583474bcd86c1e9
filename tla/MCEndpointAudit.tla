-------------------------- MODULE MCEndpointAudit ----------------------------
(* Model values for checking EndpointAudit with TLC. *)
EXTENDS EndpointAudit, TLC
CONSTANTS c1, c2

MCPeer   == {c1}
MCPeers  == {c1, c2}
MCStops  == {"stop3", "stop4", "stop16", "other"}
MCMixed  == {"stop3", "stop4", "stop16", "block"}
=============================================================================
