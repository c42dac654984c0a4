---------------------------- MODULE MCPeerSessions ----------------------------
(* Instances of PeerSessions for TLC.                                        *)
EXTENDS PeerSessions

CONSTANTS k1, k2, k3, k4

\* Two of the peers nobody listed go by one origin.
SharedOrigin == [k \in Keys |-> IF k = k4 THEN k2 ELSE k]
=============================================================================
