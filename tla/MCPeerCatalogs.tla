---------------------------- MODULE MCPeerCatalogs ----------------------------
EXTENDS PeerCatalogs, TLC

CONSTANTS k1, k2, l1, l2
\* Each peer has a link; one of them this burrow dials.
TwoPeers == (l1 :> k1) @@ (l2 :> k2)
\* One of them changes what it lists.
Gens == (k1 :> 2) @@ (k2 :> 1)
OriginSymmetry == Permutations(Origins)
=============================================================================
