----------------------------- MODULE MCFloodFill -----------------------------
(* Instances of FloodFill for TLC.                                           *)
EXTENDS FloodFill

CONSTANTS a, b, c, d

Pair == {<<a, b>>}
Ring == {<<a, b>>, <<b, c>>, <<c, a>>}
RingAndTail == Ring \cup {<<b, d>>}
AllFromA == [e \in Events |-> a]
\* The first event is larger than the others.
Sizes == [e \in Events |-> IF e = 1 THEN 2 ELSE 1]
TrustAll == [n \in Nodes |-> Nodes]
\* d has not pinned a's key.
NotD == [n \in Nodes |-> IF n = d THEN {b} ELSE Nodes]
=============================================================================
