------------------------------ MODULE Replication ------------------------------
(***************************************************************************)
(* What the federation of burrows promises about board events: an event    *)
(* is authored once, at its origin; from there it is only ever copied,     *)
(* from a burrow that holds it to a linked burrow that trusts its origin.  *)
(* FloodFill implements this.                                              *)
(***************************************************************************)
CONSTANTS Nodes, Events, OriginOf, Sides, Trusts

VARIABLE holds   \* the board events each burrow has stored

Init == holds = [n \in Nodes |-> {}]

Trusted(n, e) == OriginOf[e] = n \/ OriginOf[e] \in Trusts[n]

Author(n, e) ==
  /\ OriginOf[e] = n
  /\ \A m \in Nodes : e \notin holds[m]
  /\ holds' = [holds EXCEPT ![n] = @ \cup {e}]

Copy(s, e) ==
  /\ e \in holds[s[2]]
  /\ Trusted(s[1], e)
  /\ holds' = [holds EXCEPT ![s[1]] = @ \cup {e}]

Next ==
  \/ \E n \in Nodes, e \in Events : Author(n, e)
  \/ \E s \in Sides, e \in Events : Copy(s, e)

Spec == Init /\ [][Next]_holds
=============================================================================
