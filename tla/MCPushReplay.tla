---------------------------- MODULE MCPushReplay ----------------------------
(* Instances of PushReplay for TLC. *)
EXTENDS PushReplay, TLC

\* Sessions, and events of one kind, are interchangeable.
Symmetry ==
  Permutations(Sessions) \cup Permutations(Casts) \cup Permutations(Dms)
=============================================================================
