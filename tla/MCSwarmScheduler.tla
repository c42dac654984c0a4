-------------------------- MODULE MCSwarmScheduler --------------------------
(* Small instances of SwarmScheduler. *)
EXTENDS SwarmScheduler, TLC

CONSTANTS s1, s2

OneLaneEach == [s \in Sources |-> 1]
TwoLanesOnFirst == [s \in Sources |-> IF s = s1 THEN 2 ELSE 1]
UnitSymmetry == Permutations(Units)

\* One fetch from an empty disk, never killed.
OneFetch ==
  \/ \E w \in Workers : WorkerStep(w) \/ SourceLetGo(w) \/ IdleLimit(w)
  \/ FetchStep
  \/ main = "idle" /\ StartFetch
  \/ Cancel

OneFetchSpec == Init /\ [][OneFetch]_vars
FairOneFetchSpec == OneFetchSpec /\ Fairness
=============================================================================
