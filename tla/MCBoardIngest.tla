---------------------------- MODULE MCBoardIngest ----------------------------
(* Instances of BoardIngest for TLC.                                         *)
EXTENDS BoardIngest, TLC

CONSTANTS p1, p2, e1, e2, x1, t1, t2

\* Every follow-up acts on p1; p2 is there to push p1 out of the board.
OnFirst == [f \in Followups |-> p1]
Times == p1 :> 1 @@ p2 :> 2 @@ e1 :> 3 @@ e2 :> 4 @@ x1 :> 5
InOrderOfMaking == [e \in Events |-> Times[e]]
SameTask == Permutations(Tasks)
=============================================================================
