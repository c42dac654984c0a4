---------------------------- MODULE MCRemotePulls ----------------------------
EXTENDS RemotePulls, TLC

CONSTANTS g1, g2

\* The first lapses while the second still stands.
Lapses == g1 :> 1 @@ g2 :> 2
OnePerson == [j \in Jobs |-> "ann"]
OneSender == [x \in Grants |-> "bob"]
TwoAndOne == g1 :> 2 @@ g2 :> 1
TheSecond == {<<g1, 2>>}
JobSymmetry == Permutations(Jobs)
=============================================================================
