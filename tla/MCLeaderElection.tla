-------------------------- MODULE MCLeaderElection --------------------------
(* Small instances of LeaderElection for TLC. *)
EXTENDS LeaderElection, TLC

CONSTANTS i1, i2

TwoInstances == {i1, i2}

InstanceSymmetry == Permutations(TwoInstances)
=============================================================================
