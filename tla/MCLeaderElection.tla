-------------------------- MODULE MCLeaderElection --------------------------
(* Model values and symmetry for checking LeaderElection with TLC.          *)
EXTENDS LeaderElection, TLC

CONSTANTS e1, e2

TwoEngines == {e1, e2}

(* Permutes the engines; used by the runs without liveness properties.      *)
Symmetry == Permutations(Engine)
=============================================================================
