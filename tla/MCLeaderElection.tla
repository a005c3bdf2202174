-------------------------- MODULE MCLeaderElection --------------------------
(* Small instances of LeaderElection.                                        *)
EXTENDS LeaderElection, TLC

CONSTANTS a, b, c, p, q, r

TwoReplicas == {a, b}
ThreeReplicas == {a, b, c}
OneProcess == {p}
TwoProcesses == {p, q}
ThreeProcesses == {p, q, r}

BothElect == a :> "election" @@ b :> "election"
EachMode == a :> "assumed" @@ b :> "election" @@ c :> "read-only"

Prompt == a :> 1 @@ b :> 1
SlowA == a :> 2 @@ b :> 1
SlowB == a :> 1 @@ b :> 2 @@ c :> 1

ReplicaSymmetry == Permutations(Instance) \cup Permutations(Pid)
=============================================================================
