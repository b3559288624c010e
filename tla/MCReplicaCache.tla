--------------------------- MODULE MCReplicaCache ---------------------------
(* ReplicaCache for TLC: replicas and calls are interchangeable.            *)
EXTENDS ReplicaCache, TLC

Symmetry == Permutations(Replicas) \cup Permutations(Calls) \cup Permutations(Waiters)
=============================================================================
