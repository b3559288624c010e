--------------------------- MODULE MCSessionKeys ---------------------------
(* SessionKeys for TLC: the replicas, calls and users are interchangeable. *)
EXTENDS SessionKeys, TLC

Symmetry == Permutations(Replicas) \cup Permutations(Calls) \cup Permutations(Users)
=============================================================================
