--------------------------- MODULE MCTaskAdoption ---------------------------
(* TaskAdoption for TLC: the replicas are interchangeable.  (The executors  *)
(* are not: a new one is a fixed choice among the idle.)                    *)
EXTENDS TaskAdoption, TLC

Symmetry == Permutations(Replicas)
=============================================================================
