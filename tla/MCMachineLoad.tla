--------------------------- MODULE MCMachineLoad ---------------------------
(***************************************************************************)
(* Instances of MachineLoad for safety: replicas, requests and calls are   *)
(* interchangeable.                                                        *)
(***************************************************************************)
EXTENDS MachineLoad, TLC

Symmetry == Permutations(Replicas) \cup Permutations(Requests) \cup Permutations(Calls)
=============================================================================
