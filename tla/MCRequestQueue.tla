--------------------------- MODULE MCRequestQueue ---------------------------
(***************************************************************************)
(* Instances of RequestQueue for TLC.                                      *)
(***************************************************************************)
EXTENDS RequestQueue, TLC

\* Every request names the first tool.
MCToolOf == [r \in Requests |-> CHOOSE t \in Tools : TRUE]

\* What the providers of the client libraries send: running, then results.
MCProviderStatuses == {NoStatus, "running", "done", "failure"}

MCSymmetry == Permutations(Machines)
=============================================================================
