------------------------- MODULE MCClusterAccounting -------------------------
(* Model values for ClusterAccounting; machines and handlers are interchangeable. *)
EXTENDS ClusterAccountingRefinement, TLC

Symmetry == Permutations(Machines) \union Permutations(Callers)
=============================================================================
