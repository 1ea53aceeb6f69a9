-------------------------- MODULE MCNodeLifecycle --------------------------
(* Model values for NodeLifecycle; callers and images are interchangeable. *)
EXTENDS NodeLifecycle, TLC

Symmetry == Permutations(Callers) \union Permutations(Images)
=============================================================================
