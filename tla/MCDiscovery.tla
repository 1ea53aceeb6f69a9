---------------------------- MODULE MCDiscovery ----------------------------
(* Model values for Discovery: the liveness property rules symmetry out. *)
EXTENDS Discovery
=============================================================================
