---------------------------- MODULE MCSideroLink ----------------------------
(* Model values for SideroLink: the liveness property rules symmetry out. *)
EXTENDS SideroLink, TLC
=============================================================================
