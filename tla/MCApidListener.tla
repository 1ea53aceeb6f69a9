--------------------------- MODULE MCApidListener ---------------------------
(* ApidListener with model values; no symmetry, the run checks liveness. *)
EXTENDS ApidListener
=============================================================================
