----------------------------- MODULE MCProvision -----------------------------
(* Provision with model values; the run checks liveness, hence no symmetry. *)
EXTENDS ProvisionRefinement
=============================================================================
