--------------------------- MODULE MCEtcdMembership ---------------------------
(* EtcdMembership with model values; the runs check liveness, hence no symmetry. *)
EXTENDS EtcdMembership
=============================================================================
