------------------------- MODULE MCKubernetesNode --------------------------
(* Model values for KubernetesNode; no symmetry, the run checks liveness. *)
EXTENDS KubernetesNode
=============================================================================
