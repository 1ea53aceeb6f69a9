---------------------------- MODULE MCEventSink ----------------------------
(* EventSink with model values; the runs check liveness, hence no symmetry. *)
EXTENDS EventSink
=============================================================================
