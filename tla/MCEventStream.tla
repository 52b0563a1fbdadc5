---------------------------- MODULE MCEventStream ----------------------------
(* EventStream with a channel that overflows after a few events. *)
EXTENDS EventStream
=============================================================================
