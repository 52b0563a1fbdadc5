---------------------------- MODULE MCConnection ----------------------------
(* Connection, with a few pieces of output. *)
EXTENDS Connection
=============================================================================
