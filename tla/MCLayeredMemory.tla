-------------------------- MODULE MCLayeredMemory --------------------------
(* Small instances of LayeredMemory. *)
EXTENDS LayeredMemory
=============================================================================
