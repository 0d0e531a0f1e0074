----------------------------- MODULE MCUiRouting -----------------------------
(* One session of the debug server, with one request at a time or several. *)
EXTENDS UiRouting
=============================================================================
