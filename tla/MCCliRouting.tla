---------------------------- MODULE MCCliRouting ----------------------------
(* One session of the command line: a single thread routes its messages. *)
EXTENDS CliRouting
=============================================================================
