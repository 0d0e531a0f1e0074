--------------------------- MODULE MCGraphBuilder ---------------------------
(* Three nodes; a first file of up to three of them in any order, or of two *)
(* with one id, and of at most one edge in every mode; a file of one node   *)
(* that breaks off, before or after the first edit; three edits in any      *)
(* order with the validation requests they cause.                           *)
EXTENDS GraphBuilder, TLC

CONSTANTS n1, n2, n3

MCNodes  == {n1, n2, n3}
Symmetry == Permutations(MCNodes)
=============================================================================
