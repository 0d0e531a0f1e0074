--------------------------- MODULE MCSharedFiles ---------------------------
(* Two conversations, one counted entry each, all interleavings of their    *)
(* threads, crashes and restarts at every point.                            *)
EXTENDS SharedFiles, TLC

CONSTANTS s1, s2

MCSessions == {s1, s2}
Symmetry   == Permutations(MCSessions)
=============================================================================
