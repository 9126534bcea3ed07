--------------------------- MODULE MCSessionTable ---------------------------
(* Small instances of SessionTable for TLC.                                *)
EXTENDS SessionTable, TLC

Symmetry == Permutations(Threads)
=============================================================================
