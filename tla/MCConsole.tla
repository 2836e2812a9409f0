----------------------------- MODULE MCConsole -----------------------------
(* An instance of Console for TLC.  Rows are alike.                        *)
EXTENDS Console, TLC

Symmetry == Permutations(Rows)
=============================================================================
