--------------------------- MODULE MCVxi11Links ---------------------------
(* Constants for Vxi11Links: see the .cfg files.                           *)
EXTENDS Vxi11Links, TLC
CONSTANTS c1, c2

TwoConns == {c1, c2}
Symmetry == Permutations(Conns)
=============================================================================
