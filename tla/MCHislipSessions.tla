------------------------- MODULE MCHislipSessions -------------------------
(* Constants for HislipSessions: see the .cfg files.                       *)
EXTENDS HislipSessions, TLC
CONSTANTS s1, s2, s3

ThreeSessions == {s1, s2, s3}
TwoSessions == {s1, s2}
Symmetry == Permutations(Sessions)
=============================================================================
