--------------------------- MODULE MCVxi11Abort ---------------------------
(* Constants for Vxi11Abort: see the .cfg files.                           *)
EXTENDS Vxi11Abort
CONSTANTS c1, c2, a1

OneConn == {c1}
TwoConns == {c1, c2}
OneAborter == {a1}
=============================================================================
