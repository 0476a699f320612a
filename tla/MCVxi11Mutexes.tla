-------------------------- MODULE MCVxi11Mutexes --------------------------
(* Constants for Vxi11Mutexes: see the .cfg file.                          *)
EXTENDS Vxi11Mutexes
=============================================================================
