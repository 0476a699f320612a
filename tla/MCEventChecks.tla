---------------------------- MODULE MCEventChecks ----------------------------
(***************************************************************************)
(* EventChecks by itself, for the question whether a check that passes has *)
(* seen what it is named for.                                              *)
(***************************************************************************)
EXTENDS EventChecks
=============================================================================
