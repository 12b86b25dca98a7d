---------------------------- MODULE MCDriverStop ----------------------------
(***************************************************************************)
(* DriverStop for TLC: three threads that share a Driver, one process the  *)
(* leader may fork.                                                        *)
(***************************************************************************)
EXTENDS DriverStop, TLC
=============================================================================
