------------------------- MODULE MCHomeGenerations -------------------------
(***************************************************************************)
(* Small instances of HomeGenerations for TLC.                             *)
(***************************************************************************)
EXTENDS HomeGenerations
=============================================================================
