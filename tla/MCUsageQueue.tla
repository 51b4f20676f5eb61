---------------------------- MODULE MCUsageQueue ----------------------------
(***************************************************************************)
(* A small instance of UsageQueue for TLC.                                 *)
(***************************************************************************)
EXTENDS UsageQueue
=============================================================================
