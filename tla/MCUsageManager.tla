--------------------------- MODULE MCUsageManager ---------------------------
(***************************************************************************)
(* Small instances of UsageManager for TLC.                                *)
(***************************************************************************)
EXTENDS UsageManager
=============================================================================
