--------------------------- MODULE MCHomeLifetime ---------------------------
(***************************************************************************)
(* Small instances of HomeLifetime for TLC.                                *)
(***************************************************************************)
EXTENDS HomeLifetime

\* The supervisor's calls for two lifetimes.
MCCallers == -1..1
=============================================================================
