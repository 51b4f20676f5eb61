------------------------- MODULE MCUsageAggregation -------------------------
(***************************************************************************)
(* Small instances of UsageAggregation for TLC.                            *)
(***************************************************************************)
EXTENDS UsageAggregation
=============================================================================
