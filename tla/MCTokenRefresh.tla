--------------------------- MODULE MCTokenRefresh ---------------------------
(***************************************************************************)
(* A small instance of TokenRefresh for TLC.  The editors are alike and no *)
(* liveness is checked.                                                    *)
(***************************************************************************)
EXTENDS TokenRefresh, TLC

Symmetry == Permutations(Editors)
=============================================================================
