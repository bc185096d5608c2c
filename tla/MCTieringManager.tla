--------------------------- MODULE MCTieringManager ---------------------------
(* Values of the constants of TieringManager for TLC. *)
EXTENDS TieringManager

CONSTANTS ka, kb, r1, t1
=============================================================================
