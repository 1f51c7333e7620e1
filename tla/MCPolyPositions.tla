--------------------------- MODULE MCPolyPositions ---------------------------
(* Instances of PolyPositions small enough for TLC: the .cfg files poly_*.cfg. *)
EXTENDS PolyPositions
=============================================================================
