------------------------------ MODULE MCRebalance ------------------------------
(* Instances of Rebalance small enough for TLC: the .cfg files rebal_*.cfg. *)
EXTENDS Rebalance
=============================================================================
