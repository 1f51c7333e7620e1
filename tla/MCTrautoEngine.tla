---------------------------- MODULE MCTrautoEngine ----------------------------
(* Instances of TrautoEngine small enough for TLC: the .cfg files engine_*.cfg. *)
EXTENDS TrautoEngine, TLC

\* Neither the brokers nor the symbols are told apart.
Symmetry == Permutations(Brokers) \cup Permutations(Symbols)
=============================================================================
