--------------------------- MODULE MCPolyLedgerFile ---------------------------
(* Instances of PolyLedgerFile small enough for TLC: the .cfg files file_*.cfg. *)
EXTENDS PolyLedgerFile, TLC

\* Neither the ids nor the files are told apart.
Symmetry == Permutations(Ids) \cup Permutations(Inodes)
=============================================================================
