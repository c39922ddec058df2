------------------------- MODULE MCSqliteTransactions -------------------------
(* Instances of SqliteTransactions for TLC. *)
EXTENDS SqliteTransactions, TLC

Symmetry == Permutations(Calls)
=============================================================================
