--------------------------- MODULE MCSqliteCatalog ---------------------------
(* Small instances of SqliteCatalog for TLC. *)
EXTENDS SqliteCatalog, TLC

(* The names of user tables are interchangeable, but not with those of views *)
(* (safety runs only).                                                     *)
Symmetry == Permutations(Tables \ Views)
=============================================================================
