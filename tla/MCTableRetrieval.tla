-------------------------- MODULE MCTableRetrieval --------------------------
(* Small instances of TableRetrieval for TLC. *)
EXTENDS TableRetrieval, TLC

(* Views and threads are interchangeable (safety runs only). *)
Symmetry == Permutations(Views) \cup Permutations(Threads)
=============================================================================
