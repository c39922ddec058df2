----------------------------- MODULE MCMainFrame -----------------------------
(* Small instances of MainFrame for TLC. *)
EXTENDS MainFrame, TLC

(* Databases, threads and documents are interchangeable (safety run only). *)
Symmetry == Permutations(Databases) \cup Permutations(Pollers)
              \cup Permutations(Docs)
=============================================================================
