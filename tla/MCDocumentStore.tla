---------------------------- MODULE MCDocumentStore ----------------------------
(* DocumentStore on small instances. *)
EXTENDS DocumentStore, TLC

(* Requests of a kind, and workers, are interchangeable: sound for the     *)
(* safety properties, so used only in the runs without liveness.           *)
Symmetry == Permutations(Deleter) \cup Permutations(Reader) \cup Permutations(Worker)
================================================================================
