----------------------------- MODULE MCCleanupLease -----------------------------
(* CleanupLease on a small instance. *)
EXTENDS CleanupLease, TLC

(* Workers are interchangeable, and so are tasks. *)
Symmetry == Permutations(Worker) \cup Permutations(Task)
================================================================================
