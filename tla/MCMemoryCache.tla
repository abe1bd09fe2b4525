----------------------------- MODULE MCMemoryCache -----------------------------
(* MemoryCache on small instances. *)
EXTENDS MemoryCache, TLC

(* Keys, tags and calls of Set are interchangeable. *)
Symmetry == Permutations(CacheKey) \cup Permutations(Tag) \cup Permutations(Setter)
================================================================================
