------------------------------ MODULE MCSessions ------------------------------
(* Sessions on small instances. *)
EXTENDS Sessions, TLC

(* Logins, tokens and requests of a kind are interchangeable. *)
Symmetry == Permutations(Login) \cup Permutations(Token)
              \cup Permutations(Registration) \cup Permutations(Authentication)
              \cup Permutations(Logout)
================================================================================
