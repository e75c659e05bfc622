----------------------------- MODULE MCLibrary -----------------------------
(* An instance of Library for TLC. *)
EXTENDS Library, TLC

Symmetry == Permutations(Clients) \cup Permutations(Sessions) \cup Permutations(Contents)
=============================================================================
