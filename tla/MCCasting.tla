----------------------------- MODULE MCCasting -----------------------------
(* An instance of Casting for TLC. *)
EXTENDS Casting, TLC

Symmetry == Permutations(Users) \cup Permutations(Characters \ Cast)
=============================================================================
