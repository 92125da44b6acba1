-------------------------- MODULE MCAdministration --------------------------
(* A small instance of Administration for TLC. *)
EXTENDS Administration, TLC

MCSymmetry == Permutations(Request) \union Permutations(Code)
=============================================================================
