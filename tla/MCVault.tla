------------------------------ MODULE MCVault ------------------------------
(* A small instance of Vault for TLC. *)
EXTENDS Vault, TLC

\* Requests are interchangeable, and so are names.
MCSymmetry == Permutations(Request) \union Permutations(Name)
=============================================================================
