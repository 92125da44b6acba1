----------------------------- MODULE MCBindings -----------------------------
(* A small instance of Bindings for TLC. *)
EXTENDS Bindings, TLC

MCSymmetry == Permutations(Request)
=============================================================================
