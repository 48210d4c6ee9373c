------------------------------ MODULE TokensMC ------------------------------
(* An instance of Tokens for TLC. *)
EXTENDS Tokens, TLC

Symmetry == Permutations(Threads)
=============================================================================
