------------------------------ MODULE MCTokens ------------------------------
(* Tokens with the constants that TLC uses. *)
EXTENDS Tokens, TLC

Symmetry == Permutations(Requests)
=============================================================================
