------------------------------ MODULE MCTokens ------------------------------
(* Model-checking instance of Tokens.                                      *)
EXTENDS Tokens, TLC

MCSymmetry == Permutations(User) \union Permutations(Sid) \union Permutations(Req)
=============================================================================
