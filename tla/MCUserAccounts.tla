--------------------------- MODULE MCUserAccounts ---------------------------
(* Model-checking instances of UserAccounts.                               *)
EXTENDS UserAccounts, TLC

MCSymmetry == Permutations(User) \union Permutations(Token) \union Permutations(Req)
=============================================================================
