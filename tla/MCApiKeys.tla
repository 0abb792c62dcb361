----------------------------- MODULE MCApiKeys ------------------------------
(* Model-checking instances of ApiKeys.                                    *)
EXTENDS ApiKeys, TLC

MCSymmetry == Permutations(Key) \union Permutations(Perm) \union Permutations(Req)
=============================================================================
