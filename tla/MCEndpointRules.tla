-------------------------- MODULE MCEndpointRules ---------------------------
(* Model-checking instances of EndpointRules.                              *)
EXTENDS EndpointRules, TLC

MCSymmetry ==
    Permutations(Rule) \union Permutations(Name) \union Permutations(Perm)
        \union Permutations(Req)
=============================================================================
