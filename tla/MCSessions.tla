----------------------------- MODULE MCSessions -----------------------------
(* Model-checking instances of Sessions.                                   *)
EXTENDS Sessions, TLC

MCSymmetry ==
    Permutations(User) \union Permutations(Role) \union Permutations(Perm)
        \union Permutations(Sid) \union Permutations(Req)
=============================================================================
