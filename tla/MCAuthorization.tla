-------------------------- MODULE MCAuthorization --------------------------
(* Model-checking instance of Authorization: two codes, one of them seeded *)
(* and required by the seeded rule.                                        *)
EXTENDS Authorization, TLC

MCSeedRules == [k \in {"users.find"} |-> "USERS_READ"]
MCSymmetry == Permutations(RoleId)
=============================================================================
