------------------------------- MODULE MCSeed -------------------------------
(* Authorization with the routes and the seed data of the repository.      *)
EXTENDS Routes, Integers

CONSTANTS User, Admin, RoleId, RoleName, SuperAdmin, MaxEdits, None

VARIABLES code, drawn, role, roles, active, rule, keyPerms, session, ruleCache,
          keyCache, edits, staleUsers, staleRules, staleKey, everGranted,
          everRequired, denotes, seeded

INSTANCE Authorization WITH
    Code <- SEED_PERMISSIONS,
    Gen <- {0},
    Key <- EndpointKeys \union {e[1] : e \in SEED_EPR},
    SeedPermissions <- SEED_PERMISSIONS,
    SeedRules <- [k \in {e[1] : e \in SEED_EPR} |->
                    CHOOSE c \in SEED_PERMISSIONS : <<k, c>> \in SEED_EPR]

\* After seeding an empty database, with the caches rebuilt and the admin
\* logged in, AuthGuard lets the admin pass at every route it guards.
SeedOpensEveryRoute ==
    seeded /\ session[Admin] # None /\ Admin \notin staleUsers /\ staleRules = {} =>
        \A r \in AllRoutes : r.guard = "AuthGuard" /\ r.key # "none" =>
            AuthGuard(Admin, r.key)
=============================================================================
