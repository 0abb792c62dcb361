---------------------------- MODULE Authorization ----------------------------
(***************************************************************************)
(* Who may call what: the composition of the permission catalogue, roles,  *)
(* accounts, endpoint rules, the API key, the seed and the guards.         *)
(*                                                                         *)
(* Postgres relates roles, rules and API keys to permissions by id, the    *)
(* guards compare codes, and both sides of the comparison are cached in    *)
(* Redis: the session holds the codes of the caller, epr:<key> the codes   *)
(* that the endpoint asks for.  Here every action is a whole request, one  *)
(* at a time and without failures; what interleaves inside the caches is   *)
(* in Sessions, ApiKeys and EndpointRules.                                 *)
(***************************************************************************)
EXTENDS Integers

CONSTANTS
    User, Admin,     \* accounts, and the one the seed looks after
    Code, Gen,       \* permission codes; tells apart permissions first named alike
    RoleId, RoleName, SuperAdmin,
    Key,             \* values of @EndpointKey and of endpoint_key_name
    SeedPermissions, \* SEED_PERMISSIONS: a set of codes
    SeedRules,       \* SEED_EPR: a function from keys to codes
    MaxEdits,        \* bound: changes to the tables
    None

PermId == Code \X Gen
Role == [name : RoleName, perms : SUBSET PermId]
Rule == [enabled : BOOLEAN, perms : SUBSET PermId]

ASSUME AuthorizationConstants ==
    /\ Admin \in User
    /\ SuperAdmin \in RoleName
    /\ SeedPermissions \subseteq Code
    /\ SeedRules \in [DOMAIN SeedRules -> SeedPermissions]
    /\ DOMAIN SeedRules \subseteq Key
    /\ MaxEdits \in Nat
    /\ None \notin Code /\ None \notin Role /\ None \notin Rule
    /\ \A R \in SUBSET RoleId : None # R
    /\ \A C \in SUBSET Code : None # C

VARIABLES
    code,       \* code[i]: column code of permission i, None when there is no row
    drawn,      \* permission ids given out so far; an uuid is never drawn twice
    role,       \* role[r]: name and relation permissions, or None
    roles,      \* roles[u]: relation roles of the account, None when there is none
    active,     \* accounts with status ACTIVE
    rule,       \* rule[k]: the rule with endpoint_key_name k, or None
    keyPerms,   \* relation permissions of the API key
    session,    \* session[u]: codes in the session of u, None when not logged in
    ruleCache,  \* ruleCache[k]: codes in epr:k, None when missing
    keyCache,   \* codes in api_key:fp:<fingerprint>, None when missing
    edits,
    \* Histories: caches that an operation left behind the tables,
    staleUsers, staleRules, staleKey,
    \* ids a user was ever granted and a rule ever asked for, ids a code ever
    \* stood for, and whether the tables are as the seed left them.
    everGranted, everRequired, denotes, seeded

catalogue == <<code, drawn, denotes>>
accounts == <<roles, active>>
caches == <<session, ruleCache, keyCache>>
stale == <<staleUsers, staleRules, staleKey>>
vars == <<code, drawn, role, roles, active, rule, keyPerms, session, ruleCache,
          keyCache, edits, staleUsers, staleRules, staleKey, everGranted,
          everRequired, denotes, seeded>>

\* An empty database, an API key that may do nothing, empty caches.
Init ==
    /\ code = [i \in PermId |-> None]
    /\ drawn = {}
    /\ role = [r \in RoleId |-> None]
    /\ roles = [u \in User |-> None]
    /\ active = {}
    /\ rule = [k \in Key |-> None]
    /\ keyPerms = {}
    /\ session = [u \in User |-> None]
    /\ ruleCache = [k \in Key |-> None]
    /\ keyCache = None
    /\ edits = 0
    /\ staleUsers = {}
    /\ staleRules = {}
    /\ staleKey = FALSE
    /\ everGranted = [u \in User |-> {}]
    /\ everRequired = [k \in Key |-> {}]
    /\ denotes = [c \in Code |-> {}]
    /\ seeded = FALSE

-----------------------------------------------------------------------------
(* Reading the tables.                                                     *)

Permissions == {i \in PermId : code[i] # None}
RolesInUse == {r \in RoleId : role[r] # None}
IsFree(c) == \A i \in PermId : code[i] # c
IsNew(name) == \A r \in RolesInUse : role[r].name # name

\* The codes of a set of permissions: permissionCodes of a rule or an API key.
CodesOf(P) == {code[i] : i \in P}

\* The permissions of all roles of the user, and permissionCodes of the user.
OfRoles(R) == UNION {role[r].perms : r \in R}
Granted(u) == IF roles[u] = None THEN {} ELSE OfRoles(roles[u])
permissionCodes(u) == CodesOf(Granted(u))

WithRole(r) == {u \in User : roles[u] # None /\ r \in roles[u]}
EnabledRules == {k \in Key : rule[k] # None /\ rule[k].enabled}

Edit ==
    /\ edits < MaxEdits
    /\ edits' = edits + 1
    /\ seeded' = FALSE

\* The histories follow the tables.
Record ==
    /\ everGranted' = [u \in User |-> everGranted[u] \union Granted(u)']
    /\ everRequired' = [k \in Key |->
            everRequired[k] \union IF rule'[k] = None THEN {} ELSE rule'[k].perms]
    /\ denotes' = [c \in Code |-> denotes[c] \union {i \in PermId : code'[i] = c}]

-----------------------------------------------------------------------------
(* PermissionsService: no cache is touched.                                *)

\* The id of a new permission whose code is c.
CanDraw(c) == \E n \in Gen : <<c, n>> \notin drawn
FreshId(c) == <<c, CHOOSE n \in Gen : <<c, n>> \notin drawn>>

CreatePermission(c) ==
    /\ Edit
    /\ IsFree(c)
    /\ CanDraw(c)
    /\ code' = [code EXCEPT ![FreshId(c)] = c]
    /\ drawn' = drawn \union {FreshId(c)}
    /\ UNCHANGED <<role, accounts, rule, keyPerms, caches, stale>>
    /\ Record

\* Caches that hold the code of permission i.
Outdated(i) ==
    /\ staleUsers' = staleUsers \union {u \in User : i \in Granted(u)}
    /\ staleRules' = staleRules \union {k \in EnabledRules : i \in rule[k].perms}
    /\ staleKey' = (staleKey \/ i \in keyPerms)

\* A new code, which IsUniquePermissionCode and UQ_permission_code let through.
UpdatePermission(i, c) ==
    /\ Edit
    /\ i \in Permissions
    /\ IsFree(c)
    /\ code' = [code EXCEPT ![i] = c]
    /\ Outdated(i)
    /\ UNCHANGED <<drawn, role, accounts, rule, keyPerms, caches>>
    /\ Record

Without(i, row) == IF row = None THEN None ELSE [row EXCEPT !.perms = @ \ {i}]

\* Mutant of DeletePermission: the rows that relate rules to it stay behind.
DeletePermissionOnly(i) ==
    /\ Edit
    /\ i \in Permissions
    /\ code' = [code EXCEPT ![i] = None]
    /\ role' = [r \in RoleId |-> Without(i, role[r])]
    /\ keyPerms' = keyPerms \ {i}
    /\ Outdated(i)
    /\ UNCHANGED <<drawn, accounts, rule, caches>>
    /\ Record

\* remove() takes the rows of the junction tables along.
DeletePermission(i) ==
    /\ Edit
    /\ i \in Permissions
    /\ code' = [code EXCEPT ![i] = None]
    /\ role' = [r \in RoleId |-> Without(i, role[r])]
    /\ rule' = [k \in Key |-> Without(i, rule[k])]
    /\ keyPerms' = keyPerms \ {i}
    /\ Outdated(i)
    /\ UNCHANGED <<drawn, accounts, caches>>
    /\ Record

-----------------------------------------------------------------------------
(* RolesService                                                            *)

CreateRole(r, name) ==
    /\ Edit
    /\ r \notin RolesInUse
    /\ IsNew(name)
    /\ role' = [role EXCEPT ![r] = [name |-> name, perms |-> {}]]
    /\ UNCHANGED <<code, drawn, accounts, rule, keyPerms, caches, stale>>
    /\ Record

UpdateRole(r, name) ==
    /\ Edit
    /\ r \in RolesInUse
    /\ IsNew(name)
    /\ role' = [role EXCEPT ![r].name = name]
    /\ UNCHANGED <<code, drawn, accounts, rule, keyPerms, caches, stale>>
    /\ Record

\* No session is refreshed.
DeleteRole(r) ==
    /\ Edit
    /\ r \in RolesInUse
    /\ role' = [role EXCEPT ![r] = None]
    /\ roles' = [u \in User |-> IF roles[u] = None THEN None ELSE roles[u] \ {r}]
    /\ staleUsers' = staleUsers \union WithRole(r)
    /\ UNCHANGED <<code, drawn, active, rule, keyPerms, caches, staleRules, staleKey>>
    /\ Record

\* Mutant of AssignPermissions: the sessions of everybody are written.
AssignPermissionsToAll(r, Q) ==
    /\ Edit
    /\ r \in RolesInUse
    /\ Q \subseteq Permissions
    /\ role' = [role EXCEPT ![r].perms = Q]
    /\ session' = [u \in User |-> IF session[u] = None THEN None ELSE CodesOf(Q)]
    /\ staleUsers' = User
    /\ UNCHANGED <<code, drawn, accounts, rule, keyPerms, ruleCache, keyCache,
                   staleRules, staleKey>>
    /\ Record

\* refreshSessionPermissionsByRole writes the codes of this role only, so the
\* session of a user with a second role is left behind.
AssignPermissions(r, Q) ==
    /\ Edit
    /\ r \in RolesInUse
    /\ Q \subseteq Permissions
    /\ role' = [role EXCEPT ![r].perms = Q]
    /\ session' = [u \in User |->
            IF session[u] # None /\ u \in WithRole(r) THEN CodesOf(Q) ELSE session[u]]
    /\ staleUsers' = {u \in staleUsers \union WithRole(r) : roles[u] # {r}}
    /\ UNCHANGED <<code, drawn, accounts, rule, keyPerms, ruleCache, keyCache,
                   staleRules, staleKey>>
    /\ Record

-----------------------------------------------------------------------------
(* UsersService                                                            *)

\* register: the account is PENDING.
Register(u, R) ==
    /\ Edit
    /\ roles[u] = None
    /\ R \subseteq RolesInUse
    /\ roles' = [roles EXCEPT ![u] = R]
    /\ UNCHANGED <<code, drawn, role, active, rule, keyPerms, caches, stale>>
    /\ Record

SetSession(u, codes) ==
    /\ session' = [session EXCEPT ![u] = codes]
    /\ staleUsers' = staleUsers \ {u}
    /\ UNCHANGED <<ruleCache, keyCache, staleRules, staleKey>>

AssignRole(u, R) ==
    /\ Edit
    /\ roles[u] # None
    /\ R \subseteq RolesInUse
    /\ roles' = [roles EXCEPT ![u] = R]
    /\ SetSession(u, IF session[u] = None THEN None ELSE CodesOf(OfRoles(R)))
    /\ UNCHANGED <<code, drawn, role, active, rule, keyPerms>>
    /\ Record

\* firstActivation, activate and deactivate: the session stays.
SetStatus(u) ==
    /\ Edit
    /\ roles[u] # None
    /\ active' = IF u \in active THEN active \ {u} ELSE active \union {u}
    /\ UNCHANGED <<code, drawn, role, roles, rule, keyPerms, caches, stale>>
    /\ Record

tables == <<catalogue, role, accounts, rule, keyPerms, edits, everGranted,
            everRequired, seeded>>

LogIn(u) ==
    /\ roles[u] # None
    /\ u \in active
    /\ SetSession(u, permissionCodes(u))
    /\ UNCHANGED tables

Refresh(u) ==
    /\ session[u] # None
    /\ SetSession(u, permissionCodes(u))
    /\ UNCHANGED tables

LogOut(u) ==
    /\ session[u] # None
    /\ SetSession(u, None)
    /\ UNCHANGED tables

-----------------------------------------------------------------------------
(* EndpointPermissionRulesService                                          *)

\* A change of rule k, followed by loadRuleToRedis or invalidateRuleCache.
ChangeRule(k, row) ==
    /\ Edit
    /\ rule' = [rule EXCEPT ![k] = row]
    /\ ruleCache' = [ruleCache EXCEPT ![k] =
            IF row # None /\ row.enabled THEN CodesOf(row.perms) ELSE None]
    /\ staleRules' = staleRules \ {k}
    /\ UNCHANGED <<code, drawn, role, accounts, keyPerms, session, keyCache,
                   staleUsers, staleKey>>
    /\ Record

\* A rule without permissions asks for none.
CreateRule(k) ==
    /\ rule[k] = None
    /\ ChangeRule(k, [enabled |-> TRUE, perms |-> {}])

AssignRulePermissions(k, Q) ==
    /\ rule[k] # None
    /\ Q \subseteq Permissions
    /\ ChangeRule(k, [rule[k] EXCEPT !.perms = Q])

\* enableRule
EnableRule(k) ==
    /\ rule[k] # None
    /\ ~rule[k].enabled
    /\ ChangeRule(k, [rule[k] EXCEPT !.enabled = TRUE])

\* Mutant of DisableRule: the cache keeps the rule.
DisableRuleOnly(k) ==
    /\ Edit
    /\ rule[k] # None
    /\ rule[k].enabled
    /\ rule' = [rule EXCEPT ![k].enabled = FALSE]
    /\ UNCHANGED <<code, drawn, role, accounts, keyPerms, caches, stale>>
    /\ Record

\* disableRule
DisableRule(k) ==
    /\ rule[k] # None
    /\ rule[k].enabled
    /\ ChangeRule(k, [rule[k] EXCEPT !.enabled = FALSE])

DeleteRule(k) ==
    /\ rule[k] # None
    /\ ChangeRule(k, None)

\* update with another endpoint_key_name, which has to be free.
RenameRule(k, name) ==
    /\ Edit
    /\ rule[k] # None
    /\ rule[name] = None
    /\ rule' = [rule EXCEPT ![k] = None, ![name] = rule[k]]
    /\ ruleCache' = [ruleCache EXCEPT ![k] = None, ![name] =
            IF rule[k].enabled THEN CodesOf(rule[k].perms) ELSE None]
    /\ staleRules' = staleRules \ {k, name}
    /\ UNCHANGED <<code, drawn, role, accounts, keyPerms, session, keyCache,
                   staleUsers, staleKey>>
    /\ Record

\* The hourly rebuild: everything tracked is deleted, enabled rules are cached.
Rebuild ==
    /\ ruleCache' = [k \in Key |->
            IF k \in EnabledRules THEN CodesOf(rule[k].perms) ELSE None]
    /\ staleRules' = {}
    /\ UNCHANGED <<tables, session, keyCache, staleUsers, staleKey>>

-----------------------------------------------------------------------------
(* ApiKeysService, for one active key.  The hourly reconciliation removes  *)
(* entries of inactive keys only, so it changes nothing here.              *)

ChangeKeyPermissions(Q) ==
    /\ Edit
    /\ Q \subseteq Permissions
    /\ keyPerms' = Q
    /\ keyCache' = CodesOf(Q)
    /\ staleKey' = FALSE
    /\ UNCHANGED <<code, drawn, role, accounts, rule, session, ruleCache,
                   staleUsers, staleRules>>
    /\ Record

\* onModuleInit of both services.
Restart ==
    /\ ruleCache' = [k \in Key |->
            IF k \in EnabledRules THEN CodesOf(rule[k].perms) ELSE ruleCache[k]]
    /\ keyCache' = CodesOf(keyPerms)
    /\ staleRules' = staleRules \ EnabledRules
    /\ staleKey' = FALSE
    /\ UNCHANGED <<tables, session, staleUsers>>

-----------------------------------------------------------------------------
(* The guards                                                              *)

\* getPermissionsForEndpoint: the cached codes, else those of the rule; None
\* stands for the 404 of a rule that is missing or disabled.
RequiredCodes(k) ==
    IF ruleCache[k] # None THEN ruleCache[k]
    ELSE IF k \in EnabledRules THEN CodesOf(rule[k].perms) ELSE None

\* findActiveByPlainKey
KeyCodes == IF keyCache # None THEN keyCache ELSE CodesOf(keyPerms)

\* An empty list asks for nothing, else one code in common is enough.
Suffices(codes, required) ==
    required # None /\ (required = {} \/ codes \intersect required # {})

\* AuthGuard for a route with this @EndpointKey.
AuthGuard(u, k) == session[u] # None /\ Suffices(session[u], RequiredCodes(k))

\* ApiKeyGuard, and MicroserviceGuard, which wants a session as well.
ApiKeyGuard(k) == Suffices(KeyCodes, RequiredCodes(k))
MicroserviceGuard(u, k) == ApiKeyGuard(k) /\ session[u] # None

\* canDo of UsersService: what other services ask about a code.
canDo(u, c) == session[u] # None /\ c \in session[u]

\* A guarded request fills the caches it missed.
Filled(k) == [ruleCache EXCEPT ![k] = RequiredCodes(k)]

UserRequest(u, k) ==
    /\ session[u] # None
    /\ ruleCache' = Filled(k)
    /\ UNCHANGED <<tables, session, keyCache, stale>>

\* A route of ApiKeyGuard may have no key and so ask for no rule.
KeyRequest(k) ==
    /\ ruleCache' \in {ruleCache, Filled(k)}
    /\ keyCache' = KeyCodes
    /\ UNCHANGED <<tables, session, stale>>

-----------------------------------------------------------------------------
(* SeedService.run: one transaction, no cache is touched.                  *)

\* Permissions, then rules, then SUPER_ADMIN with all permissions there are,
\* then the admin.  codeNow: the table after the upsert of the permissions.
SeedTables(codeNow, all, r) ==
    LET IdOf(c) == {i \in PermId : codeNow[i] = c} IN
    /\ code' = codeNow
    /\ drawn' = drawn \union {i \in PermId : codeNow[i] # None}
    /\ rule' = [k \in Key |->
            IF k \in DOMAIN SeedRules
            THEN [enabled |-> TRUE, perms |-> IdOf(SeedRules[k])] ELSE rule[k]]
    /\ role' = [role EXCEPT ![r] = [name |-> SuperAdmin, perms |-> all]]
    /\ roles' = [roles EXCEPT ![Admin] = {r}]
    /\ active' = active \union {Admin}
    /\ staleUsers' = staleUsers \union {Admin} \union WithRole(r)
    /\ staleRules' = staleRules \union DOMAIN SeedRules
    /\ seeded' = TRUE
    /\ UNCHANGED <<keyPerms, caches, edits, staleKey>>
    /\ Record

\* Upsert on the unique column code: rows that are missing are inserted.
seedPermissions ==
    LET missing == {c \in SeedPermissions : IsFree(c)}
        inserted == {FreshId(c) : c \in missing} IN
    [i \in PermId |-> IF i \in inserted THEN i[1] ELSE code[i]]

\* The role that an upsert on the unique column name leaves as SUPER_ADMIN.
IsUpserted(r) ==
    IF IsNew(SuperAdmin) THEN r \notin RolesInUse
    ELSE r \in RolesInUse /\ role[r].name = SuperAdmin

CanSeed == \A c \in SeedPermissions : IsFree(c) => CanDraw(c)

\* Mutant of Seed: the roles are seeded before the permissions.
SeedRolesFirst(r) ==
    /\ CanSeed
    /\ IsUpserted(r)
    /\ SeedTables(seedPermissions, Permissions, r)

Seed(r) ==
    /\ CanSeed
    /\ IsUpserted(r)
    /\ SeedTables(seedPermissions, {i \in PermId : seedPermissions[i] # None}, r)

-----------------------------------------------------------------------------
Next ==
    \/ \E c \in Code : CreatePermission(c)
    \/ \E i \in Permissions, c \in Code : UpdatePermission(i, c)
    \/ \E i \in Permissions : DeletePermission(i)
    \/ \E r \in RoleId, name \in RoleName : CreateRole(r, name) \/ UpdateRole(r, name)
    \/ \E r \in RolesInUse : DeleteRole(r)
    \/ /\ edits < MaxEdits
       /\ \E Q \in SUBSET Permissions :
            \/ \E r \in RolesInUse : AssignPermissions(r, Q)
            \/ \E k \in Key : AssignRulePermissions(k, Q)
            \/ ChangeKeyPermissions(Q)
    \/ \E u \in User, R \in SUBSET RolesInUse : Register(u, R) \/ AssignRole(u, R)
    \/ \E u \in User : SetStatus(u) \/ LogIn(u) \/ Refresh(u) \/ LogOut(u)
    \/ \E k \in Key : CreateRule(k) \/ EnableRule(k) \/ DisableRule(k) \/ DeleteRule(k)
    \/ \E k, name \in Key : RenameRule(k, name)
    \/ Rebuild \/ Restart
    \/ \E k \in Key : (\E u \in User : UserRequest(u, k)) \/ KeyRequest(k)
    \/ \E r \in RoleId : Seed(r)

Spec == Init /\ [][Next]_vars

-----------------------------------------------------------------------------
(* Properties.                                                             *)

\* Type invariant, with the foreign keys and unique columns of the tables:
\* relations lead to rows that exist, and no code or role name is taken twice.
TypeOK ==
    /\ code \in [PermId -> Code \union {None}]
    /\ Permissions \subseteq drawn /\ drawn \subseteq PermId
    /\ \A i, j \in Permissions : code[i] = code[j] => i = j
    /\ role \in [RoleId -> Role \union {None}]
    /\ \A r \in RolesInUse : role[r].perms \subseteq Permissions
    /\ \A r, s \in RolesInUse : role[r].name = role[s].name => r = s
    /\ roles \in [User -> (SUBSET RoleId) \union {None}]
    /\ \A u \in User : roles[u] # None => roles[u] \subseteq RolesInUse
    /\ active \subseteq User
    /\ rule \in [Key -> Rule \union {None}]
    /\ \A k \in Key : rule[k] # None => rule[k].perms \subseteq Permissions
    /\ keyPerms \subseteq Permissions
    /\ session \in [User -> (SUBSET Code) \union {None}]
    /\ ruleCache \in [Key -> (SUBSET Code) \union {None}]
    /\ keyCache \in (SUBSET Code) \union {None}
    /\ edits \in 0..MaxEdits
    /\ staleUsers \subseteq User /\ staleRules \subseteq Key /\ staleKey \in BOOLEAN
    /\ everGranted \in [User -> SUBSET PermId]
    /\ everRequired \in [Key -> SUBSET PermId]
    /\ denotes \in [Code -> SUBSET PermId]
    /\ seeded \in BOOLEAN

\* The tables, by ids, allow a holder of the permissions P to call k.
TablesAllow(P, k) ==
    k \in EnabledRules /\ (rule[k].perms = {} \/ P \intersect rule[k].perms # {})

\* The guards, which compare cached codes, decide exactly what the tables say
\* by ids, except for a caller or an endpoint whose cache one of the listed
\* operations left behind and no login, refresh, reassignment, rebuild or
\* restart has renewed: a permission renamed or deleted, a role deleted, the
\* permissions of one of several roles assigned, the database seeded.
GuardsFollowTables ==
    /\ \A u \in User \ staleUsers : session[u] # None =>
        /\ \A k \in Key \ staleRules : AuthGuard(u, k) <=> TablesAllow(Granted(u), k)
        /\ \A c \in Code : canDo(u, c) <=> \E i \in Granted(u) : code[i] = c
    /\ ~staleKey => \A k \in Key \ staleRules :
        /\ ApiKeyGuard(k) <=> TablesAllow(keyPerms, k)
        /\ \A u \in User : session[u] # None =>
                (MicroserviceGuard(u, k) <=> TablesAllow(keyPerms, k))

\* Stale codes on either side never lend a user the permission of another: as
\* long as a code has stood for one permission only, a match on it means that
\* the user was granted, and the endpoint asked for, that permission.
NoBorrowedAccess ==
    \A u \in User, k \in Key :
        session[u] # None /\ RequiredCodes(k) # None =>
            \A c \in session[u] \intersect RequiredCodes(k) :
                (\A i, j \in denotes[c] : i = j) =>
                    denotes[c] \intersect everGranted[u] \intersect everRequired[k] # {}

\* Whatever was renamed, deleted, disabled or unassigned before: after the
\* seed has run the admin can log in, and once the admin has logged in again
\* and the rule was cached again AuthGuard lets it pass at every seeded
\* endpoint.
SeedRestoresAdmin ==
    seeded =>
        /\ Admin \in active
        /\ session[Admin] # None /\ Admin \notin staleUsers =>
                \A k \in DOMAIN SeedRules \ staleRules : AuthGuard(Admin, k)
=============================================================================
