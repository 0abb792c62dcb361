------------------------- MODULE AuthorizationProofs -------------------------
(***************************************************************************)
(* Theorems about Authorization, for any catalogue, roles, accounts, rules *)
(* and seed data.  The inductive invariant says of each cache that it is   *)
(* current unless it is marked as left behind, of each cached code where   *)
(* it came from, and of a seeded database what it allows the admin.        *)
(***************************************************************************)
EXTENDS Authorization, TLAPS

TablesOK ==
    /\ code \in [PermId -> Code \union {None}]
    /\ Permissions \subseteq drawn /\ drawn \subseteq PermId
    /\ \A i, j \in Permissions : code[i] = code[j] => i = j
    /\ role \in [RoleId -> Role \union {None}]
    /\ \A r \in RolesInUse : role[r].perms \subseteq Permissions
    /\ \A r, s \in RolesInUse : role[r].name = role[s].name => r = s
    /\ roles \in [User -> (SUBSET RoleId) \union {None}]
    /\ \A u \in User : roles[u] # None => roles[u] \subseteq RolesInUse
    /\ active \subseteq User
    /\ rule \in [Key -> Rule \union {None}]
    /\ \A k \in Key : rule[k] # None => rule[k].perms \subseteq Permissions
    /\ keyPerms \subseteq Permissions

CachesTyped ==
    /\ session \in [User -> (SUBSET Code) \union {None}]
    /\ ruleCache \in [Key -> (SUBSET Code) \union {None}]
    /\ keyCache \in (SUBSET Code) \union {None}
    /\ staleUsers \subseteq User /\ staleRules \subseteq Key /\ staleKey \in BOOLEAN

HistoryTyped ==
    /\ everGranted \in [User -> SUBSET PermId]
    /\ everRequired \in [Key -> SUBSET PermId]
    /\ denotes \in [Code -> SUBSET PermId]

CountersTyped == edits \in 0..MaxEdits /\ seeded \in BOOLEAN

LEMMA TypeParts == TypeOK <=> TablesOK /\ CachesTyped /\ HistoryTyped /\ CountersTyped
  BY DEF TypeOK, TablesOK, CachesTyped, HistoryTyped, CountersTyped

\* Only accounts that exist have sessions, and each cache holds the codes of
\* the tables unless an operation left it behind.
SessionCurrent(u) == session[u] # None =>
    roles[u] # None /\ (u \notin staleUsers => session[u] = permissionCodes(u))

RuleCurrent(k) == k \notin staleRules /\ ruleCache[k] # None =>
    k \in EnabledRules /\ ruleCache[k] = CodesOf(rule[k].perms)

KeyCurrent == ~staleKey /\ keyCache # None => keyCache = CodesOf(keyPerms)

CachesOK ==
    /\ \A u \in User : SessionCurrent(u)
    /\ \A k \in Key : RuleCurrent(k)
    /\ KeyCurrent

\* The histories cover the tables.
HistoryOK ==
    /\ \A i \in Permissions : i \in denotes[code[i]]
    /\ \A u \in User : Granted(u) \subseteq everGranted[u]
    /\ \A k \in Key : rule[k] # None => rule[k].perms \subseteq everRequired[k]

\* A cached code has stood for a permission the user was granted, the
\* endpoint asked for.
SessionOrigin(u) == session[u] # None =>
    \A c \in session[u] : denotes[c] \intersect everGranted[u] # {}

RuleOrigin(k) == ruleCache[k] # None =>
    \A c \in ruleCache[k] : denotes[c] \intersect everRequired[k] # {}

OriginOK ==
    /\ \A u \in User : SessionOrigin(u)
    /\ \A k \in Key : RuleOrigin(k)

SeededOK == seeded =>
    /\ Admin \in active
    /\ \A k \in DOMAIN SeedRules : TablesAllow(Granted(Admin), k)

\* The inductive invariant.
Inv == TypeOK /\ CachesOK /\ HistoryOK /\ OriginOK /\ SeededOK

-----------------------------------------------------------------------------
(* What the tables guarantee.                                              *)

LEMMA RoleFacts ==
  ASSUME TablesOK
  PROVE  /\ RolesInUse \subseteq RoleId
         /\ \A r \in RolesInUse : /\ role[r] \in Role
                                  /\ role[r].perms \subseteq Permissions
         /\ \A u \in User : roles[u] # None => roles[u] \subseteq RolesInUse
  BY DEF TablesOK, RolesInUse

LEMMA GrantedTyped ==
  ASSUME TablesOK, NEW u \in User
  PROVE  Granted(u) \subseteq Permissions
  BY RoleFacts DEF Granted, OfRoles

LEMMA CodesTyped ==
  ASSUME TablesOK, NEW P \in SUBSET Permissions
  PROVE  /\ CodesOf(P) \in SUBSET Code
         /\ CodesOf(P) # None
         /\ CodesOf(P) = {} <=> P = {}
<1>1. \A i \in P : code[i] \in Code
  BY DEF TablesOK, Permissions
<1>2. CodesOf(P) \in SUBSET Code
  BY <1>1 DEF CodesOf
<1>3. CodesOf(P) = {} <=> P = {}
  BY DEF CodesOf
<1> QED BY <1>2, <1>3, AuthorizationConstants

\* Codes are unique, so that comparing codes is comparing ids.
LEMMA CodesMeet ==
  ASSUME TablesOK, NEW P \in SUBSET Permissions, NEW Q \in SUBSET Permissions
  PROVE  CodesOf(P) \intersect CodesOf(Q) # {} <=> P \intersect Q # {}
<1>1. ASSUME CodesOf(P) \intersect CodesOf(Q) # {} PROVE P \intersect Q # {}
  <2>1. PICK i \in P, j \in Q : code[i] = code[j]
    BY <1>1 DEF CodesOf
  <2>2. i \in Permissions /\ j \in Permissions
    OBVIOUS
  <2>3. i = j
    BY <2>1, <2>2 DEF TablesOK
  <2> QED BY <2>3
<1>2. ASSUME P \intersect Q # {} PROVE CodesOf(P) \intersect CodesOf(Q) # {}
  BY <1>2 DEF CodesOf
<1> QED BY <1>1, <1>2

LEMMA RuleFacts ==
  ASSUME TablesOK
  PROVE  /\ EnabledRules \subseteq Key
         /\ \A k \in Key : rule[k] # None =>
                /\ rule[k] \in Rule
                /\ rule[k].perms \in SUBSET Permissions
  BY DEF TablesOK, EnabledRules

LEMMA PermissionFacts ==
  ASSUME TablesOK
  PROVE  /\ Permissions \subseteq PermId
         /\ \A i \in Permissions : code[i] \in Code
  BY DEF TablesOK, Permissions

-----------------------------------------------------------------------------
(* From the invariant to the properties.                                   *)

LEMMA RequiredCurrent ==
  ASSUME TypeOK, CachesOK, NEW k \in Key, k \notin staleRules
  PROVE  RequiredCodes(k) = IF k \in EnabledRules THEN CodesOf(rule[k].perms) ELSE None
  BY DEF CachesOK, RuleCurrent, RequiredCodes

LEMMA SufficesIffAllowed ==
  ASSUME TypeOK, CachesOK, NEW k \in Key, k \notin staleRules,
         NEW P \in SUBSET Permissions
  PROVE  Suffices(CodesOf(P), RequiredCodes(k)) <=> TablesAllow(P, k)
<1> TablesOK
  BY TypeParts
<1>1. CASE k \in EnabledRules
  <2>1. rule[k].perms \in SUBSET Permissions
    BY <1>1, RuleFacts DEF EnabledRules
  <2>2. RequiredCodes(k) = CodesOf(rule[k].perms)
    BY <1>1, RequiredCurrent
  <2>3. CodesOf(rule[k].perms) # None
    BY <2>1, CodesTyped
  <2>4. CodesOf(rule[k].perms) = {} <=> rule[k].perms = {}
    BY <2>1, CodesTyped
  <2>5. CodesOf(P) \intersect CodesOf(rule[k].perms) # {} <=> P \intersect rule[k].perms # {}
    BY <2>1, CodesMeet
  <2> QED BY <1>1, <2>2, <2>3, <2>4, <2>5 DEF Suffices, TablesAllow
<1>2. CASE k \notin EnabledRules
  BY <1>2, RequiredCurrent DEF Suffices, TablesAllow
<1> QED BY <1>1, <1>2

LEMMA InvGuards == Inv => GuardsFollowTables
<1> SUFFICES ASSUME Inv PROVE GuardsFollowTables
  OBVIOUS
<1> USE DEF Inv
<1> TablesOK
  BY TypeParts
<1>1. ASSUME NEW u \in User \ staleUsers, session[u] # None, NEW k \in Key \ staleRules
      PROVE  AuthGuard(u, k) <=> TablesAllow(Granted(u), k)
  <2>1. session[u] = CodesOf(Granted(u))
    BY <1>1 DEF CachesOK, SessionCurrent, permissionCodes
  <2>2. Suffices(CodesOf(Granted(u)), RequiredCodes(k)) <=> TablesAllow(Granted(u), k)
    BY <1>1, GrantedTyped, SufficesIffAllowed
  <2> QED BY <1>1, <2>1, <2>2 DEF AuthGuard
<1>2. ASSUME NEW u \in User \ staleUsers, session[u] # None, NEW c \in Code
      PROVE  canDo(u, c) <=> \E i \in Granted(u) : code[i] = c
  <2>1. session[u] = CodesOf(Granted(u))
    BY <1>2 DEF CachesOK, SessionCurrent, permissionCodes
  <2> QED BY <1>2, <2>1 DEF canDo, CodesOf
<1>3. ASSUME ~staleKey, NEW k \in Key \ staleRules
      PROVE  ApiKeyGuard(k) <=> TablesAllow(keyPerms, k)
  <2>1. KeyCodes = CodesOf(keyPerms)
    BY <1>3 DEF KeyCodes, CachesOK, KeyCurrent
  <2>2. keyPerms \in SUBSET Permissions
    BY DEF TablesOK
  <2>3. Suffices(CodesOf(keyPerms), RequiredCodes(k)) <=> TablesAllow(keyPerms, k)
    BY <1>3, <2>2, SufficesIffAllowed
  <2> QED BY <2>1, <2>3 DEF ApiKeyGuard
<1>4. ASSUME ~staleKey, NEW k \in Key \ staleRules, NEW u \in User, session[u] # None
      PROVE  MicroserviceGuard(u, k) <=> TablesAllow(keyPerms, k)
  BY <1>3, <1>4 DEF MicroserviceGuard
<1> QED BY <1>1, <1>2, <1>3, <1>4 DEF GuardsFollowTables

LEMMA InvBorrowed == Inv => NoBorrowedAccess
<1> SUFFICES ASSUME Inv, NEW u \in User, NEW k \in Key,
                    session[u] # None, RequiredCodes(k) # None,
                    NEW c \in session[u] \intersect RequiredCodes(k),
                    \A i, j \in denotes[c] : i = j
             PROVE  denotes[c] \intersect everGranted[u] \intersect everRequired[k] # {}
  BY DEF NoBorrowedAccess
<1> USE DEF Inv
<1> TablesOK
  BY TypeParts
<1>1. denotes[c] \intersect everGranted[u] # {}
  BY DEF OriginOK, SessionOrigin
<1>2. denotes[c] \intersect everRequired[k] # {}
  <2>1. CASE ruleCache[k] # None
    BY <2>1 DEF RequiredCodes, OriginOK, RuleOrigin
  <2>2. CASE ruleCache[k] = None
    <3>1. k \in EnabledRules /\ RequiredCodes(k) = CodesOf(rule[k].perms)
      BY <2>2 DEF RequiredCodes
    <3>2. PICK i \in rule[k].perms : c = code[i]
      BY <3>1 DEF CodesOf
    <3>3. rule[k] # None /\ rule[k].perms \in SUBSET Permissions
      BY <3>1, RuleFacts DEF EnabledRules
    <3>4. i \in denotes[c] /\ i \in everRequired[k]
      BY <3>2, <3>3 DEF HistoryOK
    <3> QED BY <3>4
  <2> QED BY <2>1, <2>2
<1> QED BY <1>1, <1>2

LEMMA InvSeed == Inv => SeedRestoresAdmin
<1> SUFFICES ASSUME Inv, seeded PROVE
        /\ Admin \in active
        /\ session[Admin] # None /\ Admin \notin staleUsers =>
                \A k \in DOMAIN SeedRules \ staleRules : AuthGuard(Admin, k)
  BY DEF SeedRestoresAdmin
<1>1. Admin \in active /\ \A k \in DOMAIN SeedRules : TablesAllow(Granted(Admin), k)
  BY DEF Inv, SeededOK
<1>2. Admin \in User /\ DOMAIN SeedRules \subseteq Key
  BY AuthorizationConstants
<1> QED BY <1>1, <1>2, InvGuards DEF GuardsFollowTables

-----------------------------------------------------------------------------
(* What every step owes.                                                   *)

Grows ==
    /\ \A c \in Code : denotes[c] \subseteq denotes'[c]
    /\ \A u \in User : everGranted[u] \subseteq everGranted'[u]
    /\ \A k \in Key : everRequired[k] \subseteq everRequired'[k]

\* A session or a cached rule is kept, dropped or computed from the tables.
SessionFrom(u) ==
    \/ session'[u] = session[u]
    \/ session'[u] = None
    \/ \E P \in SUBSET Granted(u)' : session'[u] = CodesOf(P)'

RuleFrom(k) ==
    \/ ruleCache'[k] = ruleCache[k]
    \/ ruleCache'[k] = None
    \/ /\ rule'[k] # None
       /\ ruleCache'[k] = CodesOf(rule[k].perms)'

LEMMA HistoryStep ==
  ASSUME TypeOK, TablesOK', Record
  PROVE  HistoryOK' /\ HistoryTyped' /\ Grows
<1>1. \A u \in User : Granted(u)' \subseteq PermId
  BY DEF TablesOK, RolesInUse, Granted, OfRoles, Permissions
<1>2. \A k \in Key : rule'[k] # None => rule'[k].perms \subseteq PermId
  BY DEF TablesOK, Permissions
<1>3. HistoryTyped'
  BY <1>1, <1>2, TypeParts DEF HistoryTyped, Record
<1>4. Grows
  BY TypeParts DEF HistoryTyped, Record, Grows
<1>5. \A i \in Permissions' : i \in PermId /\ code'[i] \in Code
  BY DEF TablesOK, Permissions
<1>6. \A i \in Permissions' : i \in denotes'[code'[i]]
  BY <1>5 DEF Record
<1>7. \A u \in User : Granted(u)' \subseteq everGranted'[u]
  BY DEF Record
<1>8. \A k \in Key : rule'[k] # None => rule'[k].perms \subseteq everRequired'[k]
  BY DEF Record
<1> QED BY <1>3, <1>4, <1>6, <1>7, <1>8 DEF HistoryOK

LEMMA OriginStep ==
  ASSUME Inv, TablesOK', HistoryOK', Grows,
         \A u \in User : SessionFrom(u), \A k \in Key : RuleFrom(k)
  PROVE  OriginOK'
<1> CachesTyped /\ HistoryTyped
  BY TypeParts DEF Inv
<1>1. ASSUME NEW u \in User, session'[u] # None, NEW c \in session'[u]
      PROVE  denotes'[c] \intersect everGranted'[u] # {}
  <2>1. CASE session'[u] = session[u]
    <3>1. c \in Code
      BY <1>1, <2>1 DEF CachesTyped
    <3>2. denotes[c] \intersect everGranted[u] # {}
      BY <1>1, <2>1 DEF Inv, OriginOK, SessionOrigin
    <3> QED BY <3>1, <3>2 DEF Grows
  <2>2. CASE \E P \in SUBSET Granted(u)' : session'[u] = CodesOf(P)'
    <3>1. PICK P \in SUBSET Granted(u)' : session'[u] = CodesOf(P)'
      BY <2>2
    <3>2. PICK i \in P : c = code'[i]
      BY <1>1, <3>1 DEF CodesOf
    <3>3. i \in Granted(u)'
      BY <3>1, <3>2
    <3>4. i \in Permissions'
      BY <3>3 DEF TablesOK, RolesInUse, Granted, OfRoles
    <3> QED BY <3>2, <3>3, <3>4 DEF HistoryOK
  <2> QED BY <1>1, <2>1, <2>2 DEF SessionFrom
<1>2. ASSUME NEW k \in Key, ruleCache'[k] # None, NEW c \in ruleCache'[k]
      PROVE  denotes'[c] \intersect everRequired'[k] # {}
  <2>1. CASE ruleCache'[k] = ruleCache[k]
    <3>1. c \in Code
      BY <1>2, <2>1 DEF CachesTyped
    <3>2. denotes[c] \intersect everRequired[k] # {}
      BY <1>2, <2>1 DEF Inv, OriginOK, RuleOrigin
    <3> QED BY <3>1, <3>2 DEF Grows
  <2>2. CASE rule'[k] # None /\ ruleCache'[k] = CodesOf(rule[k].perms)'
    <3>1. PICK i \in rule'[k].perms : c = code'[i]
      BY <1>2, <2>2 DEF CodesOf
    <3>2. i \in Permissions'
      BY <2>2, <3>1 DEF TablesOK
    <3> QED BY <2>2, <3>1, <3>2 DEF HistoryOK
  <2> QED BY <1>2, <2>1, <2>2 DEF RuleFrom
<1> QED BY <1>1, <1>2 DEF OriginOK, SessionOrigin, RuleOrigin

\* An operation that changes the tables keeps the invariant if it keeps the
\* tables sound and leaves each cache as it was, or as the tables now say.
LEMMA EditStep ==
  ASSUME Inv, Edit, Record, TablesOK', CachesTyped', CachesOK',
         \A u \in User : SessionFrom(u), \A k \in Key : RuleFrom(k)
  PROVE  Inv'
<1>1. HistoryOK' /\ HistoryTyped' /\ Grows
  BY HistoryStep DEF Inv
<1>2. OriginOK'
  BY <1>1, OriginStep
<1>3. CountersTyped' /\ SeededOK'
  <2>1. edits \in 0..MaxEdits
    BY TypeParts DEF Inv, CountersTyped
  <2>2. edits' \in 0..MaxEdits
    BY <2>1, AuthorizationConstants DEF Edit
  <2>3. seeded' = FALSE
    BY DEF Edit
  <2> QED BY <2>2, <2>3, Zenon DEF CountersTyped, SeededOK
<1>4. TypeOK'
  BY <1>1, <1>3, TypeParts DEF TypeOK, TablesOK, CachesTyped, HistoryTyped, CountersTyped
<1> QED BY <1>1, <1>2, <1>3, <1>4 DEF Inv

\* The same for a request that leaves the tables alone.
LEMMA CacheStep ==
  ASSUME Inv, UNCHANGED tables, CachesTyped', CachesOK',
         \A u \in User : SessionFrom(u), \A k \in Key : RuleFrom(k)
  PROVE  Inv'
<1> USE DEF tables, catalogue, accounts
<1> TablesOK /\ HistoryTyped /\ CountersTyped
  BY TypeParts DEF Inv
<1>1. TablesOK'
  BY DEF TablesOK, Permissions, RolesInUse
<1>2. HistoryTyped' /\ CountersTyped' /\ Grows
  BY DEF HistoryTyped, CountersTyped, Grows
<1>3. HistoryOK'
  BY DEF Inv, HistoryOK, Permissions, Granted, OfRoles
<1>4. OriginOK'
  BY <1>1, <1>2, <1>3, OriginStep
<1>5. SeededOK'
  BY DEF Inv, SeededOK, TablesAllow, EnabledRules, Granted, OfRoles
<1>6. TypeOK'
  BY <1>1, <1>2 DEF TypeOK, TablesOK, CachesTyped, HistoryTyped, CountersTyped
<1> QED BY <1>3, <1>4, <1>5, <1>6 DEF Inv

-----------------------------------------------------------------------------
(* A cache that a step leaves as it was.                                   *)

LEMMA SessionKept ==
  ASSUME NEW u \in User, SessionCurrent(u), session'[u] = session[u],
         roles[u] # None => roles'[u] # None,
         u \in staleUsers => u \in staleUsers',
         session[u] # None /\ u \notin staleUsers' =>
            Granted(u)' = Granted(u) /\ \A i \in Granted(u) : code'[i] = code[i]
  PROVE  SessionCurrent(u)'
<1>1. ASSUME session[u] # None, u \notin staleUsers' PROVE permissionCodes(u)' = permissionCodes(u)
  BY <1>1 DEF permissionCodes, CodesOf
<1> QED BY <1>1 DEF SessionCurrent

LEMMA RuleKept ==
  ASSUME NEW k \in Key, RuleCurrent(k), ruleCache'[k] = ruleCache[k],
         k \in staleRules => k \in staleRules',
         k \notin staleRules' /\ k \in EnabledRules =>
            rule'[k] = rule[k] /\ \A i \in rule[k].perms : code'[i] = code[i]
  PROVE  RuleCurrent(k)'
  BY DEF RuleCurrent, EnabledRules, CodesOf

LEMMA KeyKept ==
  ASSUME KeyCurrent, keyCache' = keyCache, staleKey => staleKey',
         ~staleKey' => keyPerms' = keyPerms /\ \A i \in keyPerms : code'[i] = code[i]
  PROVE  KeyCurrent'
  BY DEF KeyCurrent, CodesOf

\* Roles and codes that are in use stay as they are.
LEMMA GrantedKept ==
  ASSUME TablesOK, NEW u \in User, roles'[u] = roles[u],
         \A r \in RolesInUse : roles[u] # None /\ r \in roles[u] =>
                                role'[r].perms = role[r].perms
  PROVE  Granted(u)' = Granted(u)
<1>1. CASE roles[u] = None
  BY <1>1 DEF Granted
<1>2. CASE roles[u] # None
  <2>1. \A r \in roles[u] : role'[r].perms = role[r].perms
    BY <1>2, RoleFacts
  <2> QED BY <1>2, <2>1 DEF Granted, OfRoles
<1> QED BY <1>1, <1>2

\* An operation that touches no cache has to mark those it leaves behind.
LEMMA CachesUntouched ==
  ASSUME Inv, UNCHANGED caches,
         staleUsers \subseteq staleUsers', staleUsers' \subseteq User,
         staleRules \subseteq staleRules', staleRules' \subseteq Key,
         staleKey' \in BOOLEAN, staleKey => staleKey',
         \A u \in User : roles[u] # None => roles'[u] # None,
         \A u \in User : session[u] # None /\ u \notin staleUsers' =>
            Granted(u)' = Granted(u) /\ \A i \in Granted(u) : code'[i] = code[i],
         \A k \in Key : k \notin staleRules' /\ k \in EnabledRules =>
            rule'[k] = rule[k] /\ \A i \in rule[k].perms : code'[i] = code[i],
         ~staleKey' => keyPerms' = keyPerms /\ \A i \in keyPerms : code'[i] = code[i]
  PROVE  /\ CachesTyped' /\ CachesOK'
         /\ \A u \in User : SessionFrom(u)
         /\ \A k \in Key : RuleFrom(k)
<1> USE DEF caches
<1>1. CachesTyped'
  BY TypeParts DEF Inv, CachesTyped
<1>2. \A u \in User : SessionCurrent(u)'
  BY SessionKept DEF Inv, CachesOK
<1>3. \A k \in Key : RuleCurrent(k)'
  BY RuleKept DEF Inv, CachesOK
<1>4. KeyCurrent'
  BY KeyKept DEF Inv, CachesOK
<1>5. (\A u \in User : SessionFrom(u)) /\ (\A k \in Key : RuleFrom(k))
  BY DEF SessionFrom, RuleFrom
<1> QED BY <1>1, <1>2, <1>3, <1>4, <1>5 DEF CachesOK

-----------------------------------------------------------------------------
(* One lemma per operation.                                                *)

LEMMA InvInit == Init => Inv
<1> SUFFICES ASSUME Init PROVE Inv
  OBVIOUS
<1>1. Permissions = {} /\ RolesInUse = {} /\ \A u \in User : Granted(u) = {}
  BY DEF Init, Permissions, RolesInUse, Granted
<1>2. TypeOK
  <2>1. edits \in 0..MaxEdits
    BY AuthorizationConstants DEF Init
  <2>2. TablesOK
    BY <1>1 DEF Init, TablesOK
  <2>3. CachesTyped /\ HistoryTyped
    BY DEF Init, CachesTyped, HistoryTyped
  <2>4. seeded = FALSE
    BY DEF Init
  <2> QED BY <2>1, <2>2, <2>3, <2>4, TypeParts DEF CountersTyped
<1>3. CachesOK /\ OriginOK
  BY DEF Init, CachesOK, SessionCurrent, RuleCurrent, KeyCurrent, OriginOK,
         SessionOrigin, RuleOrigin
<1>4. HistoryOK
  BY <1>1 DEF Init, HistoryOK
<1>5. seeded = FALSE
  BY DEF Init
<1>6. SeededOK
  BY <1>5, Zenon DEF SeededOK
<1> QED BY <1>2, <1>3, <1>4, <1>6 DEF Inv

LEMMA FreshFacts ==
  ASSUME TablesOK, NEW c \in Code, CanDraw(c)
  PROVE  /\ FreshId(c) \in PermId
         /\ FreshId(c)[1] = c
         /\ FreshId(c) \notin drawn
         /\ FreshId(c) \notin Permissions
<1>1. PICK n \in Gen : <<c, n>> \notin drawn
  BY DEF CanDraw
<1>2. (CHOOSE m \in Gen : <<c, m>> \notin drawn) \in Gen
  BY <1>1
<1>3. <<c, CHOOSE m \in Gen : <<c, m>> \notin drawn>> \notin drawn
  BY <1>1
<1> QED BY <1>2, <1>3 DEF FreshId, PermId, TablesOK

LEMMA CreatePermissionStep ==
  ASSUME Inv, NEW c \in Code, CreatePermission(c)
  PROVE  Inv'
<1> USE DEF accounts, caches, stale
<1>0. TablesOK /\ CachesTyped
  BY TypeParts DEF Inv
<1>1. PICK d : d = FreshId(c)
  OBVIOUS
<1>2. d \in PermId /\ d \notin drawn /\ d \notin Permissions
  BY <1>0, <1>1, FreshFacts DEF CreatePermission
<1>3. /\ code' = [code EXCEPT ![d] = c] /\ drawn' = drawn \union {d}
      /\ UNCHANGED <<role, accounts, rule, keyPerms, caches, stale>>
      /\ \A i \in PermId : code[i] # c
  BY <1>1 DEF CreatePermission, IsFree
<1>4. \A i \in Permissions : code'[i] = code[i]
  BY <1>0, <1>2, <1>3 DEF TablesOK, Permissions
<1>5. c # None
  BY AuthorizationConstants
<1>6. Permissions' = Permissions \union {d}
  BY <1>0, <1>2, <1>3, <1>5 DEF TablesOK, Permissions
<1>7. TablesOK'
  <2>1. code' \in [PermId -> Code \union {None}] /\ Permissions' \subseteq drawn'
        /\ drawn' \subseteq PermId
    BY <1>0, <1>2, <1>3, <1>6 DEF TablesOK
  <2>2. \A i, j \in Permissions' : code'[i] = code'[j] => i = j
    <3>1. code'[d] = c /\ \A i \in Permissions : code[i] # c
      BY <1>0, <1>2, <1>3 DEF TablesOK, Permissions
    <3> QED BY <1>0, <1>4, <1>6, <3>1 DEF TablesOK
  <2>3. RolesInUse' = RolesInUse
    BY <1>3 DEF RolesInUse
  <2> QED BY <1>0, <1>3, <1>6, <2>1, <2>2, <2>3 DEF TablesOK
<1>8. \A u \in User : Granted(u)' = Granted(u) /\ \A i \in Granted(u) : code'[i] = code[i]
  <2> SUFFICES ASSUME NEW u \in User
               PROVE  Granted(u)' = Granted(u) /\ \A i \in Granted(u) : code'[i] = code[i]
    OBVIOUS
  <2>1. Granted(u)' = Granted(u)
    BY <1>3 DEF Granted, OfRoles
  <2> QED BY <1>0, <1>4, <2>1, GrantedTyped
<1>9. \A k \in EnabledRules : \A i \in rule[k].perms : code'[i] = code[i]
  BY <1>0, <1>4, RuleFacts DEF EnabledRules
<1>10. \A i \in keyPerms : code'[i] = code[i]
  BY <1>0, <1>4 DEF TablesOK
<1>11. /\ CachesTyped' /\ CachesOK'
       /\ \A u \in User : SessionFrom(u)
       /\ \A k \in Key : RuleFrom(k)
  BY <1>0, <1>3, <1>8, <1>9, <1>10, CachesUntouched DEF CachesTyped
<1> QED BY <1>7, <1>11, EditStep DEF CreatePermission

\* The codes of the permissions other than i stay, and what i was in is marked.
LEMMA OutdatedCaches ==
  ASSUME Inv, NEW i \in PermId, Outdated(i), UNCHANGED caches,
         \A j \in Permissions \ {i} : code'[j] = code[j],
         \A u \in User : roles[u] # None => roles'[u] # None,
         \A u \in User : i \notin Granted(u) => Granted(u)' = Granted(u),
         \A k \in Key : rule[k] # None /\ i \notin rule[k].perms => rule'[k] = rule[k],
         i \notin keyPerms => keyPerms' = keyPerms
  PROVE  /\ CachesTyped' /\ CachesOK'
         /\ \A u \in User : SessionFrom(u)
         /\ \A k \in Key : RuleFrom(k)
<1>0. TablesOK /\ CachesTyped
  BY TypeParts DEF Inv
<1>1. \A u \in User : u \notin staleUsers' =>
          Granted(u)' = Granted(u) /\ \A j \in Granted(u) : code'[j] = code[j]
  BY <1>0, GrantedTyped DEF Outdated
<1>2. \A k \in Key : k \notin staleRules' /\ k \in EnabledRules =>
          rule'[k] = rule[k] /\ \A j \in rule[k].perms : code'[j] = code[j]
  BY <1>0, RuleFacts DEF Outdated, EnabledRules
<1>3. staleKey' \in BOOLEAN /\ (staleKey => staleKey') /\ (i \in keyPerms => staleKey')
  BY Zenon DEF Outdated
<1>4. ~staleKey' => keyPerms' = keyPerms /\ \A j \in keyPerms : code'[j] = code[j]
  BY <1>0, <1>3 DEF TablesOK
<1>5. /\ staleUsers \subseteq staleUsers' /\ staleUsers' \subseteq User
      /\ staleRules \subseteq staleRules' /\ staleRules' \subseteq Key
  BY <1>0 DEF Outdated, CachesTyped, EnabledRules
<1> QED BY <1>1, <1>2, <1>3, <1>4, <1>5, CachesUntouched

LEMMA UpdatePermissionStep ==
  ASSUME Inv, NEW i \in Permissions, NEW c \in Code, UpdatePermission(i, c)
  PROVE  Inv'
<1> USE DEF accounts
<1>0. TablesOK
  BY TypeParts DEF Inv
<1>1. /\ code' = [code EXCEPT ![i] = c] /\ Outdated(i)
      /\ UNCHANGED <<drawn, role, accounts, rule, keyPerms, caches>>
      /\ \A j \in PermId : code[j] # c
  BY DEF UpdatePermission, IsFree
<1>2. i \in PermId /\ c # None
  BY AuthorizationConstants DEF Permissions
<1>3. \A j \in Permissions \ {i} : code'[j] = code[j]
  BY <1>0, <1>1 DEF TablesOK, Permissions
<1>4. Permissions' = Permissions
  BY <1>0, <1>1, <1>2 DEF TablesOK, Permissions
<1>5. TablesOK'
  <2>1. code' \in [PermId -> Code \union {None}]
    BY <1>0, <1>1 DEF TablesOK
  <2>2. \A j, m \in Permissions' : code'[j] = code'[m] => j = m
    <3>1. code'[i] = c /\ \A j \in Permissions : code[j] # c
      BY <1>0, <1>1, <1>2 DEF TablesOK, Permissions
    <3> QED BY <1>0, <1>3, <1>4, <3>1 DEF TablesOK
  <2>3. RolesInUse' = RolesInUse
    BY <1>1 DEF RolesInUse
  <2> QED BY <1>0, <1>1, <1>4, <2>1, <2>2, <2>3 DEF TablesOK
<1>6. \A u \in User : Granted(u)' = Granted(u)
  BY <1>1 DEF Granted, OfRoles
<1>7. /\ CachesTyped' /\ CachesOK'
      /\ \A u \in User : SessionFrom(u)
      /\ \A k \in Key : RuleFrom(k)
  BY <1>1, <1>2, <1>3, <1>6, OutdatedCaches
<1> QED BY <1>5, <1>7, EditStep DEF UpdatePermission

LEMMA DeletePermissionStep ==
  ASSUME Inv, NEW i \in Permissions, DeletePermission(i)
  PROVE  Inv'
<1> USE DEF accounts
<1>0. TablesOK
  BY TypeParts DEF Inv
<1>1. /\ code' = [code EXCEPT ![i] = None] /\ Outdated(i)
      /\ role' = [r \in RoleId |-> Without(i, role[r])]
      /\ rule' = [k \in Key |-> Without(i, rule[k])]
      /\ keyPerms' = keyPerms \ {i}
      /\ UNCHANGED <<drawn, accounts, caches>>
  BY DEF DeletePermission
<1>2. i \in PermId
  BY DEF Permissions
<1>3. \A j \in Permissions \ {i} : code'[j] = code[j]
  BY <1>0, <1>1 DEF TablesOK, Permissions
<1>4. Permissions' = Permissions \ {i}
  BY <1>0, <1>1, <1>2 DEF TablesOK, Permissions
<1>5. \A r \in RoleId :
        /\ role[r] = None => role'[r] = None
        /\ role[r] # None => /\ role'[r] \in Role
                             /\ role'[r].name = role[r].name
                             /\ role'[r].perms = role[r].perms \ {i}
  BY <1>0, <1>1 DEF TablesOK, Without, Role
<1>6. RolesInUse' = RolesInUse
  BY <1>5, AuthorizationConstants DEF RolesInUse
<1>7. \A k \in Key :
        /\ rule[k] = None => rule'[k] = None
        /\ rule[k] # None => /\ rule'[k] \in Rule
                             /\ rule'[k].perms = rule[k].perms \ {i}
  BY <1>0, <1>1 DEF TablesOK, Without, Rule
<1>8. TablesOK'
  <2>1. code' \in [PermId -> Code \union {None}]
    BY <1>0, <1>1 DEF TablesOK
  <2>2. \A j, m \in Permissions' : code'[j] = code'[m] => j = m
    BY <1>0, <1>3, <1>4 DEF TablesOK
  <2>3. role' \in [RoleId -> Role \union {None}] /\ rule' \in [Key -> Rule \union {None}]
    BY <1>1, <1>5, <1>7
  <2>4. /\ \A r \in RolesInUse' : role'[r].perms \subseteq Permissions'
        /\ \A r, t \in RolesInUse' : role'[r].name = role'[t].name => r = t
    BY <1>0, <1>4, <1>5, <1>6 DEF TablesOK, RolesInUse
  <2>5. \A k \in Key : rule'[k] # None => rule'[k].perms \subseteq Permissions'
    BY <1>0, <1>4, <1>7 DEF TablesOK
  <2> QED BY <1>0, <1>1, <1>4, <1>6, <2>1, <2>2, <2>3, <2>4, <2>5 DEF TablesOK
<1>9. ASSUME NEW u \in User, i \notin Granted(u) PROVE Granted(u)' = Granted(u)
  <2>1. CASE roles[u] = None
    BY <1>1, <2>1 DEF Granted
  <2>2. CASE roles[u] # None
    <3>1. \A r \in roles[u] : r \in RolesInUse /\ i \notin role[r].perms
      BY <1>0, <1>9, <2>2, RoleFacts DEF Granted, OfRoles
    <3>2. \A r \in RolesInUse : roles[u] # None /\ r \in roles[u] =>
                                    role'[r].perms = role[r].perms
      <4> SUFFICES ASSUME NEW r \in RolesInUse, r \in roles[u]
                   PROVE  role'[r].perms = role[r].perms
        OBVIOUS
      <4>1. role'[r].perms = role[r].perms \ {i}
        BY <1>5 DEF RolesInUse
      <4> QED BY <3>1, <4>1
    <3> QED BY <1>0, <1>1, <3>2, GrantedKept
  <2> QED BY <2>1, <2>2
<1>10. ASSUME NEW k \in Key, rule[k] # None, i \notin rule[k].perms PROVE rule'[k] = rule[k]
  <2>1. rule[k] \in Rule
    BY <1>0, <1>10, RuleFacts
  <2>2. rule'[k] = [rule[k] EXCEPT !.perms = @ \ {i}]
    BY <1>1, <1>10 DEF Without
  <2>3. rule[k].perms \ {i} = rule[k].perms
    BY <1>10
  <2> QED BY <2>1, <2>2, <2>3 DEF Rule
<1>11. /\ CachesTyped' /\ CachesOK'
       /\ \A u \in User : SessionFrom(u)
       /\ \A k \in Key : RuleFrom(k)
  BY <1>1, <1>2, <1>3, <1>9, <1>10, OutdatedCaches
<1> QED BY <1>8, <1>11, EditStep DEF DeletePermission

\* Roles are created and renamed: whoever has which permissions stays.
LEMMA RoleNameStep ==
  ASSUME Inv, NEW r \in RoleId, NEW name \in RoleName,
         CreateRole(r, name) \/ UpdateRole(r, name)
  PROVE  Inv'
<1> USE DEF accounts, stale
<1>0. TablesOK /\ CachesTyped
  BY TypeParts DEF Inv
<1>1. /\ Edit /\ Record /\ IsNew(name)
      /\ UNCHANGED <<code, drawn, accounts, rule, keyPerms, caches, stale>>
  BY DEF CreateRole, UpdateRole
<1>2. PICK row \in Role :
        /\ role' = [role EXCEPT ![r] = row]
        /\ row.name = name
        /\ row.perms \subseteq Permissions
        /\ r \in RolesInUse => row.perms = role[r].perms
  <2>1. CASE CreateRole(r, name)
    <3>1. [name |-> name, perms |-> {}] \in Role
      BY DEF Role
    <3> QED BY <2>1, <3>1 DEF CreateRole
  <2>2. CASE UpdateRole(r, name)
    <3>1. r \in RolesInUse /\ role' = [role EXCEPT ![r].name = name]
      BY <2>2 DEF UpdateRole
    <3>2. role[r] \in Role /\ role[r].perms \subseteq Permissions
      BY <1>0, <3>1, RoleFacts
    <3>3. [role[r] EXCEPT !.name = name] \in Role
      BY <3>2 DEF Role
    <3>4. role' = [role EXCEPT ![r] = [role[r] EXCEPT !.name = name]]
      BY <3>1
    <3> QED BY <3>2, <3>3, <3>4 DEF Role
  <2> QED BY <2>1, <2>2
<1>3. \A q \in RoleId : role'[q] = IF q = r THEN row ELSE role[q]
  BY <1>0, <1>2 DEF TablesOK
<1>4. RolesInUse' = RolesInUse \union {r}
  BY <1>3, AuthorizationConstants DEF RolesInUse
<1>5. TablesOK'
  <2>1. role' \in [RoleId -> Role \union {None}]
    BY <1>0, <1>2 DEF TablesOK
  <2>2. Permissions' = Permissions
    BY <1>1 DEF Permissions
  <2>3. \A q \in RolesInUse' : role'[q].perms \subseteq Permissions'
    BY <1>0, <1>2, <1>3, <1>4, <2>2 DEF TablesOK, RolesInUse
  <2>4. \A q, t \in RolesInUse' : role'[q].name = role'[t].name => q = t
    BY <1>0, <1>1, <1>2, <1>3, <1>4 DEF TablesOK, RolesInUse, IsNew
  <2> QED BY <1>0, <1>1, <1>4, <2>1, <2>2, <2>3, <2>4 DEF TablesOK
<1>6. ASSUME NEW u \in User PROVE Granted(u)' = Granted(u)
  <2>1. \A q \in RolesInUse : role'[q].perms = role[q].perms
    BY <1>2, <1>3 DEF RolesInUse
  <2> QED BY <1>0, <1>1, <2>1, GrantedKept
<1>7. /\ CachesTyped' /\ CachesOK'
      /\ \A u \in User : SessionFrom(u)
      /\ \A k \in Key : RuleFrom(k)
  BY <1>0, <1>1, <1>6, CachesUntouched DEF CachesTyped
<1> QED BY <1>1, <1>5, <1>7, EditStep

LEMMA DeleteRoleStep ==
  ASSUME Inv, NEW r \in RolesInUse, DeleteRole(r)
  PROVE  Inv'
<1>0. TablesOK /\ CachesTyped
  BY TypeParts DEF Inv
<1>1. /\ role' = [role EXCEPT ![r] = None]
      /\ roles' = [u \in User |-> IF roles[u] = None THEN None ELSE roles[u] \ {r}]
      /\ staleUsers' = staleUsers \union WithRole(r)
      /\ UNCHANGED <<code, drawn, active, rule, keyPerms, caches, staleRules, staleKey>>
  BY DEF DeleteRole
<1>2. RolesInUse' = RolesInUse \ {r} /\ \A q \in RolesInUse' : role'[q] = role[q]
  BY <1>0, <1>1 DEF TablesOK, RolesInUse
<1>3. TablesOK'
  <2>1. role' \in [RoleId -> Role \union {None}]
    BY <1>0, <1>1 DEF TablesOK
  <2>2. Permissions' = Permissions
    BY <1>1 DEF Permissions
  <2>3. roles' \in [User -> (SUBSET RoleId) \union {None}]
    BY <1>0, <1>1 DEF TablesOK
  <2>4. \A u \in User : roles'[u] # None => roles'[u] \subseteq RolesInUse'
    BY <1>0, <1>1, <1>2 DEF TablesOK
  <2> QED BY <1>0, <1>1, <1>2, <2>1, <2>2, <2>3, <2>4 DEF TablesOK
<1>4. \A u \in User : roles[u] # None => roles'[u] # None
  <2> SUFFICES ASSUME NEW u \in User, roles[u] # None PROVE roles'[u] # None
    OBVIOUS
  <2>1. roles'[u] = roles[u] \ {r} /\ roles[u] \ {r} \in SUBSET RoleId
    BY <1>0, <1>1 DEF TablesOK
  <2> QED BY <2>1, AuthorizationConstants
<1>5. ASSUME NEW u \in User, u \notin staleUsers' PROVE Granted(u)' = Granted(u)
  <2>1. roles'[u] = roles[u] /\ (roles[u] # None => r \notin roles[u])
    BY <1>1, <1>5 DEF WithRole
  <2>2. \A q \in RolesInUse : roles[u] # None /\ q \in roles[u] =>
                                  role'[q].perms = role[q].perms
    BY <1>2, <2>1
  <2> QED BY <1>0, <2>1, <2>2, GrantedKept
<1>6. /\ CachesTyped' /\ CachesOK'
      /\ \A u \in User : SessionFrom(u)
      /\ \A k \in Key : RuleFrom(k)
  BY <1>0, <1>1, <1>4, <1>5, CachesUntouched DEF CachesTyped, WithRole
<1> QED BY <1>3, <1>6, EditStep DEF DeleteRole

LEMMA RegisterStep ==
  ASSUME Inv, NEW u \in User, NEW Q \in SUBSET RolesInUse, Register(u, Q)
  PROVE  Inv'
<1> USE DEF stale
<1>0. TablesOK /\ CachesTyped
  BY TypeParts DEF Inv
<1>1. /\ roles[u] = None /\ roles' = [roles EXCEPT ![u] = Q]
      /\ UNCHANGED <<code, drawn, role, active, rule, keyPerms, caches, stale>>
  BY DEF Register
<1>2. RolesInUse' = RolesInUse /\ Permissions' = Permissions /\ Q \in SUBSET RoleId
  BY <1>1 DEF RolesInUse, Permissions
<1>3. Q # None
  BY <1>2, AuthorizationConstants
<1>4. TablesOK'
  BY <1>0, <1>1, <1>2 DEF TablesOK
<1>5. session[u] = None
  BY <1>1 DEF Inv, CachesOK, SessionCurrent
<1>6. ASSUME NEW v \in User, session[v] # None PROVE Granted(v)' = Granted(v)
  <2>1. roles'[v] = roles[v] /\ role' = role
    BY <1>0, <1>1, <1>5, <1>6 DEF TablesOK
  <2> QED BY <2>1 DEF Granted, OfRoles
<1>7. \A v \in User : roles[v] # None => roles'[v] # None
  BY <1>0, <1>1 DEF TablesOK
<1>8. /\ CachesTyped' /\ CachesOK'
      /\ \A v \in User : SessionFrom(v)
      /\ \A k \in Key : RuleFrom(k)
  BY <1>0, <1>1, <1>6, <1>7, CachesUntouched DEF CachesTyped
<1> QED BY <1>4, <1>8, EditStep DEF Register

LEMMA SetStatusStep ==
  ASSUME Inv, NEW u \in User, SetStatus(u)
  PROVE  Inv'
<1> USE DEF stale
<1>0. TablesOK /\ CachesTyped
  BY TypeParts DEF Inv
<1>1. /\ active' \subseteq User
      /\ UNCHANGED <<code, drawn, role, roles, rule, keyPerms, caches, stale>>
  BY <1>0 DEF SetStatus, TablesOK
<1>2. TablesOK'
  BY <1>0, <1>1 DEF TablesOK, Permissions, RolesInUse
<1>3. \A v \in User : Granted(v)' = Granted(v)
  BY <1>1 DEF Granted, OfRoles
<1>4. /\ CachesTyped' /\ CachesOK'
      /\ \A v \in User : SessionFrom(v)
      /\ \A k \in Key : RuleFrom(k)
  BY <1>0, <1>1, <1>3, CachesUntouched DEF CachesTyped
<1> QED BY <1>2, <1>4, EditStep DEF SetStatus

LEMMA AssignPermissionsStep ==
  ASSUME Inv, NEW r \in RolesInUse, NEW Q \in SUBSET Permissions, AssignPermissions(r, Q)
  PROVE  Inv'
<1> USE DEF accounts
<1>0. TablesOK /\ CachesTyped
  BY TypeParts DEF Inv
<1>1. /\ role' = [role EXCEPT ![r].perms = Q]
      /\ session' = [u \in User |->
            IF session[u] # None /\ u \in WithRole(r) THEN CodesOf(Q) ELSE session[u]]
      /\ staleUsers' = {u \in staleUsers \union WithRole(r) : roles[u] # {r}}
      /\ UNCHANGED <<code, drawn, accounts, rule, keyPerms, ruleCache, keyCache,
                     staleRules, staleKey>>
  BY DEF AssignPermissions
<1>2. r \in RoleId /\ role[r] \in Role
  BY <1>0, RoleFacts
<1>3. [role[r] EXCEPT !.perms = Q] \in Role
      /\ [role[r] EXCEPT !.perms = Q].perms = Q
      /\ [role[r] EXCEPT !.perms = Q].name = role[r].name
  BY <1>2 DEF Role, Permissions
<1>4. /\ role' = [role EXCEPT ![r] = [role[r] EXCEPT !.perms = Q]]
  BY <1>1
<1>5. /\ role' \in [RoleId -> Role \union {None}]
      /\ role'[r].perms = Q /\ role'[r].name = role[r].name /\ role'[r] \in Role
      /\ \A q \in RoleId : q # r => role'[q] = role[q]
  BY <1>0, <1>2, <1>3, <1>4 DEF TablesOK
<1>6. RolesInUse' = RolesInUse
  BY <1>5, AuthorizationConstants DEF RolesInUse
<1>7. TablesOK'
  <2>1. Permissions' = Permissions
    BY <1>1 DEF Permissions
  <2>2. \A q \in RolesInUse' : role'[q].perms \subseteq Permissions'
    BY <1>0, <1>5, <1>6, <2>1 DEF TablesOK, RolesInUse
  <2>3. \A q, t \in RolesInUse' : role'[q].name = role'[t].name => q = t
    <3>1. \A q \in RolesInUse : role'[q].name = role[q].name
      BY <1>5 DEF RolesInUse
    <3> QED BY <1>0, <1>6, <3>1 DEF TablesOK
  <2> QED BY <1>0, <1>1, <1>5, <1>6, <2>1, <2>2, <2>3 DEF TablesOK
<1>8. CodesOf(Q) \in SUBSET Code /\ CodesOf(Q)' = CodesOf(Q)
  <2>1. CodesOf(Q)' = CodesOf(Q)
    BY <1>1 DEF CodesOf
  <2> QED BY <1>0, <2>1, CodesTyped
<1>9. CachesTyped'
  BY <1>0, <1>1, <1>8 DEF CachesTyped, WithRole
<1>10. ASSUME NEW u \in User PROVE SessionCurrent(u)' /\ SessionFrom(u)
  <2>1. CASE u \in WithRole(r) /\ session[u] # None
    <3>1. roles'[u] = roles[u] /\ roles[u] # None /\ r \in roles[u]
      BY <1>1, <2>1 DEF WithRole
    <3>2. session'[u] = CodesOf(Q)
      BY <1>1, <2>1
    <3>3. Q \subseteq Granted(u)'
      BY <1>5, <3>1 DEF Granted, OfRoles
    <3>4. SessionFrom(u)
      BY <1>8, <3>2, <3>3 DEF SessionFrom
    <3>5. ASSUME u \notin staleUsers' PROVE session'[u] = permissionCodes(u)'
      <4>1. roles[u] = {r}
        BY <1>1, <2>1, <3>5
      <4>2. Granted(u)' = Q
        BY <1>5, <3>1, <4>1 DEF Granted, OfRoles
      <4> QED BY <1>1, <3>2, <4>2 DEF permissionCodes, CodesOf
    <3> QED BY <3>1, <3>4, <3>5 DEF SessionCurrent
  <2>2. CASE u \notin WithRole(r)
    <3>1. session'[u] = session[u] /\ roles'[u] = roles[u]
          /\ (roles[u] # None => r \notin roles[u])
      BY <1>1, <2>2 DEF WithRole
    <3>2. \A q \in RolesInUse : roles[u] # None /\ q \in roles[u] =>
                                    role'[q].perms = role[q].perms
      BY <1>5, <3>1 DEF RolesInUse
    <3>3. Granted(u)' = Granted(u)
      BY <1>0, <3>1, <3>2, GrantedKept
    <3>4. u \in staleUsers => u \in staleUsers'
      <4>1. {r} # None
        BY <1>2, AuthorizationConstants
      <4> QED BY <1>1, <3>1, <4>1
    <3>5. SessionCurrent(u)'
      BY <1>1, <3>1, <3>3, <3>4, SessionKept DEF Inv, CachesOK
    <3> QED BY <3>1, <3>5 DEF SessionFrom
  <2>3. CASE session[u] = None
    BY <1>1, <2>3 DEF SessionCurrent, SessionFrom
  <2> QED BY <2>1, <2>2, <2>3
<1>11. \A k \in Key : RuleCurrent(k)' /\ RuleFrom(k)
  BY <1>1, RuleKept DEF Inv, CachesOK, RuleFrom
<1>12. KeyCurrent'
  BY <1>1, KeyKept DEF Inv, CachesOK
<1>13. CachesOK' /\ \A u \in User : SessionFrom(u)
  BY <1>10, <1>11, <1>12 DEF CachesOK
<1> QED BY <1>7, <1>9, <1>11, <1>13, EditStep DEF AssignPermissions

\* The session of one user is written, with the codes the tables now say.
LEMMA SetSessionCaches ==
  ASSUME Inv, NEW u \in User, NEW codes, SetSession(u, codes), TablesOK',
         codes = None \/ (roles'[u] # None /\ codes = permissionCodes(u)'),
         UNCHANGED <<code, role, rule, keyPerms>>,
         \A v \in User : v # u => roles'[v] = roles[v]
  PROVE  /\ CachesTyped' /\ CachesOK'
         /\ \A v \in User : SessionFrom(v)
         /\ \A k \in Key : RuleFrom(k)
<1>0. TablesOK /\ CachesTyped
  BY TypeParts DEF Inv
<1>1. /\ session' = [session EXCEPT ![u] = codes]
      /\ staleUsers' = staleUsers \ {u}
      /\ UNCHANGED <<ruleCache, keyCache, staleRules, staleKey>>
  BY DEF SetSession
<1>2. permissionCodes(u)' = CodesOf(Granted(u))' /\ Granted(u)' \subseteq Permissions'
  BY DEF permissionCodes, TablesOK, RolesInUse, Granted, OfRoles
<1>3. permissionCodes(u)' \in SUBSET Code
  BY <1>2 DEF CodesOf, TablesOK, Permissions
<1>4. CachesTyped'
  BY <1>0, <1>1, <1>3 DEF CachesTyped
<1>5. session'[u] = codes
  BY <1>0, <1>1 DEF CachesTyped
<1>6. SessionCurrent(u)'
  BY <1>5 DEF SessionCurrent
<1>7. SessionFrom(u)
  BY <1>2, <1>5 DEF SessionFrom
<1>8. ASSUME NEW v \in User, v # u PROVE SessionCurrent(v)' /\ SessionFrom(v)
  <2>1. session'[v] = session[v] /\ roles'[v] = roles[v]
        /\ (v \in staleUsers => v \in staleUsers')
    BY <1>0, <1>1, <1>8 DEF CachesTyped
  <2>2. Granted(v)' = Granted(v)
    BY <2>1 DEF Granted, OfRoles
  <2>3. SessionCurrent(v)'
    BY <2>1, <2>2, SessionKept DEF Inv, CachesOK
  <2> QED BY <2>1, <2>3 DEF SessionFrom
<1>9. \A k \in Key : RuleCurrent(k)' /\ RuleFrom(k)
  BY <1>1, RuleKept DEF Inv, CachesOK, RuleFrom
<1>10. KeyCurrent'
  BY <1>1, KeyKept DEF Inv, CachesOK
<1> QED BY <1>4, <1>6, <1>7, <1>8, <1>9, <1>10 DEF CachesOK

LEMMA AssignRoleStep ==
  ASSUME Inv, NEW u \in User, NEW Q \in SUBSET RolesInUse, AssignRole(u, Q)
  PROVE  Inv'
<1>0. TablesOK
  BY TypeParts DEF Inv
<1>1. /\ roles' = [roles EXCEPT ![u] = Q]
      /\ UNCHANGED <<code, drawn, role, active, rule, keyPerms>>
  BY DEF AssignRole
<1>2. RolesInUse' = RolesInUse /\ Permissions' = Permissions /\ Q \in SUBSET RoleId
  BY <1>1 DEF RolesInUse, Permissions
<1>3. TablesOK'
  BY <1>0, <1>1, <1>2 DEF TablesOK
<1>4. roles'[u] = Q /\ Q # None
  BY <1>0, <1>1, <1>2, AuthorizationConstants DEF TablesOK
<1>5. permissionCodes(u)' = CodesOf(OfRoles(Q))
  BY <1>1, <1>4 DEF permissionCodes, Granted, OfRoles, CodesOf
<1>6. PICK codes : codes = IF session[u] = None THEN None ELSE CodesOf(OfRoles(Q))
  OBVIOUS
<1>7. SetSession(u, codes)
  BY <1>6 DEF AssignRole
<1>8. \A v \in User : v # u => roles'[v] = roles[v]
  BY <1>0, <1>1 DEF TablesOK
<1>9. /\ CachesTyped' /\ CachesOK'
      /\ \A v \in User : SessionFrom(v)
      /\ \A k \in Key : RuleFrom(k)
  <2>1. codes = None \/ (roles'[u] # None /\ codes = permissionCodes(u)')
    BY <1>4, <1>5, <1>6
  <2>2. UNCHANGED <<code, role, rule, keyPerms>>
    BY <1>1
  <2> QED BY <1>3, <1>7, <1>8, <2>1, <2>2, SetSessionCaches
<1> QED BY <1>3, <1>9, EditStep DEF AssignRole

LEMMA SessionStep ==
  ASSUME Inv, NEW u \in User, LogIn(u) \/ Refresh(u) \/ LogOut(u)
  PROVE  Inv'
<1> USE DEF tables, catalogue, accounts
<1>0. TablesOK
  BY TypeParts DEF Inv
<1>1. UNCHANGED tables
  BY DEF LogIn, Refresh, LogOut
<1>2. TablesOK'
  BY <1>0, <1>1 DEF TablesOK, Permissions, RolesInUse
<1>3. permissionCodes(u)' = permissionCodes(u)
  BY <1>1 DEF permissionCodes, Granted, OfRoles, CodesOf
<1>4. PICK codes :
        /\ SetSession(u, codes)
        /\ codes = None \/ (roles[u] # None /\ codes = permissionCodes(u))
  <2>1. CASE LogIn(u)
    BY <2>1 DEF LogIn
  <2>2. CASE Refresh(u)
    <3>1. roles[u] # None
      BY <2>2 DEF Refresh, Inv, CachesOK, SessionCurrent
    <3> QED BY <2>2, <3>1 DEF Refresh
  <2>3. CASE LogOut(u)
    BY <2>3 DEF LogOut
  <2> QED BY <2>1, <2>2, <2>3
<1>5. /\ CachesTyped' /\ CachesOK'
      /\ \A v \in User : SessionFrom(v)
      /\ \A k \in Key : RuleFrom(k)
  BY <1>1, <1>2, <1>3, <1>4, SetSessionCaches
<1> QED BY <1>1, <1>5, CacheStep

\* Rules change and their entries are written; nothing else does.
LEMMA RuleTables ==
  ASSUME TablesOK, UNCHANGED <<code, drawn, role, accounts, keyPerms>>,
         rule' \in [Key -> Rule \union {None}],
         \A k \in Key : rule'[k] # None => rule'[k].perms \subseteq Permissions
  PROVE  TablesOK'
  BY DEF TablesOK, Permissions, RolesInUse, accounts

LEMMA RuleCaches ==
  ASSUME Inv, UNCHANGED <<code, role, roles, keyPerms, session, keyCache, staleUsers, staleKey>>,
         ruleCache' \in [Key -> (SUBSET Code) \union {None}], staleRules' \subseteq Key,
         \A k \in Key : RuleCurrent(k)' /\ RuleFrom(k)
  PROVE  /\ CachesTyped' /\ CachesOK'
         /\ \A v \in User : SessionFrom(v)
         /\ \A k \in Key : RuleFrom(k)
<1>1. CachesTyped'
  BY TypeParts DEF Inv, CachesTyped
<1>2. ASSUME NEW u \in User PROVE SessionCurrent(u)' /\ SessionFrom(u)
  <2>1. Granted(u)' = Granted(u)
    BY DEF Granted, OfRoles
  <2>2. SessionCurrent(u)'
    BY <2>1, SessionKept DEF Inv, CachesOK
  <2> QED BY <2>2 DEF SessionFrom
<1>3. KeyCurrent'
  BY KeyKept DEF Inv, CachesOK
<1> QED BY <1>1, <1>2, <1>3 DEF CachesOK

LEMMA ChangeRuleStep ==
  ASSUME Inv, NEW k \in Key, NEW row \in Rule \union {None},
         row # None => row.perms \subseteq Permissions, ChangeRule(k, row)
  PROVE  Inv'
<1> USE DEF accounts
<1>0. TablesOK /\ CachesTyped
  BY TypeParts DEF Inv
<1>1. /\ rule' = [rule EXCEPT ![k] = row]
      /\ ruleCache' = [ruleCache EXCEPT ![k] =
            IF row # None /\ row.enabled THEN CodesOf(row.perms) ELSE None]
      /\ staleRules' = staleRules \ {k}
      /\ UNCHANGED <<code, drawn, role, accounts, keyPerms, session, keyCache,
                     staleUsers, staleKey>>
  BY DEF ChangeRule
<1>2. TablesOK'
  <2>1. /\ rule' \in [Key -> Rule \union {None}]
        /\ \A n \in Key : rule'[n] # None => rule'[n].perms \subseteq Permissions
    BY <1>0, <1>1 DEF TablesOK
  <2> QED BY <1>0, <1>1, <2>1, RuleTables
<1>3. row # None => CodesOf(row.perms) \in SUBSET Code
  BY <1>0, CodesTyped
<1>4. ruleCache' \in [Key -> (SUBSET Code) \union {None}] /\ staleRules' \subseteq Key
  BY <1>0, <1>1, <1>3 DEF CachesTyped
<1>5. rule'[k] = row
      /\ ruleCache'[k] = IF row # None /\ row.enabled THEN CodesOf(row.perms) ELSE None
  BY <1>0, <1>1 DEF TablesOK, CachesTyped
<1>6. RuleCurrent(k)' /\ RuleFrom(k)
  BY <1>1, <1>5 DEF RuleCurrent, EnabledRules, CodesOf, RuleFrom
<1>7. ASSUME NEW n \in Key, n # k PROVE RuleCurrent(n)' /\ RuleFrom(n)
  <2>1. /\ rule'[n] = rule[n] /\ ruleCache'[n] = ruleCache[n]
        /\ n \in staleRules => n \in staleRules'
    BY <1>0, <1>1, <1>7 DEF TablesOK, CachesTyped
  <2>2. RuleCurrent(n)'
    BY <1>1, <2>1, RuleKept DEF Inv, CachesOK
  <2> QED BY <2>1, <2>2 DEF RuleFrom
<1>8. /\ CachesTyped' /\ CachesOK'
      /\ \A v \in User : SessionFrom(v)
      /\ \A n \in Key : RuleFrom(n)
  BY <1>1, <1>4, <1>6, <1>7, RuleCaches
<1> QED BY <1>2, <1>8, EditStep DEF ChangeRule

LEMMA RuleStep ==
  ASSUME Inv, NEW k \in Key,
         \/ CreateRule(k) \/ EnableRule(k) \/ DisableRule(k) \/ DeleteRule(k)
         \/ \E Q \in SUBSET Permissions : AssignRulePermissions(k, Q)
  PROVE  Inv'
<1>0. TablesOK
  BY TypeParts DEF Inv
<1>1. rule[k] # None => rule[k] \in Rule /\ rule[k].perms \in SUBSET Permissions
  BY <1>0, RuleFacts
<1>2. CASE CreateRule(k)
  <2>1. [enabled |-> TRUE, perms |-> {}] \in Rule
    BY DEF Rule
  <2> QED BY <1>2, <2>1, ChangeRuleStep DEF CreateRule
<1>3. CASE EnableRule(k)
  <2>1. rule[k] # None /\ ChangeRule(k, [rule[k] EXCEPT !.enabled = TRUE])
    BY <1>3 DEF EnableRule
  <2>2. [rule[k] EXCEPT !.enabled = TRUE] \in Rule
        /\ [rule[k] EXCEPT !.enabled = TRUE].perms = rule[k].perms
    BY <1>1, <2>1 DEF Rule
  <2> QED BY <1>1, <2>1, <2>2, ChangeRuleStep
<1>4. CASE DisableRule(k)
  <2>1. rule[k] # None /\ ChangeRule(k, [rule[k] EXCEPT !.enabled = FALSE])
    BY <1>4 DEF DisableRule
  <2>2. [rule[k] EXCEPT !.enabled = FALSE] \in Rule
        /\ [rule[k] EXCEPT !.enabled = FALSE].perms = rule[k].perms
    BY <1>1, <2>1 DEF Rule
  <2> QED BY <1>1, <2>1, <2>2, ChangeRuleStep
<1>5. CASE DeleteRule(k)
  BY <1>5, ChangeRuleStep DEF DeleteRule
<1>6. ASSUME NEW Q \in SUBSET Permissions, AssignRulePermissions(k, Q) PROVE Inv'
  <2>1. rule[k] # None /\ ChangeRule(k, [rule[k] EXCEPT !.perms = Q])
    BY <1>6 DEF AssignRulePermissions
  <2>2. [rule[k] EXCEPT !.perms = Q] \in Rule /\ [rule[k] EXCEPT !.perms = Q].perms = Q
    BY <1>1, <2>1 DEF Rule, Permissions
  <2> QED BY <2>1, <2>2, ChangeRuleStep
<1> QED BY <1>2, <1>3, <1>4, <1>5, <1>6

LEMMA RenameRuleStep ==
  ASSUME Inv, NEW k \in Key, NEW name \in Key, RenameRule(k, name)
  PROVE  Inv'
<1> USE DEF accounts
<1>0. TablesOK /\ CachesTyped
  BY TypeParts DEF Inv
<1>1. /\ rule[k] # None /\ rule[name] = None
      /\ rule' = [rule EXCEPT ![k] = None, ![name] = rule[k]]
      /\ ruleCache' = [ruleCache EXCEPT ![k] = None, ![name] =
            IF rule[k].enabled THEN CodesOf(rule[k].perms) ELSE None]
      /\ staleRules' = staleRules \ {k, name}
      /\ UNCHANGED <<code, drawn, role, accounts, keyPerms, session, keyCache,
                     staleUsers, staleKey>>
  BY DEF RenameRule
<1>2. rule[k] \in Rule /\ rule[k].perms \in SUBSET Permissions /\ k # name
  BY <1>0, <1>1, RuleFacts
<1>3. \A n \in Key : rule'[n] = IF n = name THEN rule[k] ELSE IF n = k THEN None ELSE rule[n]
  BY <1>0, <1>1, <1>2 DEF TablesOK
<1>4. TablesOK'
  <2>1. rule' \in [Key -> Rule \union {None}]
    BY <1>0, <1>1, <1>2 DEF TablesOK
  <2>2. \A n \in Key : rule'[n] # None => rule'[n].perms \subseteq Permissions
    BY <1>0, <1>2, <1>3 DEF TablesOK
  <2> QED BY <1>0, <1>1, <2>1, <2>2, RuleTables
<1>5. CodesOf(rule[k].perms) \in SUBSET Code
  BY <1>0, <1>2, CodesTyped
<1>6. ruleCache' \in [Key -> (SUBSET Code) \union {None}] /\ staleRules' \subseteq Key
  BY <1>0, <1>1, <1>5 DEF CachesTyped
<1>7. /\ ruleCache'[name] = IF rule[k].enabled THEN CodesOf(rule[k].perms) ELSE None
      /\ ruleCache'[k] = None
  BY <1>0, <1>1, <1>2 DEF CachesTyped
<1>8. RuleCurrent(name)' /\ RuleFrom(name) /\ RuleCurrent(k)' /\ RuleFrom(k)
  <2>1. RuleCurrent(k)' /\ RuleFrom(k)
    BY <1>7 DEF RuleCurrent, RuleFrom
  <2>2. rule'[name] = rule[k] /\ code' = code
    BY <1>1, <1>3
  <2>3. CodesOf(rule[name].perms)' = CodesOf(rule[k].perms)
    BY <2>2 DEF CodesOf
  <2>4. RuleFrom(name)
    BY <1>1, <1>7, <2>2, <2>3 DEF RuleFrom
  <2>5. ASSUME ruleCache'[name] # None PROVE name \in EnabledRules'
    BY <1>1, <1>7, <2>2, <2>5 DEF EnabledRules
  <2>6. RuleCurrent(name)'
    BY <1>7, <2>3, <2>5 DEF RuleCurrent
  <2> QED BY <2>1, <2>4, <2>6
<1>9. ASSUME NEW n \in Key, n # k, n # name PROVE RuleCurrent(n)' /\ RuleFrom(n)
  <2>1. /\ rule'[n] = rule[n] /\ ruleCache'[n] = ruleCache[n]
        /\ n \in staleRules => n \in staleRules'
    BY <1>0, <1>1, <1>3, <1>9 DEF CachesTyped
  <2>2. RuleCurrent(n)'
    BY <1>1, <2>1, RuleKept DEF Inv, CachesOK
  <2> QED BY <2>1, <2>2 DEF RuleFrom
<1>10. /\ CachesTyped' /\ CachesOK'
       /\ \A v \in User : SessionFrom(v)
       /\ \A n \in Key : RuleFrom(n)
  BY <1>1, <1>6, <1>8, <1>9, RuleCaches
<1> QED BY <1>4, <1>10, EditStep DEF RenameRule

\* The same for the API key.
LEMMA ChangeKeyPermissionsStep ==
  ASSUME Inv, NEW Q \in SUBSET Permissions, ChangeKeyPermissions(Q)
  PROVE  Inv'
<1> USE DEF accounts
<1>0. TablesOK /\ CachesTyped
  BY TypeParts DEF Inv
<1>1. /\ keyPerms' = Q /\ keyCache' = CodesOf(Q) /\ staleKey' = FALSE
      /\ UNCHANGED <<code, drawn, role, accounts, rule, session, ruleCache,
                     staleUsers, staleRules>>
  BY DEF ChangeKeyPermissions
<1>2. TablesOK'
  BY <1>0, <1>1 DEF TablesOK, Permissions, RolesInUse
<1>3. CodesOf(Q) \in SUBSET Code
  BY <1>0, CodesTyped
<1>4. staleKey' \in BOOLEAN
  BY <1>1, Zenon
<1>5. CachesTyped'
  BY <1>0, <1>1, <1>3, <1>4 DEF CachesTyped
<1>6. KeyCurrent'
  BY <1>1 DEF KeyCurrent, CodesOf
<1>7. ASSUME NEW u \in User PROVE SessionCurrent(u)' /\ SessionFrom(u)
  <2>1. Granted(u)' = Granted(u)
    BY <1>1 DEF Granted, OfRoles
  <2>2. SessionCurrent(u)'
    BY <1>1, <2>1, SessionKept DEF Inv, CachesOK
  <2> QED BY <1>1, <2>2 DEF SessionFrom
<1>8. \A k \in Key : RuleCurrent(k)' /\ RuleFrom(k)
  BY <1>1, RuleKept DEF Inv, CachesOK, RuleFrom
<1>9. CachesOK'
  BY <1>6, <1>7, <1>8 DEF CachesOK
<1> QED BY <1>2, <1>5, <1>7, <1>8, <1>9, EditStep DEF ChangeKeyPermissions

\* The entries of rules and of the API key are read, filled or written anew.
LEMMA EntriesStep ==
  ASSUME Inv, UNCHANGED <<tables, session, staleUsers>>,
         ruleCache' \in [Key -> (SUBSET Code) \union {None}], staleRules' \subseteq Key,
         keyCache' \in (SUBSET Code) \union {None}, staleKey' \in BOOLEAN, KeyCurrent',
         \A k \in Key : RuleCurrent(k)' /\ RuleFrom(k)
  PROVE  Inv'
<1>0. CachesTyped
  BY TypeParts DEF Inv
<1>1. CachesTyped'
  BY <1>0 DEF CachesTyped
<1>2. ASSUME NEW u \in User PROVE SessionCurrent(u)' /\ SessionFrom(u)
  <2>1. UNCHANGED <<code, role, roles>>
    BY DEF tables, catalogue, accounts
  <2>2. Granted(u)' = Granted(u)
    BY <2>1 DEF Granted, OfRoles
  <2>3. SessionCurrent(u)'
    BY <2>1, <2>2, SessionKept DEF Inv, CachesOK
  <2> QED BY <2>3 DEF SessionFrom
<1>3. CachesOK'
  BY <1>2 DEF CachesOK
<1> QED BY <1>1, <1>2, <1>3, CacheStep

\* A rule of the tables, and the entry it makes, when the tables stay.
LEMMA EntryTyped ==
  ASSUME Inv, NEW k \in EnabledRules
  PROVE  k \in Key /\ rule[k] # None /\ CodesOf(rule[k].perms) \in SUBSET Code
<1>0. TablesOK
  BY TypeParts DEF Inv
<1>1. k \in Key /\ rule[k] # None /\ rule[k].perms \in SUBSET Permissions
  BY <1>0, RuleFacts DEF EnabledRules
<1> QED BY <1>0, <1>1, CodesTyped

LEMMA TablesStay ==
  ASSUME UNCHANGED tables
  PROVE  /\ UNCHANGED <<code, rule, keyPerms>>
         /\ EnabledRules' = EnabledRules
         /\ \A k \in Key : CodesOf(rule[k].perms)' = CodesOf(rule[k].perms)
         /\ CodesOf(keyPerms)' = CodesOf(keyPerms)
  BY DEF tables, catalogue, EnabledRules, CodesOf

LEMMA FilledEntries ==
  ASSUME Inv, UNCHANGED <<tables, staleRules>>, NEW n \in Key,
         ruleCache' = ruleCache \/ ruleCache' = Filled(n)
  PROVE  /\ ruleCache' \in [Key -> (SUBSET Code) \union {None}]
         /\ \A k \in Key : RuleCurrent(k)' /\ RuleFrom(k)
<1>0. CachesTyped
  BY TypeParts DEF Inv
<1>1. ruleCache'[n] = ruleCache[n]
      \/ (n \in EnabledRules /\ ruleCache'[n] = CodesOf(rule[n].perms))
      \/ ruleCache'[n] = None
  BY <1>0 DEF CachesTyped, Filled, RequiredCodes
<1>2. \A k \in Key \ {n} : ruleCache'[k] = ruleCache[k]
  BY <1>0 DEF CachesTyped, Filled
<1>3. ruleCache' \in [Key -> (SUBSET Code) \union {None}]
  BY <1>0, EntryTyped DEF CachesTyped, Filled, RequiredCodes
<1>4. ASSUME NEW k \in Key, ruleCache'[k] = ruleCache[k]
      PROVE  RuleCurrent(k)' /\ RuleFrom(k)
  BY <1>4, TablesStay, RuleKept DEF Inv, CachesOK, RuleFrom
<1>5. ASSUME n \in EnabledRules, ruleCache'[n] = CodesOf(rule[n].perms)
      PROVE  RuleCurrent(n)' /\ RuleFrom(n)
  BY <1>5, EntryTyped, TablesStay DEF RuleCurrent, RuleFrom
<1>6. ASSUME ruleCache'[n] = None PROVE RuleCurrent(n)' /\ RuleFrom(n)
  BY <1>6 DEF RuleCurrent, RuleFrom
<1> QED BY <1>1, <1>2, <1>3, <1>4, <1>5, <1>6

LEMMA UserRequestStep ==
  ASSUME Inv, NEW u \in User, NEW k \in Key, UserRequest(u, k)
  PROVE  Inv'
<1>0. CachesTyped
  BY TypeParts DEF Inv
<1>1. UNCHANGED <<tables, session, keyCache, staleUsers, staleRules, staleKey>>
      /\ ruleCache' = Filled(k)
  BY DEF UserRequest, stale
<1>2. /\ ruleCache' \in [Key -> (SUBSET Code) \union {None}]
      /\ \A n \in Key : RuleCurrent(n)' /\ RuleFrom(n)
  BY <1>1, FilledEntries
<1>3. KeyCurrent'
  BY <1>1, TablesStay, KeyKept DEF Inv, CachesOK
<1> QED BY <1>0, <1>1, <1>2, <1>3, EntriesStep DEF CachesTyped

LEMMA KeyRequestStep ==
  ASSUME Inv, NEW k \in Key, KeyRequest(k)
  PROVE  Inv'
<1>0. TablesOK /\ CachesTyped
  BY TypeParts DEF Inv
<1>1. UNCHANGED <<tables, session, staleUsers, staleRules, staleKey>>
      /\ keyCache' = KeyCodes /\ (ruleCache' = ruleCache \/ ruleCache' = Filled(k))
  BY DEF KeyRequest, stale
<1>2. /\ ruleCache' \in [Key -> (SUBSET Code) \union {None}]
      /\ \A n \in Key : RuleCurrent(n)' /\ RuleFrom(n)
  BY <1>1, FilledEntries
<1>3. CodesOf(keyPerms) \in SUBSET Code
  BY <1>0, CodesTyped DEF TablesOK
<1>4. keyCache' \in (SUBSET Code) \union {None}
  BY <1>0, <1>1, <1>3 DEF CachesTyped, KeyCodes
<1>5. KeyCurrent'
  BY <1>1, TablesStay DEF Inv, CachesOK, KeyCurrent, KeyCodes
<1> QED BY <1>0, <1>1, <1>2, <1>4, <1>5, EntriesStep DEF CachesTyped

LEMMA RebuildStep ==
  ASSUME Inv, Rebuild
  PROVE  Inv'
<1>0. CachesTyped
  BY TypeParts DEF Inv
<1>1. /\ UNCHANGED <<tables, session, keyCache, staleUsers, staleKey>>
      /\ staleRules' = {}
      /\ ruleCache' = [k \in Key |->
            IF k \in EnabledRules THEN CodesOf(rule[k].perms) ELSE None]
  BY DEF Rebuild
<1>2. ruleCache' \in [Key -> (SUBSET Code) \union {None}]
  BY <1>1, EntryTyped
<1>3. ASSUME NEW k \in Key PROVE RuleCurrent(k)' /\ RuleFrom(k)
  BY <1>1, EntryTyped, TablesStay DEF RuleCurrent, RuleFrom
<1>4. KeyCurrent'
  BY <1>1, TablesStay, KeyKept DEF Inv, CachesOK
<1> QED BY <1>0, <1>1, <1>2, <1>3, <1>4, EntriesStep DEF CachesTyped

LEMMA RestartStep ==
  ASSUME Inv, Restart
  PROVE  Inv'
<1>0. TablesOK /\ CachesTyped
  BY TypeParts DEF Inv
<1>1. /\ UNCHANGED <<tables, session, staleUsers>>
      /\ staleRules' = staleRules \ EnabledRules /\ staleKey' = FALSE
      /\ keyCache' = CodesOf(keyPerms)
      /\ ruleCache' = [k \in Key |->
            IF k \in EnabledRules THEN CodesOf(rule[k].perms) ELSE ruleCache[k]]
  BY DEF Restart
<1>2. ruleCache' \in [Key -> (SUBSET Code) \union {None}]
  BY <1>0, <1>1, EntryTyped DEF CachesTyped
<1>3. ASSUME NEW k \in Key PROVE RuleCurrent(k)' /\ RuleFrom(k)
  <2>1. CASE k \in EnabledRules
    BY <1>1, <2>1, EntryTyped, TablesStay DEF RuleCurrent, RuleFrom
  <2>2. CASE k \notin EnabledRules
    <3>1. ruleCache'[k] = ruleCache[k] /\ (k \in staleRules => k \in staleRules')
      BY <1>1, <2>2
    <3> QED BY <1>1, <2>2, <3>1, TablesStay, RuleKept DEF Inv, CachesOK, RuleFrom
  <2> QED BY <2>1, <2>2
<1>4. CodesOf(keyPerms) \in SUBSET Code
  BY <1>0, CodesTyped DEF TablesOK
<1>5. KeyCurrent'
  BY <1>1, TablesStay DEF KeyCurrent
<1>6. staleKey' \in BOOLEAN
  BY <1>1, Zenon
<1>7. staleRules' \subseteq Key
  BY <1>0, <1>1 DEF CachesTyped
<1> QED BY <1>1, <1>2, <1>3, <1>4, <1>5, <1>6, <1>7, EntriesStep

-----------------------------------------------------------------------------
(* The seed.                                                               *)

\* Every code of the seed has its permission afterwards, and no other row of
\* the table changes.
LEMMA SeedPermissionsFacts ==
  ASSUME TablesOK, CanSeed, NEW codeNow, codeNow = seedPermissions
  PROVE  /\ codeNow \in [PermId -> Code \union {None}]
         /\ \A i \in Permissions : codeNow[i] = code[i]
         /\ \A i, j \in PermId : codeNow[i] # None /\ codeNow[i] = codeNow[j] => i = j
         /\ \A c \in SeedPermissions : \E i \in PermId : codeNow[i] = c
<1>0. SeedPermissions \subseteq Code /\ None \notin Code
  BY AuthorizationConstants
<1>1. PICK missing : missing = {c \in SeedPermissions : IsFree(c)}
  OBVIOUS
<1>2. PICK inserted : inserted = {FreshId(c) : c \in missing}
  OBVIOUS
<1>3. codeNow = [i \in PermId |-> IF i \in inserted THEN i[1] ELSE code[i]]
  BY <1>1, <1>2 DEF seedPermissions
<1>4. \A c \in missing : /\ c \in Code /\ IsFree(c)
                         /\ FreshId(c) \in PermId /\ FreshId(c)[1] = c
                         /\ FreshId(c) \notin Permissions
  BY <1>0, <1>1, FreshFacts DEF CanSeed
<1>5. \A i \in inserted : /\ i[1] \in missing /\ i = FreshId(i[1])
                          /\ i \in PermId /\ i \notin Permissions
  BY <1>2, <1>4
<1>6. \A i \in PermId : codeNow[i] = IF i \in inserted THEN i[1] ELSE code[i]
  BY <1>3
<1>7. \A i \in PermId : i \notin inserted /\ codeNow[i] # None => i \in Permissions
  BY <1>6 DEF Permissions
<1>8. codeNow \in [PermId -> Code \union {None}]
  BY <1>3, <1>4, <1>5 DEF TablesOK
<1>9. \A i \in Permissions : codeNow[i] = code[i]
  BY <1>5, <1>6 DEF Permissions
<1>10. ASSUME NEW i \in PermId, NEW j \in PermId, codeNow[i] # None, codeNow[i] = codeNow[j]
       PROVE  i = j
  <2>1. CASE i \in inserted /\ j \in inserted
    BY <1>5, <1>6, <1>10, <2>1
  <2>2. CASE i \notin inserted /\ j \notin inserted
    BY <1>6, <1>7, <1>10, <2>2 DEF TablesOK
  <2>3. CASE i \in inserted /\ j \notin inserted
    BY <1>4, <1>5, <1>6, <1>10, <2>3 DEF IsFree
  <2>4. CASE i \notin inserted /\ j \in inserted
    BY <1>4, <1>5, <1>6, <1>10, <2>4 DEF IsFree
  <2> QED BY <2>1, <2>2, <2>3, <2>4
<1>11. ASSUME NEW c \in SeedPermissions PROVE \E i \in PermId : codeNow[i] = c
  <2>1. CASE IsFree(c)
    <3>1. c \in missing
      BY <1>1, <2>1
    <3>2. FreshId(c) \in inserted /\ FreshId(c) \in PermId /\ FreshId(c)[1] = c
      BY <1>2, <1>4, <3>1
    <3>3. codeNow[FreshId(c)] = c
      BY <1>6, <3>2
    <3> QED BY <3>2, <3>3
  <2>2. CASE ~IsFree(c)
    <3>1. PICK i \in PermId : code[i] = c
      BY <2>2 DEF IsFree
    <3>2. i \in Permissions
      BY <1>0, <3>1 DEF Permissions
    <3> QED BY <1>9, <3>1, <3>2
  <2> QED BY <2>1, <2>2
<1> QED BY <1>8, <1>9, <1>10, <1>11

LEMMA SeedStep ==
  ASSUME Inv, NEW r \in RoleId, Seed(r)
  PROVE  Inv'
<1>0. TablesOK /\ CachesTyped /\ CountersTyped
  BY TypeParts DEF Inv
<1>c. /\ Admin \in User /\ SuperAdmin \in RoleName
      /\ SeedRules \in [DOMAIN SeedRules -> SeedPermissions]
      /\ DOMAIN SeedRules \subseteq Key /\ None \notin Role /\ None \notin Rule
      /\ \A R \in SUBSET RoleId : None # R
  BY AuthorizationConstants
<1>1. PICK codeNow : codeNow = seedPermissions
  OBVIOUS
<1>2. PICK all : all = {i \in PermId : codeNow[i] # None}
  OBVIOUS
<1>3. SeedTables(codeNow, all, r) /\ CanSeed /\ IsUpserted(r)
  BY <1>1, <1>2 DEF Seed
<1>4. /\ code' = codeNow
      /\ drawn' = drawn \union all
      /\ rule' = [k \in Key |-> IF k \in DOMAIN SeedRules
            THEN [enabled |-> TRUE, perms |-> {i \in PermId : codeNow[i] = SeedRules[k]}]
            ELSE rule[k]]
      /\ role' = [role EXCEPT ![r] = [name |-> SuperAdmin, perms |-> all]]
      /\ roles' = [roles EXCEPT ![Admin] = {r}]
      /\ active' = active \union {Admin}
      /\ staleUsers' = staleUsers \union {Admin} \union WithRole(r)
      /\ staleRules' = staleRules \union DOMAIN SeedRules
      /\ UNCHANGED <<keyPerms, caches, edits, staleKey>>
      /\ Record
  BY <1>2, <1>3 DEF SeedTables
<1>5. /\ codeNow \in [PermId -> Code \union {None}]
      /\ \A i \in Permissions : codeNow[i] = code[i]
      /\ \A i, j \in PermId : codeNow[i] # None /\ codeNow[i] = codeNow[j] => i = j
      /\ \A c \in SeedPermissions : \E i \in PermId : codeNow[i] = c
  BY <1>0, <1>1, <1>3, SeedPermissionsFacts
<1>6. Permissions' = all /\ Permissions \subseteq all /\ all \subseteq PermId
  BY <1>2, <1>4, <1>5 DEF Permissions
<1>7. \A q \in RoleId : role'[q] =
          IF q = r THEN [name |-> SuperAdmin, perms |-> all] ELSE role[q]
  BY <1>0, <1>4 DEF TablesOK
<1>8. [name |-> SuperAdmin, perms |-> all] \in Role
  BY <1>c, <1>6 DEF Role
<1>9. RolesInUse' = RolesInUse \union {r}
  BY <1>c, <1>7, <1>8 DEF RolesInUse
<1>10. ASSUME NEW k \in DOMAIN SeedRules
       PROVE  /\ k \in Key /\ rule'[k] \in Rule /\ rule'[k].enabled
              /\ rule'[k].perms = {i \in PermId : codeNow[i] = SeedRules[k]}
              /\ rule'[k].perms \subseteq all /\ rule'[k].perms # {}
  <2>1. k \in Key /\ SeedRules[k] \in SeedPermissions
    BY <1>c
  <2>2. rule'[k] = [enabled |-> TRUE, perms |-> {i \in PermId : codeNow[i] = SeedRules[k]}]
    BY <1>4, <2>1
  <2>3. SeedRules[k] # None
    BY <2>1, AuthorizationConstants
  <2>4. {i \in PermId : codeNow[i] = SeedRules[k]} # {}
    BY <1>5, <2>1
  <2> QED BY <1>2, <2>1, <2>2, <2>3, <2>4 DEF Rule
<1>11. \A k \in Key \ DOMAIN SeedRules : rule'[k] = rule[k]
  BY <1>4
<1>12. TablesOK'
  <2>1. code' \in [PermId -> Code \union {None}] /\ Permissions' \subseteq drawn'
        /\ drawn' \subseteq PermId
    BY <1>0, <1>4, <1>5, <1>6 DEF TablesOK
  <2>2. \A i, j \in Permissions' : code'[i] = code'[j] => i = j
    BY <1>2, <1>4, <1>5, <1>6
  <2>3. role' \in [RoleId -> Role \union {None}]
    BY <1>0, <1>4, <1>8 DEF TablesOK
  <2>4. \A q \in RolesInUse' : role'[q].perms \subseteq Permissions'
    BY <1>0, <1>6, <1>7, <1>9 DEF TablesOK, RolesInUse
  <2>5. \A q \in RolesInUse : q # r => role[q].name # SuperAdmin
    BY <1>0, <1>3 DEF TablesOK, IsUpserted, IsNew
  <2>6. \A q, t \in RolesInUse' : role'[q].name = role'[t].name => q = t
    BY <1>0, <1>7, <1>9, <2>5 DEF TablesOK, RolesInUse
  <2>7. roles' \in [User -> (SUBSET RoleId) \union {None}]
    BY <1>0, <1>4 DEF TablesOK
  <2>8. \A u \in User : roles'[u] # None => roles'[u] \subseteq RolesInUse'
    BY <1>0, <1>4, <1>9 DEF TablesOK
  <2>9. rule' \in [Key -> Rule \union {None}]
    BY <1>0, <1>4, <1>10, <1>11 DEF TablesOK
  <2>10. \A k \in Key : rule'[k] # None => rule'[k].perms \subseteq Permissions'
    BY <1>0, <1>6, <1>10, <1>11 DEF TablesOK
  <2>11. active' \subseteq User /\ keyPerms' \subseteq Permissions'
    BY <1>0, <1>c, <1>4, <1>6 DEF TablesOK
  <2> QED BY <2>1, <2>2, <2>3, <2>4, <2>6, <2>7, <2>8, <2>9, <2>10, <2>11 DEF TablesOK
<1>13. \A u \in User : roles[u] # None => roles'[u] # None
  BY <1>0, <1>c, <1>4 DEF TablesOK
<1>14. ASSUME NEW u \in User, u \notin staleUsers'
       PROVE  Granted(u)' = Granted(u) /\ \A i \in Granted(u) : code'[i] = code[i]
  <2>1. roles'[u] = roles[u] /\ (roles[u] # None => r \notin roles[u])
    BY <1>0, <1>4, <1>14 DEF TablesOK, WithRole
  <2>2. \A q \in RolesInUse : roles[u] # None /\ q \in roles[u] =>
                                  role'[q].perms = role[q].perms
    BY <1>7, <2>1 DEF RolesInUse
  <2>3. Granted(u)' = Granted(u)
    BY <1>0, <2>1, <2>2, GrantedKept
  <2> QED BY <1>0, <1>4, <1>5, <2>3, GrantedTyped
<1>15. ASSUME NEW k \in Key, k \notin staleRules', k \in EnabledRules
       PROVE  rule'[k] = rule[k] /\ \A i \in rule[k].perms : code'[i] = code[i]
  <2>1. rule'[k] = rule[k]
    BY <1>4, <1>11, <1>15
  <2>2. rule[k].perms \in SUBSET Permissions
    BY <1>0, <1>15, RuleFacts DEF EnabledRules
  <2> QED BY <1>4, <1>5, <2>1, <2>2
<1>16. keyPerms' = keyPerms /\ \A i \in keyPerms : code'[i] = code[i]
  BY <1>0, <1>4, <1>5 DEF TablesOK
<1>17. /\ CachesTyped' /\ CachesOK'
       /\ \A u \in User : SessionFrom(u)
       /\ \A k \in Key : RuleFrom(k)
  <2>1. /\ staleUsers \subseteq staleUsers' /\ staleUsers' \subseteq User
        /\ staleRules \subseteq staleRules' /\ staleRules' \subseteq Key
    BY <1>0, <1>c, <1>4 DEF CachesTyped, WithRole
  <2>2. staleKey' \in BOOLEAN /\ (staleKey => staleKey')
    BY <1>0, <1>4 DEF CachesTyped
  <2>3. UNCHANGED caches
    BY <1>4
  <2> QED BY <1>13, <1>14, <1>15, <1>16, <2>1, <2>2, <2>3, CachesUntouched
<1>18. HistoryOK' /\ HistoryTyped' /\ Grows
  BY <1>4, <1>12, HistoryStep DEF Inv
<1>19. OriginOK'
  BY <1>12, <1>17, <1>18, OriginStep
<1>20. SeededOK'
  <2>1. roles'[Admin] = {r} /\ {r} # None /\ role'[r].perms = all
    BY <1>0, <1>c, <1>4, <1>7 DEF TablesOK
  <2>2. Granted(Admin)' = all
    BY <2>1 DEF Granted, OfRoles
  <2>3. ASSUME NEW k \in DOMAIN SeedRules PROVE TablesAllow(Granted(Admin), k)'
    <3>1. k \in EnabledRules'
      BY <1>c, <1>10 DEF EnabledRules
    <3>2. Granted(Admin)' \intersect rule'[k].perms # {}
      BY <1>10, <2>2
    <3> QED BY <3>1, <3>2 DEF TablesAllow
  <2>4. Admin \in active'
    BY <1>4
  <2> QED BY <2>3, <2>4 DEF SeededOK
<1>21. CountersTyped'
  <2>1. edits' \in 0..MaxEdits
    BY <1>0, <1>4 DEF CountersTyped
  <2>2. seeded' = TRUE
    BY <1>3 DEF SeedTables
  <2> QED BY <2>1, <2>2, Zenon DEF CountersTyped
<1>22. TypeOK'
  BY <1>12, <1>17, <1>18, <1>21
     DEF TypeOK, TablesOK, CachesTyped, HistoryTyped, CountersTyped
<1> QED BY <1>17, <1>18, <1>19, <1>20, <1>22 DEF Inv

-----------------------------------------------------------------------------
(* The theorems.                                                           *)

LEMMA StutterStep ==
  ASSUME Inv, UNCHANGED vars
  PROVE  Inv'
<1>0. TablesOK /\ CachesTyped /\ HistoryTyped /\ CountersTyped
  BY TypeParts DEF Inv
<1>1. UNCHANGED <<tables, session, staleUsers>>
      /\ ruleCache' = ruleCache /\ staleRules' = staleRules
      /\ keyCache' = keyCache /\ staleKey' = staleKey
  BY DEF vars, tables, catalogue, accounts
<1>2. KeyCurrent'
  BY <1>1, TablesStay, KeyKept DEF Inv, CachesOK
<1>3. \A k \in Key : RuleCurrent(k)' /\ RuleFrom(k)
  BY <1>1, TablesStay, RuleKept DEF Inv, CachesOK, RuleFrom
<1> QED BY <1>0, <1>1, <1>2, <1>3, EntriesStep DEF CachesTyped

LEMMA InvNext == Inv /\ [Next]_vars => Inv'
<1> SUFFICES ASSUME Inv, [Next]_vars PROVE Inv'
  OBVIOUS
<1>1. ASSUME NEW c \in Code, CreatePermission(c) PROVE Inv'
  BY <1>1, CreatePermissionStep
<1>2. ASSUME NEW i \in Permissions, NEW c \in Code, UpdatePermission(i, c) PROVE Inv'
  BY <1>2, UpdatePermissionStep
<1>3. ASSUME NEW i \in Permissions, DeletePermission(i) PROVE Inv'
  BY <1>3, DeletePermissionStep
<1>4. ASSUME NEW r \in RoleId, NEW name \in RoleName,
             CreateRole(r, name) \/ UpdateRole(r, name)
      PROVE  Inv'
  BY <1>4, RoleNameStep
<1>5. ASSUME NEW r \in RolesInUse, DeleteRole(r) PROVE Inv'
  BY <1>5, DeleteRoleStep
<1>6. ASSUME NEW Q \in SUBSET Permissions, NEW r \in RolesInUse, AssignPermissions(r, Q)
      PROVE  Inv'
  BY <1>6, AssignPermissionsStep
<1>7. ASSUME NEW Q \in SUBSET Permissions, NEW k \in Key, AssignRulePermissions(k, Q)
      PROVE  Inv'
  BY <1>7, RuleStep
<1>8. ASSUME NEW Q \in SUBSET Permissions, ChangeKeyPermissions(Q) PROVE Inv'
  BY <1>8, ChangeKeyPermissionsStep
<1>9. ASSUME NEW u \in User, NEW R \in SUBSET RolesInUse, Register(u, R) \/ AssignRole(u, R)
      PROVE  Inv'
  BY <1>9, RegisterStep, AssignRoleStep
<1>10. ASSUME NEW u \in User, SetStatus(u) \/ LogIn(u) \/ Refresh(u) \/ LogOut(u) PROVE Inv'
  BY <1>10, SetStatusStep, SessionStep
<1>11. ASSUME NEW k \in Key, CreateRule(k) \/ EnableRule(k) \/ DisableRule(k) \/ DeleteRule(k)
       PROVE  Inv'
  BY <1>11, RuleStep
<1>12. ASSUME NEW k \in Key, NEW name \in Key, RenameRule(k, name) PROVE Inv'
  BY <1>12, RenameRuleStep
<1>13. CASE Rebuild \/ Restart
  BY <1>13, RebuildStep, RestartStep
<1>14. ASSUME NEW k \in Key, (\E u \in User : UserRequest(u, k)) \/ KeyRequest(k) PROVE Inv'
  BY <1>14, UserRequestStep, KeyRequestStep
<1>15. ASSUME NEW r \in RoleId, Seed(r) PROVE Inv'
  BY <1>15, SeedStep
<1>16. CASE UNCHANGED vars
  BY <1>16, StutterStep
<1> QED BY <1>1, <1>2, <1>3, <1>4, <1>5, <1>6, <1>7, <1>8, <1>9, <1>10, <1>11, <1>12,
           <1>13, <1>14, <1>15, <1>16 DEF Next

\* The invariant holds after any sequence of operations.
LEMMA Invariance == Spec => []Inv
  BY InvInit, InvNext, PTL DEF Spec

\* In every reachable state the relations of roles, accounts, rules and the
\* API key lead to rows that exist, and codes and role names are unique.
THEOREM TypeCorrect == Spec => []TypeOK
<1>1. Inv => TypeOK
  BY DEF Inv
<1> QED BY <1>1, Invariance, PTL

\* Whatever administrators do, the guards decide by the cached codes what the
\* tables say by ids, except where a cache is one of those that the service
\* leaves behind.
THEOREM GuardsAreFaithful == Spec => []GuardsFollowTables
  BY Invariance, InvGuards, PTL

\* Even with caches left behind, a match of codes goes back to a permission
\* the user was granted and the endpoint asked for.
THEOREM NothingBorrowed == Spec => []NoBorrowedAccess
  BY Invariance, InvBorrowed, PTL

\* From any reachable database the seed gives the admin every seeded endpoint.
THEOREM SeedRestores == Spec => []SeedRestoresAdmin
  BY Invariance, InvSeed, PTL
=============================================================================
