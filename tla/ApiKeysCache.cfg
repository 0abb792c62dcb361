SPECIFICATION FairSpec
CONSTANTS
    Key = {k1, k2}
    Perm = {a}
    Req = {p1, p2}
    MaxEdits = 4
    MaxFaults = 1
    None = None
INVARIANTS
    TypeOK
    CacheTracked
    CachedPermissionsCurrent
PROPERTIES
    RevokedKeysEventuallyEvicted
    RevocationHolds
