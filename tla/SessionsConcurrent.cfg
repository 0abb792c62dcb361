SPECIFICATION Spec
CONSTANTS
    User = {u1, u2}
    Role = {r1}
    Perm = {a}
    Sid = {s1, s2}
    Req = {p1, p2}
    SessionTtl = 1
    MaxEdits = 2
    MaxFaults = 0
    None = None
SYMMETRY MCSymmetry
INVARIANTS
    TypeOK
    SessionsKeepTheirOwner
    NoForeignPermissions
PROPERTY
    OnlyInFlightRevives
CHECK_DEADLOCK FALSE
