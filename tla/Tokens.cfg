SPECIFICATION Spec
CONSTANTS
    User = {u1}
    Sid = {s1}
    Req = {p1, p2}
    AuthTtl = 1
    RefreshTtl = 2
    Minute = 2
    Thresholds = {0, 1, 2}
    Horizon = 6
    None = None
SYMMETRY MCSymmetry
INVARIANTS
    TypeOK
    LoginBoundsAccess
    NoRotationNoImmortality
    DeactivationBoundsAccess
