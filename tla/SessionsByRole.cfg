SPECIFICATION Spec
CONSTANTS
    User = {u1}
    Role = {r1, r2}
    Perm = {a, b}
    Sid = {s1, s2}
    Req = {p1}
    SessionTtl = 2
    MaxEdits = 2
    MaxFaults = 1
    None = None
SYMMETRY MCSymmetry
INVARIANT
    FreshPermissions
CHECK_DEADLOCK FALSE
