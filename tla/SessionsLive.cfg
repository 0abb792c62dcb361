SPECIFICATION FairSpec
CONSTANTS
    User = {u1}
    Role = {r1}
    Perm = {a}
    Sid = {s1}
    Req = {p1, p2}
    SessionTtl = 2
    MaxEdits = 2
    MaxFaults = 1
    None = None
PROPERTY
    RefreshConverges
CHECK_DEADLOCK FALSE
