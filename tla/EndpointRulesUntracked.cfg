SPECIFICATION FairSpec
CONSTANTS
    Rule = {i1}
    Name = {n}
    Perm = {a}
    Req = {p1, p2}
    MaxEdits = 2
    MaxFaults = 0
    None = None
PROPERTY
    DisabledEventuallyDenied
