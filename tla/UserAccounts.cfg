SPECIFICATION Spec
CONSTANTS
    User = {u}
    Token = {t1, t2}
    Req = {p1, p2}
    MaxFaults = 1
    None = None
SYMMETRY MCSymmetry
INVARIANTS
    TypeOK
    TemporaryPasswordOpensNothing
    TokenSpentOnce
    WelcomeMailsAccounted
PROPERTIES
    OnlyActivateReadmits
