SPECIFICATION FairSpec
CONSTANTS
    Rule = {i1, i2}
    Name = {m, n}
    Perm = {a}
    Req = {p1, p2}
    MaxEdits = 3
    MaxFaults = 2
    None = None
INVARIANTS
    TypeOK
    CacheAgreesWithRules
PROPERTIES
    EnabledRulesEventuallyCurrent
    TrackedDisabledDenied
    SerialDisabledDenied
