CONSTANTS
    Proc = {p1, p2}
    None = None
    Gone = Gone
    MaxFailures = 2
    LeaseInterval = 2
    BaseBackoff = 2
    MaxBackoff = 3
    MaxDuration = 7
SPECIFICATION Spec
SYMMETRY Symmetry
INVARIANTS
    TypeOK
    MutualExclusion
    CycleAllowed
    StatusHonest
PROPERTY LeaseNotStolen
