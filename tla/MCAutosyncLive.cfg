CONSTANTS
    Proc = {p1, p2}
    None = None
    Gone = Gone
    MaxFailures = 1
    LeaseInterval = 1
    BaseBackoff = 1
    MaxBackoff = 1
    MaxDuration = 1
SPECIFICATION FairSpec
PROPERTIES
    WorkGoesOn
    ShutdownCompletes
