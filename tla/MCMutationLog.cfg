CONSTANTS
    a = a
    b = b
    x = x
    y = y
    Change = {x, y}
    Project = {a, b}
    ProjectOf <- OneEach
    Allowed = {a, b}
    Request = {r1, r2}
    BatchLimit = 2
    MaxRows = 3
SPECIFICATION LogSpec
SYMMETRY RequestSymmetry
INVARIANTS
    LogTypeOK
    PauseHolds
    BatchWhole
PROPERTY
    ActsAsBatchLog
