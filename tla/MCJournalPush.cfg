CONSTANTS
    s = s
    Session = {s}
    Observation = {}
    Prompt = {}
    SessionOf <- OneSession
    Project = {a, b}
    Absent = Absent
    Worker = {w1, w2}
    BatchSize = 2
    MaxRows = 3
SPECIFICATION Spec
SYMMETRY Symmetry
INVARIANTS
    TypeOK
    PromiseKept
    NoGaps
PROPERTY
    ActsAsOutbox
