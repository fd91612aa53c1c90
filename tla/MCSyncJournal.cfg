CONSTANTS
    s = s
    Session = {s}
    Observation = {o}
    Prompt = {q}
    SessionOf <- OneSession
    Project = {a, b}
    Absent = Absent
    Worker = {}
    BatchSize = 2
    MaxRows = 3
SPECIFICATION Spec
SYMMETRY Symmetry
INVARIANTS
    JournalCoverage
