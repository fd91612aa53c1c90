CONSTANTS
    s = s
    Session = {s}
    Observation = {}
    Prompt = {}
    SessionOf <- OneSession
    Project = {a}
    Absent = Absent
    Worker = {w}
    BatchSize = 2
    MaxRows = 3
SPECIFICATION Spec
INVARIANT HistoryReplicated
