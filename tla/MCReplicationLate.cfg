CONSTANTS
    a = a
    x = x
    y = y
    summary = summary
    ended = ended
    None = None
    Device = {d1, d2}
    Change = {x, y}
    Field = {summary, ended}
    Sets <- SetBoth
    Carries <- CarryWhatIsThere
    Project = {a}
    ProjectOf <- OneProject
    Allowed = {a}
    Request = {r1, r2}
    BatchLimit = 2
    PushBatch = 2
    PullBatch = 2
    MaxRows = 3
SPECIFICATION ReplSpec
INVARIANT PulledByAll
