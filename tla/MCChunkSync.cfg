CONSTANTS
    s = s
    Session = {s}
    Observation = {o}
    SessionOf <- OneSession
    IdOf <- ShortId
    Machine = {a, b}
    Author = {a}
    Importer = {b}
    Remover = {b}
    Request = {r1}
    Nothing = Nothing
    MaxRows = 3
    MaxChunks = 2
SPECIFICATION ChunkSpec
INVARIANTS
    ChunkTypeOK
    ImportNeverStalls
PROPERTY
    WritesKept
