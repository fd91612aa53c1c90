CONSTANTS
    s = s
    t = t
    Chunk <- Chunks
    IdOf <- ShortId
    Request = {r1, r2}
    Reader = {v1, v2}
    Nothing = Nothing
SPECIFICATION StoreSpec
SYMMETRY Symmetry
INVARIANTS
    StoreTypeOK
    DashboardSettled
PROPERTY
    ActsAsChunkLog
