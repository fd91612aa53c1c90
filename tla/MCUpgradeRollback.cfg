\* What DOCS.md says of a rollback, which the code does not do.
CONSTANTS
    Url = {u}
    Nothing = Nothing
    MaxRows = 1
SPECIFICATION Spec
INVARIANT SnapshotHeld
