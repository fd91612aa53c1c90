CONSTANTS
    Url = {u}
    Nothing = Nothing
    MaxRows = 3
SPECIFICATION Spec
INVARIANTS
    TypeOK
    StatusExplained
    BootstrapDelivers
