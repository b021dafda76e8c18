CHECK_DEADLOCK FALSE
CONSTANTS
    Secret = {s1}
    Empty = Empty
    Other = Other
    AutoLock = 1
    ClearAfter = 1
    MaxEdits = 1
    MaxCopies = 1
SPECIFICATION Spec
INVARIANTS
    StoredVaultOpens
