\* A session that ended takes no step.
CHECK_DEADLOCK FALSE
CONSTANTS
    Secret = {s1, s2}
    Empty = Empty
    Other = Other
    AutoLock = 2
    ClearAfter = 1
    MaxEdits = 2
    MaxCopies = 2
SPECIFICATION Spec
INVARIANTS
    TypeOK
    EndedStored
PROPERTIES
    CopiedSecretCleared
    IdleSessionEnds
