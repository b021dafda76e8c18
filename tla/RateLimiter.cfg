CONSTANTS
    Thread = {t1, t2}
    Key = {auth, sync}
    NoKey = nokey
    auth = auth
    sync = sync
    Limit <- RouteLimit
    Window = 2
    Second = 2
    MaxEntries = 1
    MaxTime = 5
SYMMETRY Symmetry
SPECIFICATION Spec
INVARIANT TypeOK
PROPERTIES ExactWindow RetryAfterSuffices
\* The clock stops at MaxTime.
CHECK_DEADLOCK FALSE
