CONSTANTS
    Device = {laptop, phone}
    Edit = {e1, e2}
    NoVault = novault
    MaxPushes = 3
    MaxFaults = 1
SYMMETRY Symmetry
SPECIFICATION Spec
INVARIANTS TypeOK KnownVersionIsContained NeverLockedOut
PROPERTIES PushKeepsServerEdits PullNeverLowers
\* At MaxPushes an upload has no answer left.
CHECK_DEADLOCK FALSE
