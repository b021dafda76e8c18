CONSTANTS
    Client = {c1, c2}
    Thread = {t1, t2}
    NoThread = nothread
    MaxTokens = 3
    MaxSecrets = 2
    MaxFaults = 1
SYMMETRY Symmetry
SPECIFICATION Spec
INVARIANTS TypeOK OneLivePerFamily EndedStaysEnded EnabledIsProved
PROPERTIES NoFalseReuse ImplementsFamily
\* Handlers stop at the bound on tokens or secrets.
CHECK_DEADLOCK FALSE
