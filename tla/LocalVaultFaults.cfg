CONSTANTS
    Proc = {p1}
    Passphrase = {pw1, pw2}
    Contents = {empty, edited}
    EmptyVault = empty
    VaultId = vault
    Torn = torn
    NoFile = nofile
    MaxVersion = 3
    MaxDrawn = 3
    MaxFaults = 2
SYMMETRY Symmetry
SPECIFICATION Spec
INVARIANTS TypeOK OwnVaultNeverRefused AckedSurvives
PROPERTIES HighWaterNeverFalls
\* An init that fails uses up MaxDrawn and leaves no vault to open.
CHECK_DEADLOCK FALSE
