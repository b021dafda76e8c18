CONSTANTS
    Proc = {p1, p2}
    Passphrase = {pw1, pw2}
    Contents = {empty}
    EmptyVault = empty
    VaultId = vault
    Torn = torn
    NoFile = nofile
    MaxVersion = 2
    MaxDrawn = 3
    MaxFaults = 0
SYMMETRY Symmetry
VIEW WithoutHistory
SPECIFICATION Spec
INVARIANTS VaultAlwaysOpens SplicedPayloadRejected
\* An init that fails uses up MaxDrawn and leaves no vault to open.
CHECK_DEADLOCK FALSE
