CONSTANTS
    Device = {d1, d2}
    Passphrase = {pw1, pw2}
    Contents = contents
    NoFile = nofile
    NoAccount = noaccount
    NoPassphrase = nopassphrase
    MaxVersion = 3
    MaxDrawn = 4
    MaxRunning = 2

SPECIFICATION Spec

PROPERTIES RegisterAgainRefreshes
