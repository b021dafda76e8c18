\* One vault, the program's own sizes, up to three entries and two ids.
SPECIFICATION Spec
\* A vault saved over the reader's limit is opened by no command.
CHECK_DEADLOCK FALSE
CONSTANTS
    Title <- MCTitle
    NoTitle = NoTitle
    Notes <- MCNotes
    Bytes <- MCBytes
    EmptyBytes = 60
    FieldBytes = 6
    MinPadded = 1024
    MaxPayload <- MCMaxPayload
    Lengths <- MCLengths
    MaxFile <- MCMaxFile
    MinOps = 2
    MinMem <- MCMinMem
    MaxMem <- MCMaxMem
    Costs <- MCCosts
    TuneCeiling <- MCTuneCeiling
    TuneOps = 2
    Files <- MCFiles
    Other = Other
    ForeignIds = {Other}
    NoId = NoId
    NoVault = NoVault
    NoExport = NoExport
    MaxIds = 2
    MaxEntries = 3
INVARIANTS TypeOK ReadsBack PaddingBounded
PROPERTIES OneEntryAtATime RemovedIsGone UnknownKept
