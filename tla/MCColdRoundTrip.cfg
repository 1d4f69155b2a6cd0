\* The exchange stops when all is known and done.
SPECIFICATION FairSpec
CONSTANTS
    Account = "A"
    MaxIncoming = 2
    MaxRequests = 2
    MaxSignings = 3
    None = None
    Idle = Idle
INVARIANTS
    KeyImagesTrue
    RepliesImport
    ChangeKnownOnArrival
PROPERTIES
    ImplementsLedger
    SyncCompletes
CHECK_DEADLOCK FALSE
