\* The process exits when it is done, so it has no step left: no deadlock check.
SPECIFICATION Spec
CONSTANTS
    Account = "A"
    Payloads <- MCPayloads
    OffsetModulus = 4
    Order = 7
    Hash <- ToyHash
    HashPoint <- ToyHashPoint
    ChaChaKey <- ToyChaChaKey
    Cipher <- ToyCipher
INVARIANTS
    ReplyAnswersExport
    RefusalNamesFirst
    OwnExportsAnswered
PROPERTIES
    ImplementsService
CHECK_DEADLOCK FALSE
