\* Spending from an account outside the lookahead window.
\* The run of the signer ends with its outcome: no step is left after it.
SPECIFICATION Spec
CONSTANTS
    Account = "A"
    Sets <- ThirdAccountSets
    Lookahead <- MCLookahead
    MaxOutputs = 4
    AmountLimit = 32
    ByteLimit = 4
    ScalarLimit = 4
    ImageRank <- MCImageRank
    NoPoint = "nobody"
    NoIndex = NoIndex
    None = None
INVARIANTS
    ChangeImagesReturned
CHECK_DEADLOCK FALSE
