\* A phrase is decoded once, so deadlock is not checked.
SPECIFICATION Spec
CONSTANTS
    ListSize = 13
    NumberLimit = 2048
    Groups = 2
    Checksum <- MCChecksum
    Seeds <- MCSeeds
    Strays <- MCStrays
    Unknown = Unknown
    None = None
INVARIANTS
    SeedRecovered
    NoOtherPhrase
CHECK_DEADLOCK FALSE
