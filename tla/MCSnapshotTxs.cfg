\* Every call may raise.  The script ends, so deadlock is not checked.
SPECIFICATION FairSpec
CONSTANTS
    Output <- MCOutput
    SubOf <- MCSubOf
    AmountOf <- MCAmountOf
    Mature <- MCMature
    Counts <- MCCounts
    FeeReserve = 3
    Fee = 1
    Faults <- AllFaults
    MaxRuns = 2
    None = None
INVARIANTS
    OwnerFreezesKept
    ThawedAfterTransfer
    ExactInputs
    ProvenanceTrue
PROPERTIES
    Terminates
CHECK_DEADLOCK FALSE
