\* Looked-up keys: the account's own addresses and two foreign keys.
SPECIFICATION TableSpec
CONSTANTS
    k00 = k00
    k01 = k01
    k10 = k10
    k11 = k11
    k20 = k20
    k12 = k12
    k30 = k30
    f1 = f1
    f2 = f2
    Key <- MCKey
    Index <- MCIndex
    PrimaryIndex <- MCPrimary
    SpendKeyOf <- MCSpendKeyOf
    Listed <- MCListed
    Lookahead <- MCLookahead
    NoIndex = NoIndex
    Unasked = Unasked
INVARIANTS
    AnswersExact
PROPERTIES
    ImplementsEager
