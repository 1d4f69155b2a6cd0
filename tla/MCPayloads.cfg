\* A payload is read once: the reader then stops, so deadlock is not checked.
SPECIFICATION Spec
CONSTANTS
    DigitBits = 2
    WordBits = 5
    KeyLen = 2
    KlrkiLen = 3
    LongLen = 2
    ShortLen = 1
    IndexBits = 3
    Account <- MCAccount
    Payloads <- MCPayloads
    Damaged <- MCDamaged
INVARIANTS
    ReadsBack
    EchoVerbatim
CHECK_DEADLOCK FALSE
