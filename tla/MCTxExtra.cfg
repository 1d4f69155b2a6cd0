\* The run ends when the extra is written, so deadlock is not checked.
SPECIFICATION Spec
CONSTANTS
    DigitBits = 2
    WordBits = 5
    KeyLen = 2
    IdLen = 1
    HashLen = 2
    Extras <- MCExtras
    TxKey <- MCTxKey
    IdPad <- MCIdPad
    AdditionalKeys <- MCAdditionalKeys
    XorBytes <- MCXorBytes
INVARIANTS
    KeysReadable
    FieldsKept
CHECK_DEADLOCK FALSE
