\* A card that is out and prepared as often as it may be stays where it is.
SPECIFICATION CardSpec
CONSTANTS
    MaxPreparations = 2
    MaxCuts = 2
INVARIANTS
    SetUpWhenUp
    ResultIsOfThisPreparation
PROPERTIES
    ComesUp
CHECK_DEADLOCK FALSE
