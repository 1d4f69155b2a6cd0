\* The script ends with its last transactions mined and unlocked.
SPECIFICATION Spec
CONSTANTS
    Target = 8
    DestsAt <- MCDestsAt
    Reserve = 2
    MinSource = 4
    Fee = 1
    Funds <- MCFunds
    MaxLost = 1
INVARIANTS
    Affordable
    NoOvershoot
PROPERTIES
    ReachesTarget
CHECK_DEADLOCK FALSE
