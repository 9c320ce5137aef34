SPECIFICATION RowsSpec
CONSTANTS
    Symbols <- Pair
    Ticks <- Short
    Expected <- Three
    Gap = 1
    Stale = 2
    Moves <- Trading
    MaxFaults = 1
INVARIANTS
    RowsTypeOK
    VolumeIsTradedOnce
    GradeIsBacked
PROPERTIES
    RepeatsAreOnlyCounted
CHECK_DEADLOCK FALSE
