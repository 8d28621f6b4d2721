SPECIFICATION FairSpec
CONSTANTS
    FULL = 2
    Budget = 4
    None = None
CHECK_DEADLOCK FALSE
INVARIANTS
    LimitHolds
PROPERTIES
    LimitsSettle
