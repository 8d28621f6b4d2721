SPECIFICATION FairSpec
CONSTANTS
    Rows = {r1, r2}
    MaxSessions = 2
    Toggles = TRUE
    ForcedEnds = TRUE
    Restarts = TRUE
    DbFails = TRUE
    None = None
CHECK_DEADLOCK FALSE
INVARIANTS
    ActiveRowIsOpen
PROPERTIES
    DeleteTakesPoints
    KeepsLog
    NoRowForgotten
