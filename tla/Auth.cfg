SPECIFICATION FairRecoverySpec
CONSTANTS
    Devices = {d1, d2}
    MAX_AUTH_FAILURES = 2
    AUTH_L3_MAX_PER_HOUR = 2
    AUTH_L3_WINDOW = 3
    CIRCUIT_BREAKER_MAX_FAIL = 3
    Crashes = TRUE
    LedgerFaults = 2
INVARIANTS
    LedgerHolds
PROPERTIES
    L3SparesOthers
    KeepsTrying
