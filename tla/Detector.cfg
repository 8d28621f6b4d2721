SPECIFICATION FairDetectorSpec
CONSTANTS
    Powers <- PowersSeen
    Steps <- StepsTaken
    FAST = 1
    SLOW = 2
    ASSESS = 2
    RECENT = 2
    HOLD = 5
    GRACE = 3
    RECOVER = 2
    MIN_SEC = 2
    START_HOLD = 1
    DEBOUNCE = 2
    MAX_GAP = 1
    MIN_ENERGY = 20
    EnergyCap = 30
INVARIANTS
    MeterHolds
PROPERTIES
    SessionsAreCharges
