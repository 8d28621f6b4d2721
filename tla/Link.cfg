SPECIFICATION FairSpec
CONSTANTS
    Slips = 1
    RdyTries = 5
    KeyWaits = 3
    W = 8
    HIGHS = 2
    MaxVal = 1
    Reread = {0}
    MaxSet = 2
    RxMax = 2
    PushMax = 1
    Faults = 1
    DECRYPT_FAIL_LIMIT = 2
    VERIFY_FAIL_LIMIT = 2
INVARIANTS
    HandshakeHolds
    ChannelHolds
PROPERTIES
    ShownFollows
    EveryAttemptEnds
