SPECIFICATION FairPushSpec
CONSTANTS
    d1 = d1
    d2 = d2
    b1 = b1
    p1 = p1
    Browsers = {b1}
    Pollers = {p1}
    Registry <- TwoDevices
    MAX_QUEUE_SIZE = 3
    MaxChanges = 4
    Nothing = Nothing
INVARIANTS
    BuffersHold
PROPERTIES
    EventsArrive
