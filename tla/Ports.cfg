SPECIFICATION FairSpec
CONSTANTS
    Ports = {c1, c2}
    Switches = {pd}
    Callers = {h1}
    Nobody = Nobody
    QMAX = 1
    Orders = 1
    Outside = 1
    Faults = 1
PROPERTIES
    OrdersFaithful
    FrontEndsKnow
