SPECIFICATION FairSpec
CONSTANTS
    Stored <- StoredSettings
    MaxAttempts = 1
    QMAX = 1
    Requests = {r1}
    Posts = 1
    Events = 2
INVARIANTS
    PolicyCoherent
PROPERTIES
    OffsSettle
    SpentOnACharge
