SPECIFICATION FairSpec
CONSTANTS
    Devices = {d1, d2}
    ConnectLimit = 1
    L1BeforeRemove = 1
    L15BeforeAdapter = 1
    BackoffAlert = 1
    CancelAt <- CancelAnywhere
    NoOne = NoOne
INVARIANTS
    GateGuardsRecovery
    SlotsHold
    LadderInOrder
    QuiescedStayOut
    OffOnlyAfterCut
PROPERTIES
    EveryoneGoesOn
