SPECIFICATION FairScanSpec
CONSTANTS
    c1 = c1
    c2 = c2
    c3 = c3
    m1 = m1
    m2 = m2
    Callers = {c1, c2, c3}
    Macs = {m1, m2}
    MacOf <- TwoAndOne
    Futures = {f1, f2, f3, f4}
    CallsCancelAt <- Anywhere
    None = None
INVARIANTS
    OpenIsLed
PROPERTIES
    ScanAnswersAll
    EveryCallReturns
