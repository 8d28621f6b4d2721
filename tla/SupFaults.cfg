SPECIFICATION FairSpec
CONSTANTS
    HttpCallers = {h}
    MqttCallers = {m1, m2}
    StartFrom <- Everyone
    Faults <- AnyFault
    Tasks = {t1, t2, t3}
    Jobs = {j1, j2, j3}
    MAX_REBUILDS = 2
    None = None
INVARIANTS
    OneLoop
    LastCommandWins
PROPERTIES
    NothingHangs
