SPECIFICATION MCSpec
CONSTANTS
    Extras = {x2}
    Prefixes = {home, flat}
    Tokens = {t1, t2}
    Requests = {r1, r2}
    Installed <- MCInstalled
    MaxSaves = 2
    MaxFaults = 1
    Primary = x1
    None = None
    Ids = {e1, e2}
    Names = {lamp, fan}
    MaxEdits = 2
    Unnamed = Unnamed
    MaxLost = 2
    Budget = 3
    Nothing = Nothing
    Default = home
INVARIANTS
    FileHolds
    GhostsExplained
    EntitiesKept
    LinkHolds
PROPERTIES
    SavesTakeEffect
    LinkSettles
