SPECIFICATION FairSpec

CONSTANTS
    Agents = {a1}
    Replaced = {}
    Tiles = {0}
    PlayerTiles = {0}
    Workers = {w1}
    JobIds = {j1, j2}
    Distance <- MCDistance
    AddRadius = 0
    WaitRadius = 1
    HasDb = TRUE
    WriteToDb = TRUE
    Faults = FALSE
    NoJob = NoJob

INVARIANTS
    TypeOK
    NoPostIsForgotten

PROPERTIES
    CallsReturn
    JobsDrain
