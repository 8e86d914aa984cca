SPECIFICATION Spec

CONSTANTS
    Agents = {a1}
    Replaced = {a1}
    Tiles = {0}
    PlayerTiles = {0, 1}
    Workers = {w1, w2}
    JobIds = {j1, j2}
    Distance <- MCDistance
    AddRadius = 0
    WaitRadius = 1
    HasDb = TRUE
    WriteToDb = FALSE
    Faults = TRUE
    NoJob = NoJob

INVARIANTS
    JobsAreReferencedOnce
    TilesAreOwnedOnce
    PushedIsWaiting

SYMMETRY Symmetry
