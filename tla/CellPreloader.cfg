SPECIFICATION Spec

CONSTANTS
    p1 = p1
    p2 = p2
    Cells = {c1, c2}
    Positions = {p1, p2}
    Near <- Apart
    NoPosition = NoPosition
    Terrains = {t1, t2}
    NoTerrain = NoTerrain
    Threads = 2
    mMinCacheSize = 1
    mMaxCacheSize = 1
    mExpiryDelay = 1
    MaxItems = 3
    MaxTime = 3

INVARIANTS
    PreloadFitsCache
    EntriesArePreloading
    ViewsAreLoadedByOneThread
    LoadedPositionsArePreloaded
    OldTerrainWorkIsAborted
    AwaitedItemsAreAlive

SYMMETRY Symmetry
