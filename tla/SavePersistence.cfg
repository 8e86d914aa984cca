SPECIFICATION FairSpec
CONSTANTS
    GameSaves = {g}
    LooseSaves = {l}
    None = None
    MaxWrites = 2
    MaxSessions = 2
    MaxFailures = 1
INVARIANTS UnstoredSaveIsOnItsWay
PROPERTIES StoredSavesAreKept FolderIsAuthoritative StorageCatchesUp
\* The page may stay closed.
CHECK_DEADLOCK FALSE
