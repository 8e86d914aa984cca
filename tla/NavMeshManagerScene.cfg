SPECIFICATION Spec

CONSTANTS
    Tiles = {1, 2}
    Objects = {o1}
    Transforms = {"left", "right"}
    TilesOf <- MCTilesOf
    AabbOf <- MCAabbOf
    Cells = {"west", "east", "cave"}
    StaticTiles <- MCStaticTiles
    None = None
    Agents = {a1}
    Resettable = {a1}
    AgentRank <- MCAgentRank
    Readers = {w1}
    Worldspaces = {"exterior", "interior"}
    WorldspaceOf <- MCWorldspaceOf
    CellOf <- MCCellOf
    CellTiles <- MCCellTiles
    IsInterior <- MCIsInterior
    PlayerTiles = {1, 0}
    Radius <- MCRadius
    Near <- MCNear
    MaxRevision = 4
    MaxUpdates = 3
    MaxGeneration = 5

INVARIANTS
    ServedMeshShowsSceneUnlessStale
    NavMeshFollowsSceneUnlessLost
