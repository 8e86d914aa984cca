SPECIFICATION Spec

CONSTANTS
    Tiles = {1}
    Objects = {o1}
    Transforms = {"left"}
    TilesOf <- MCTilesOf
    AabbOf <- MCAabbOf
    Cells = {"west"}
    StaticTiles <- MCStaticTiles
    None = None
    Agents = {a1}
    Resettable = {}
    AgentRank <- MCAgentRank
    Readers = {w1}
    Worldspaces = {"exterior"}
    WorldspaceOf <- MCWorldspaceOf
    CellOf <- MCCellOf
    CellTiles <- MCCellTiles
    IsInterior <- MCIsInterior
    PlayerTiles = {1}
    Radius <- MCRadius
    Near <- MCNear
    MaxRevision = 4
    MaxUpdates = 3
    MaxGeneration = 2

INVARIANTS
    NavMeshFollowsScene

