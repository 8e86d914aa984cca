SPECIFICATION Spec

CONSTANTS
    Keys = {"k1", "k2", "k3", "k4"}
    Tiles = {1, 2}
    TileOf <- MCTileOf
    SizeOf <- MCSizeOf
    Workers = {w1, w2}
    Main = Main
    Meshes = {m1, m2}
    mMaxNavMeshDataSize = 3
    None = None

SYMMETRY Symmetry

INVARIANTS
    UsedDataIsKeptUnlessRaced
    CacheFitsUnlessRaced
CHECK_DEADLOCK FALSE
