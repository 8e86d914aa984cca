------------------------ MODULE MCNavMeshTilesCache ------------------------
(* Values of NavMeshTilesCache's constants for TLC.                        *)
EXTENDS NavMeshTilesCache, TLC

(* Two recast meshes of each tile, one of them larger than the others.     *)
MCTileOf == "k1" :> 1 @@ "k2" :> 1 @@ "k3" :> 2 @@ "k4" :> 2
MCSizeOf == "k1" :> 1 @@ "k2" :> 1 @@ "k3" :> 1 @@ "k4" :> 2

Symmetry == Permutations(Workers) \cup Permutations(Meshes)
=============================================================================
