-------------------------- MODULE MCNavMeshManager --------------------------
(* Values of the constants of NavMeshManager for TLC: two tiles, an        *)
(* exterior of one or two cells, an interior, an object that can stand in  *)
(* either tile or across both.                                             *)
EXTENDS NavMeshManager, TLC

MCTilesOf == [x \in Transforms |->
    CASE x = "left" -> {1} [] x = "right" -> {2} [] x = "both" -> {1, 2}]
MCAabbOf == [x \in Transforms |->
    CASE x = "left" -> [min |-> 0, max |-> 1] [] x = "right" -> [min |-> 2, max |-> 3]
      [] x = "both" -> [min |-> 1, max |-> 2]]
MCStaticTiles == [c \in Cells |->
    CASE c = "west" -> {1, 2} \cap Tiles [] c = "east" -> {2} [] c = "cave" -> {}]
MCCellTiles == [c \in Cells |->
    CASE c = "west" -> {1} [] c = "east" -> {2} [] c = "cave" -> Tiles]
MCWorldspaceOf == [c \in Cells |-> IF c = "cave" THEN "interior" ELSE "exterior"]
MCIsInterior == [w \in Worldspaces |-> w = "interior"]
MCCellOf == [o \in Objects |-> CHOOSE c \in Cells : c # "east" /\ (c = "cave" => "west" \notin Cells)]
MCAgentRank == [a \in Agents |->
    Cardinality({b \in Agents : b = a \/ a # CHOOSE c \in Agents : TRUE})]
(* The player stands on tile 1, or left of it: tile 1 is then in a corner  *)
(* of the square of tiles in range, and outside the circle of near ones.   *)
MCRadius == [p \in PlayerTiles |-> IF p = 1 THEN Tiles ELSE {1}]
MCNear == [p \in PlayerTiles |-> IF p = 1 THEN Tiles ELSE {}]

Symmetry == Permutations(Readers)
=============================================================================
