-------------------------- MODULE MCCellPreloader --------------------------
(* Values of CellPreloader's constants for TLC.                            *)
EXTENDS CellPreloader, TLC

CONSTANTS p1, p2

(* No two places share a grid.                                             *)
Apart == {<<p1, p1>>, <<p2, p2>>}

Symmetry == Permutations(Cells) \cup Permutations(Positions) \cup Permutations(Terrains)
=============================================================================
