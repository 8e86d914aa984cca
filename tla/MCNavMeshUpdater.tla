-------------------------- MODULE MCNavMeshUpdater --------------------------
(* Values of the constants of NavMeshUpdater for TLC: tiles on a line.     *)
EXTENDS NavMeshUpdater, TLC

MCDistance == [x \in Tiles \X PlayerTiles |->
                  IF x[1] < x[2] THEN x[2] - x[1] ELSE x[1] - x[2]]

Symmetry == Permutations(JobIds) \cup Permutations(Workers)
=============================================================================
