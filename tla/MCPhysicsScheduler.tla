------------------------- MODULE MCPhysicsScheduler -------------------------
(* Actors are alike, and so are the threads.                                *)
EXTENDS PhysicsScheduler, TLC

Symmetry == Permutations(Actors) \cup Permutations(Threads)
=============================================================================
