-------------------------- MODULE RecastMeshManager --------------------------
(***************************************************************************)
(* TileCachedRecastMeshManager (components/detournavigator): the scene's   *)
(* geometry per tile, and a cache of the recast meshes built from it.      *)
(* Everything here is a function from one state of the manager, a record,  *)
(* to the next; NavMeshManager says who calls what, and when.              *)
(*                                                                         *)
(* A tile is an integer, an object's geometry is the transform it has, and *)
(* water and heightfields are the scene cells they belong to.  Types of    *)
(* changes and the cell-less (infinite) water of interiors are left out.   *)
(***************************************************************************)
EXTENDS Integers, FiniteSets, Functions

CONSTANTS
    Tiles,          \* tile positions, on a line
    Objects,        \* ObjectIds
    Transforms,     \* transforms (and shapes) an object can have
    TilesOf,        \* makeTilesPositionsRange: [Transforms -> SUBSET Tiles]
    AabbOf,         \* getAabb, on a line: [Transforms -> [min, max : Int]]
    Cells,          \* scene cells
    StaticTiles,    \* tiles of a cell's water and heightfield
    None            \* std::nullopt, nullptr, an unset worldspace or range

Aabb == [min : Int, max : Int]
Version == [mGeneration : Nat, mRevision : Nat]

(* What a mesh is built from; a RecastMesh also has a version.             *)
MeshObjects == UNION {[S -> Transforms] : S \in SUBSET Objects}
Contents == [objects : MeshObjects, statics : SUBSET Cells]
RecastMesh == [mVersion : Version, objects : MeshObjects, statics : SUBSET Cells]

ASSUME SceneAssumption ==
    /\ Tiles \subseteq Int /\ IsFiniteSet(Tiles)
    /\ IsFiniteSet(Objects) /\ IsFiniteSet(Cells)
    /\ \A T \in SUBSET Tiles : None # T
    /\ None \notin Version
    /\ None \notin Contents /\ None \notin RecastMesh
    /\ TilesOf \in [Transforms -> (SUBSET Tiles) \ {{}}]
    /\ AabbOf \in [Transforms -> Aabb]
    /\ StaticTiles \in [Cells -> SUBSET Tiles]

NoMap == [x \in {} |-> None]
With(map, x, v) == [y \in DOMAIN map \cup {x} |-> IF y = x THEN v ELSE map[y]]
Without(map, S) == [y \in DOMAIN map \ S |-> map[y]]

-----------------------------------------------------------------------------
(* CommulativeAabb                                                         *)

Hull(a, b) == [min |-> IF a.min < b.min THEN a.min ELSE b.min,
               max |-> IF a.max > b.max THEN a.max ELSE b.max]
Inside(a, b) == b.min <= a.min /\ a.max <= b.max

(* The box an update leaves, and whether it is a change to act on.         *)
UpdatedAabb(cumulative, revision, aabb) ==
    IF cumulative.mLastChangeRevision # revision
    THEN [mLastChangeRevision |-> revision, mAabb |-> aabb]
    ELSE [cumulative EXCEPT !.mAabb = Hull(@, aabb)]
IsAabbChange(cumulative, revision, aabb) ==
    \/ cumulative.mLastChangeRevision # revision
    \/ ~Inside(aabb, cumulative.mAabb)

-----------------------------------------------------------------------------
(* The manager's state                                                     *)

EmptyManager ==
    [mRange |-> None, mWorldspace |-> None, mGeneration |-> 0, mRevision |-> 0,
     mObjects |-> NoMap, mStatics |-> {}, mChangedTiles |-> {}, mCache |-> NoMap]

VersionOf(r) == [mGeneration |-> r.mGeneration, mRevision |-> r.mRevision]

IsInRange(r, t) == r.mRange = None \/ t \in r.mRange
LimitedTo(r, T) == {t \in T : IsInRange(r, t)}

(* What the r-trees return for a tile; mRange is the indexed range.        *)
ObjectsAt(r, t) == {o \in DOMAIN r.mObjects : t \in r.mObjects[o].mRange}
StaticsAt(r, t) == {c \in r.mStatics : t \in StaticTiles[c]}
HasInput(r, t) == ObjectsAt(r, t) # {} \/ StaticsAt(r, t) # {}

(* The bounding boxes of the indexes, cut to mRange.                       *)
LimitedObjectsRange(r) ==
    LET indexed == UNION ({r.mObjects[o].mRange : o \in DOMAIN r.mObjects}
                          \cup {StaticTiles[c] : c \in r.mStatics})
    IN  LimitedTo(r, {t \in Tiles : \E l, h \in indexed : l <= t /\ t <= h})

-----------------------------------------------------------------------------
(* Changes of the scene, made by the main thread                           *)

(* The objects' present footprint decides which tiles a new range changes; *)
(* only tiles of the old range leave the cache.                            *)
SetRange(r, range) ==
    IF r.mRange = None \/ r.mRange = range THEN [r EXCEPT !.mRange = range]
    ELSE LET footprint == UNION {TilesOf[r.mObjects[o].at] : o \in DOMAIN r.mObjects}
             crossed == {t \in footprint : (t \in range) # (t \in r.mRange)}
         IN [r EXCEPT !.mRange = range,
                      !.mChangedTiles = @ \cup crossed,
                      !.mRevision = IF crossed = {} THEN @ ELSE @ + 1,
                      !.mCache = Without(@, r.mRange \ range)]

SetWorldspace(r, w) ==
    IF r.mWorldspace = w THEN r
    ELSE [r EXCEPT !.mWorldspace = w, !.mGeneration = @ + 1, !.mRevision = @ + 1,
                   !.mObjects = NoMap, !.mStatics = {}, !.mCache = NoMap]

(* Objects added one after the other, in some order; each is stamped with  *)
(* the revision of its own addition.                                       *)
AddObjects(r, at) ==
    LET new   == DOMAIN at \ DOMAIN r.mObjects
        order == CHOOSE f \in Bijection(new, 1..Cardinality(new)) : TRUE
        data(o) == [at |-> at[o], mRange |-> TilesOf[at[o]],
                    mAabb |-> [mLastChangeRevision |-> r.mRevision + order[o],
                               mAabb |-> AabbOf[at[o]]],
                    mGeneration |-> r.mGeneration,
                    mLastNavMeshReportedChange |-> None, mLastNavMeshReport |-> None]
    IN  [r EXCEPT !.mObjects = [o \in DOMAIN @ \cup new |->
                                  IF o \in new THEN data(o) ELSE @[o]],
                  !.mRevision = @ + Cardinality(new),
                  !.mChangedTiles = @ \cup LimitedTo(r, UNION {TilesOf[at[o]] : o \in new})]

AddObject(r, o, x) == AddObjects(r, [i \in {o} |-> x])

(* The revision the cumulative box is compared with.                       *)
LastChangeRevision(r, o) ==
    LET change == r.mObjects[o].mLastNavMeshReportedChange
    IN  IF change = None THEN r.mRevision ELSE change.mRevision

(* Deviation: the tiles the object leaves are not marked as changed.       *)
UpdateObjectInPlace(r, o, x) ==
    LET old     == r.mObjects[o]
        since   == LastChangeRevision(r, o)
        moved   == [old EXCEPT !.at = x,
                               !.mAabb = UpdatedAabb(@, since, AabbOf[x])]
    IN  IF o \notin DOMAIN r.mObjects \/ old.at = x THEN r
        ELSE IF ~IsAabbChange(old.mAabb, since, AabbOf[x])
        THEN [r EXCEPT !.mObjects[o] = moved]
        ELSE [r EXCEPT !.mObjects[o] = [moved EXCEPT !.mRange = TilesOf[x]],
                       !.mRevision = @ + 1,
                       !.mChangedTiles = @ \cup LimitedTo(r, TilesOf[x])]

(* A move inside the cumulative box changes the object and nothing else.   *)
UpdateObject(r, o, x) ==
    LET old     == r.mObjects[o]
        since   == LastChangeRevision(r, o)
        moved   == [old EXCEPT !.at = x,
                               !.mAabb = UpdatedAabb(@, since, AabbOf[x])]
    IN  IF o \notin DOMAIN r.mObjects \/ old.at = x THEN r
        ELSE IF ~IsAabbChange(old.mAabb, since, AabbOf[x])
        THEN [r EXCEPT !.mObjects[o] = moved]
        ELSE [r EXCEPT !.mObjects[o] = [moved EXCEPT !.mRange = TilesOf[x]],
                       !.mRevision = @ + 1,
                       !.mChangedTiles =
                           @ \cup LimitedTo(r, old.mRange \cup TilesOf[x])]

RemoveObjects(r, S) ==
    LET gone == S \cap DOMAIN r.mObjects
    IN  [r EXCEPT !.mObjects = Without(@, gone),
                  !.mRevision = @ + Cardinality(gone),
                  !.mChangedTiles =
                      @ \cup LimitedTo(r, UNION {r.mObjects[o].mRange : o \in gone})]

RemoveObject(r, o) == RemoveObjects(r, {o})

(* addWater and addHeightfield: their tiles are not cut to mRange.         *)
AddStatics(r, cells) ==
    LET new == cells \ r.mStatics
    IN  [r EXCEPT !.mStatics = @ \cup new, !.mRevision = @ + Cardinality(new),
                  !.mChangedTiles = @ \cup UNION {StaticTiles[c] : c \in new}]

RemoveStatics(r, cells) ==
    LET gone == cells \cap r.mStatics
    IN  [r EXCEPT !.mStatics = @ \ gone, !.mRevision = @ + Cardinality(gone),
                  !.mChangedTiles = @ \cup UNION {StaticTiles[c] : c \in gone}]

(* Deviation: the cache is not told which tiles changed.                   *)
TakeChangedTilesOnly(r) == [r EXCEPT !.mChangedTiles = {}]

(* Cached meshes of changed tiles get a version no mesh has.               *)
Outdated(cached) == [cached EXCEPT !.mVersion.mRevision = @ + 1]
TakeChangedTiles(r) ==
    [r EXCEPT !.mChangedTiles = {},
              !.mCache = [t \in DOMAIN @ |->
                            IF t \in r.mChangedTiles THEN Outdated(@[t]) ELSE @[t]]]

-----------------------------------------------------------------------------
(* Recast meshes, read by the threads that build the navigation mesh       *)

(* makeMesh under the lock: the mesh of a tile, None if it is empty.       *)
MakeMesh(r, t) ==
    IF ~HasInput(r, t) THEN None
    ELSE [mVersion |-> VersionOf(r),
          objects |-> [o \in ObjectsAt(r, t) |-> r.mObjects[o].at],
          statics |-> StaticsAt(r, t)]

(* Deviation: any cached mesh will do.                                     *)
IsCached(r, t) == t \in DOMAIN r.mCache

(* Does getMesh return the cached mesh?                                    *)
IsServed(r, t) ==
    /\ t \in DOMAIN r.mCache
    /\ r.mCache[t].mVersion = r.mCache[t].mRecastMesh.mVersion

(* The second critical section of getMesh.                                 *)
StoreMesh(r, t, mesh) ==
    [r EXCEPT !.mCache =
       With(@, t, [mVersion |-> mesh.mVersion, mRecastMesh |-> mesh])]

IsOlder(v1, v2) ==
    \/ v1.mGeneration < v2.mGeneration
    \/ v1.mGeneration = v2.mGeneration /\ v1.mRevision < v2.mRevision

(* reportNavMeshChange, for one object of the tile.                        *)
Reported(data, recastMeshVersion, navMeshVersion) ==
    LET report == [mRevision |-> recastMeshVersion.mRevision,
                   mNavMeshVersion |-> navMeshVersion]
        change == data.mLastNavMeshReportedChange
    IN  IF \/ recastMeshVersion.mGeneration # data.mGeneration
           \/ /\ data.mLastNavMeshReport # None
              /\ IsOlder(navMeshVersion, data.mLastNavMeshReport.mNavMeshVersion)
        THEN data
        ELSE [data EXCEPT
                !.mLastNavMeshReport = report,
                !.mLastNavMeshReportedChange =
                    IF change = None \/ IsOlder(change.mNavMeshVersion, navMeshVersion)
                    THEN report ELSE change]

ReportNavMeshChange(r, t, recastMeshVersion, navMeshVersion) ==
    [r EXCEPT !.mObjects =
       [o \in DOMAIN @ |->
          IF o \in ObjectsAt(r, t)
          THEN Reported(@[o], recastMeshVersion, navMeshVersion) ELSE @[o]]]

-----------------------------------------------------------------------------
(* A mesh shows the scene if it has the objects and cells of its tile, and *)
(* each object where its cumulative box allows it to be.                   *)
ShowsScene(r, t, mesh) ==
    /\ DOMAIN mesh.objects = ObjectsAt(r, t)
    /\ \A o \in DOMAIN mesh.objects :
         Inside(AabbOf[mesh.objects[o]], r.mObjects[o].mAabb.mAabb)
    /\ mesh.statics = StaticsAt(r, t)
=============================================================================
