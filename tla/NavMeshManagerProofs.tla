------------------------ MODULE NavMeshManagerProofs ------------------------
(***************************************************************************)
(* Proofs about NavMeshManager, for any tiles, objects, cells, agents,     *)
(* threads and bounds: the recast meshes that are served from the cache    *)
(* show the scene, and the navigation mesh follows it, but for the lost    *)
(* changes that the model names.                                           *)
(*                                                                         *)
(* The invariant has a part for the scene and its cache (SceneInv), one    *)
(* for who works on what (ThreadsInv), one for the copies threads have     *)
(* made of the scene (CopiesInv), and three for the navigation mesh: what  *)
(* a thread is about to write (WritesInv), the tiles the mesh has          *)
(* (PresentInv) and those it lacks (AbsentInv).                            *)
(***************************************************************************)
EXTENDS NavMeshManager, FiniteSetTheorems, FunctionTheorems, TLAPS
(***************************************************************************)
(* The scene: types of the manager's state, which version a cached mesh    *)
(* has, and that an object is inside its cumulative box.                   *)

Report == [mRevision : Nat, mNavMeshVersion : Version \cup {None}]
ObjectData ==
    [at : Transforms, mRange : SUBSET Tiles,
     mAabb : [mLastChangeRevision : Int, mAabb : Aabb], mGeneration : Nat,
     mLastNavMeshReportedChange : Report \cup {None},
     mLastNavMeshReport : Report \cup {None}]
CachedTile == [mVersion : Version, mRecastMesh : RecastMesh]
ManagerFields == {"mRange", "mWorldspace", "mGeneration", "mRevision", "mObjects",
                  "mStatics", "mChangedTiles", "mCache"}

IsMap(map, S, T) == DOMAIN map \subseteq S /\ map \in [DOMAIN map -> T]
IsEmptyMesh(mesh) == DOMAIN mesh.objects = {} /\ mesh.statics = {}

IsManager(r) ==
    /\ DOMAIN r = ManagerFields
    /\ r.mRange \in (SUBSET Tiles) \cup {None}
    /\ r.mWorldspace \in Worldspaces \cup {None}
    /\ r.mGeneration \in Nat /\ r.mRevision \in Nat
    /\ IsMap(r.mObjects, Objects, ObjectData)
    /\ r.mStatics \subseteq Cells
    /\ r.mChangedTiles \subseteq Tiles
    /\ IsMap(r.mCache, Tiles, CachedTile)
    /\ \A o \in DOMAIN r.mObjects :
         Inside(AabbOf[r.mObjects[o].at], r.mObjects[o].mAabb.mAabb)
    /\ \A t \in DOMAIN r.mCache :
         /\ r.mCache[t].mVersion.mRevision >= r.mCache[t].mRecastMesh.mVersion.mRevision
         /\ ~IsEmptyMesh(r.mCache[t].mRecastMesh)

(* A cached mesh that is served and not stale is that of a tile in range,  *)
(* and shows the scene unless the tile has changed.                        *)
CacheShows(r, late) ==
    \A t \in DOMAIN r.mCache \ late : IsServed(r, t) =>
        /\ r.mRange # None /\ t \in r.mRange
        /\ t \notin r.mChangedTiles => ShowsScene(r, t, r.mCache[t].mRecastMesh)

(* A change that nobody has taken leaves the scene ahead of the update.    *)
SceneInv ==
    /\ IsManager(recast)
    /\ mActiveCells \subseteq Cells /\ recast.mStatics = mActiveCells
    /\ \A c \in mActiveCells : WorldspaceOf[c] = recast.mWorldspace
    /\ mLastRecastMeshManagerRevision \in 0..recast.mRevision
    /\ recast.mChangedTiles # {} => mLastRecastMeshManagerRevision < recast.mRevision
    /\ CacheShows(recast, stale)
    /\ stale \subseteq DOMAIN recast.mCache

-----------------------------------------------------------------------------
(* The main thread and the threads of the updater                          *)

Reader == [pc : ReaderPcs, key : Keys \cup {None},
           worldspace : Worldspaces \cup {None}, orphan : BOOLEAN,
           mesh : RecastMesh \cup {None}, missed : BOOLEAN, tainted : BOOLEAN,
           version : Version \cup {None}]
MainThread == [pc : {"free", "collect", "post"}, left : SUBSET Agents,
               changed : SUBSET Tiles, toPost : SUBSET Keys]

At(w, pcs) == reader[w].pc \in pcs
HasMesh == {"store", "apply", "version", "report"}

ThreadsInv ==
    /\ mPlayerTile \in PlayerTiles \cup {None} /\ updaterTile \in PlayerTiles
    /\ mCache \in [Agents -> Version \cup {None}] /\ mGenerationCounter \in Nat
    /\ main \in MainThread
    /\ pending \in [Keys -> {"none", "live", "expired"}]
    /\ reader \in [Readers -> Reader]
    /\ navMesh \in [Keys -> Contents \cup {None}]
    /\ lost \subseteq Keys
    /\ IF GuardFree THEN main.left = {} /\ main.toPost = {} ELSE mPlayerTile # None
    /\ main.pc = "collect" => main.toPost = {}
    /\ \A a \in main.left : mCache[a] # None
    /\ \A k \in main.toPost : mCache[k[1]] # None
    /\ \A k \in Keys :
         /\ pending[k] = "live" \/ navMesh[k] # None => mCache[k[1]] # None
         /\ pending[k] = "expired" => \A w \in Work(k) : reader[w].orphan
    /\ \A w \in Readers :
         /\ At(w, {"idle"}) <=> reader[w].key = None
         /\ ~At(w, {"idle"}) /\ ~reader[w].orphan => mCache[reader[w].key[1]] # None
         /\ At(w, HasMesh) => reader[w].mesh # None /\ ~IsEmptyMesh(reader[w].mesh)
    /\ \A v, w \in Readers : reader[v].key = reader[w].key /\ reader[v].key # None => v = w
    /\ recast.mRange = None => GuardFree /\ \A w \in Readers : At(w, {"idle"})
    /\ recast.mRange = None => \A k \in Keys : pending[k] = "none"

(* A thread that has missed nothing copied its tile as it is, unless the   *)
(* tile has changed since and no update has taken the change.              *)
CopyShows(r, d) ==
    d.pc \in {"make", "store"} /\ ~d.missed =>
        /\ d.key[2] \in r.mRange
        /\ d.pc = "store" /\ d.key[2] \notin r.mChangedTiles
             => ShowsScene(r, d.key[2], d.mesh)
CopiesInv == \A w \in Readers : CopyShows(recast, reader[w])

-----------------------------------------------------------------------------
(* The navigation mesh                                                     *)

IsDirty(k) == k[2] \in recast.mChangedTiles

(* A job for k is coming that will see the scene: the first whatever else  *)
(* happens to k, the second if k's tile in the mesh stays absent or not.   *)
WillFollow(k) ==
    \/ pending[k] = "live" \/ k \in main.toPost
    \/ k[1] \in main.left /\ k[2] \in main.changed \cap Near[mPlayerTile]
IsAwaited(k) ==
    \/ pending[k] = "live" \/ k \in main.toPost
    \/ k[1] \in main.left /\ k[2] \in TilesToPost(k[1])

InProgress == {"loaded", "far", "lookup", "make", "store", "apply", "empty"}
IsBuilt(k) == \E w \in Work(k) : ~reader[w].orphan /\ At(w, InProgress)

IsWriting(w) ==
    /\ ~reader[w].orphan /\ ~reader[w].tainted
    /\ At(w, {"make", "store", "apply", "empty"})

(* What a thread is about to write is right, or will be written again.     *)
WriteIsRight(w, k) ==
    IsWriting(w) /\ reader[w].key = k =>
        /\ k[2] \in recast.mRange
        /\ At(w, {"store", "apply"}) =>
             IsDirty(k) \/ WillFollow(k) \/ ShowsScene(recast, k[2], reader[w].mesh)
        /\ At(w, {"empty"}) =>
             IsDirty(k) \/ WillFollow(k) \/ ~HasInput(recast, k[2])
WritesInv == \A w \in Readers, k \in Keys : WriteIsRight(w, k)

TileIsRight(k) ==
    navMesh[k] # None =>
        /\ k[2] \in recast.mRange
        /\ IsAwaited(k) \/ IsBuilt(k) \/ IsDirty(k) \/ FollowsScene(k)
PresentInv == \A k \in Keys \ lost : TileIsRight(k)

(* A tile the mesh should have, and the last update knew.                  *)
IsWanted(k) ==
    /\ mCache[k[1]] # None
    /\ mPlayerTile # None /\ mLastRecastMeshManagerRevision = recast.mRevision
    /\ k[2] \in Near[mPlayerTile] /\ IsInRange(recast, k[2])
    /\ HasInput(recast, k[2])

GapIsRight(k) == navMesh[k] = None /\ IsWanted(k) => IsAwaited(k) \/ IsBuilt(k)
AbsentInv == \A k \in Keys \ lost : GapIsRight(k)

MeshInv == WritesInv /\ PresentInv /\ AbsentInv

-----------------------------------------------------------------------------
(* Changes of the scene: what they change of a tile in range they mark     *)

SameTile(r, s, t) ==
    /\ ObjectsAt(s, t) = ObjectsAt(r, t) /\ StaticsAt(s, t) = StaticsAt(r, t)
    /\ \A o \in ObjectsAt(r, t) :
         s.mObjects[o].mAabb.mAabb = r.mObjects[o].mAabb.mAabb

(* s is r after some changes.                                              *)
Changes(r, s) ==
    /\ s.mRange = r.mRange /\ s.mWorldspace = r.mWorldspace
    /\ s.mGeneration = r.mGeneration /\ s.mCache = r.mCache
    /\ r.mRevision <= s.mRevision /\ r.mChangedTiles \subseteq s.mChangedTiles
    /\ s.mChangedTiles = r.mChangedTiles \/ r.mRevision < s.mRevision
    /\ \A t \in Tiles : IsInRange(r, t) /\ t \notin s.mChangedTiles => SameTile(r, s, t)

LEMMA SameShown ==
    ASSUME NEW r, NEW s, NEW t, NEW mesh, SameTile(r, s, t)
    PROVE  /\ ShowsScene(r, t, mesh) <=> ShowsScene(s, t, mesh)
           /\ HasInput(r, t) <=> HasInput(s, t)
BY DEF SameTile, ShowsScene, HasInput, Inside

LEMMA ChangesTwice ==
    ASSUME NEW r, NEW s, NEW u, IsManager(r), IsManager(s), IsManager(u),
           Changes(r, s), Changes(s, u)
    PROVE  Changes(r, u)
BY DEF Changes, SameTile, IsInRange, IsManager

LEMMA ChangesNothing ==
    ASSUME NEW r, IsManager(r) PROVE Changes(r, r)
BY DEF Changes, SameTile, IsManager

(* A set of objects or of cells can be counted.                            *)
LEMMA Countable ==
    ASSUME NEW F, F = Objects \/ F = Cells, NEW S \in SUBSET F
    PROVE  /\ IsFiniteSet(S) /\ Cardinality(S) \in Nat
           /\ S # {} => Cardinality(S) > 0
<1>1. IsFiniteSet(F)
  BY SceneAssumption DEF SceneAssumption
<1>2. IsFiniteSet(S)
  BY <1>1, FS_Subset
<1> QED BY <1>2, FS_CardinalityType, FS_EmptySet

LEMMA StaticsAdded ==
    ASSUME NEW r, IsManager(r), NEW S \in SUBSET Cells
    PROVE  /\ IsManager(AddStatics(r, S)) /\ Changes(r, AddStatics(r, S))
           /\ AddStatics(r, S).mStatics = r.mStatics \cup S
           /\ S \subseteq r.mStatics \/ r.mRevision < AddStatics(r, S).mRevision
<1> DEFINE new == S \ r.mStatics
           s == AddStatics(r, S)
<1>1. Cardinality(new) \in Nat /\ (new # {} => Cardinality(new) > 0)
  BY Countable
<1>2. /\ DOMAIN s = ManagerFields /\ s.mRange = r.mRange /\ s.mWorldspace = r.mWorldspace
      /\ s.mGeneration = r.mGeneration /\ s.mObjects = r.mObjects /\ s.mCache = r.mCache
      /\ s.mStatics = r.mStatics \cup S /\ s.mRevision = r.mRevision + Cardinality(new)
      /\ s.mChangedTiles = r.mChangedTiles \cup UNION {StaticTiles[c] : c \in new}
  BY DEF IsManager, ManagerFields, AddStatics
<1>3. IsManager(s)
  BY <1>1, <1>2, SceneAssumption DEF IsManager, SceneAssumption
<1>4. Changes(r, s)
  <2>1. ASSUME NEW t \in Tiles, t \notin s.mChangedTiles PROVE SameTile(r, s, t)
    BY <1>2, <2>1 DEF SameTile, ObjectsAt, StaticsAt
  <2> QED BY <1>1, <1>2, <2>1 DEF Changes, IsManager
<1> QED BY <1>1, <1>2, <1>3, <1>4 DEF IsManager

LEMMA StaticsRemoved ==
    ASSUME NEW r, IsManager(r), NEW S \in SUBSET Cells
    PROVE  /\ IsManager(RemoveStatics(r, S)) /\ Changes(r, RemoveStatics(r, S))
           /\ RemoveStatics(r, S).mStatics = r.mStatics \ S
           /\ S \cap r.mStatics = {} \/ r.mRevision < RemoveStatics(r, S).mRevision
<1> DEFINE gone == S \cap r.mStatics
           s == RemoveStatics(r, S)
<1>1. Cardinality(gone) \in Nat /\ (gone # {} => Cardinality(gone) > 0)
  BY Countable
<1>2. /\ DOMAIN s = ManagerFields /\ s.mRange = r.mRange /\ s.mWorldspace = r.mWorldspace
      /\ s.mGeneration = r.mGeneration /\ s.mObjects = r.mObjects /\ s.mCache = r.mCache
      /\ s.mStatics = r.mStatics \ S /\ s.mRevision = r.mRevision + Cardinality(gone)
      /\ s.mChangedTiles = r.mChangedTiles \cup UNION {StaticTiles[c] : c \in gone}
  BY DEF IsManager, ManagerFields, RemoveStatics
<1>3. IsManager(s)
  BY <1>1, <1>2, SceneAssumption DEF IsManager, SceneAssumption
<1>4. Changes(r, s)
  <2>1. ASSUME NEW t \in Tiles, t \notin s.mChangedTiles PROVE SameTile(r, s, t)
    BY <1>2, <2>1 DEF SameTile, ObjectsAt, StaticsAt
  <2> QED BY <1>1, <1>2, <2>1 DEF Changes, IsManager
<1> QED BY <1>1, <1>2, <1>3, <1>4 DEF IsManager

LEMMA ObjectsRemoved ==
    ASSUME NEW r, IsManager(r), NEW S \in SUBSET Objects
    PROVE  /\ IsManager(RemoveObjects(r, S)) /\ Changes(r, RemoveObjects(r, S))
           /\ RemoveObjects(r, S).mStatics = r.mStatics
<1> DEFINE gone == S \cap DOMAIN r.mObjects
           s == RemoveObjects(r, S)
<1>1. Cardinality(gone) \in Nat /\ (gone # {} => Cardinality(gone) > 0)
  BY Countable
<1>2. /\ DOMAIN s = ManagerFields /\ s.mRange = r.mRange /\ s.mWorldspace = r.mWorldspace
      /\ s.mGeneration = r.mGeneration /\ s.mCache = r.mCache /\ s.mStatics = r.mStatics
      /\ s.mRevision = r.mRevision + Cardinality(gone)
  BY DEF IsManager, ManagerFields, RemoveObjects
<1>3. s.mObjects = [o \in DOMAIN r.mObjects \ gone |-> r.mObjects[o]]
  BY DEF IsManager, ManagerFields, RemoveObjects, Without
<1>4. s.mChangedTiles =
        r.mChangedTiles \cup LimitedTo(r, UNION {r.mObjects[o].mRange : o \in gone})
  BY DEF IsManager, ManagerFields, RemoveObjects
<1>5. UNION {r.mObjects[o].mRange : o \in gone} \subseteq Tiles
  BY DEF IsManager, IsMap, ObjectData
<1>6. IsManager(s)
  <2>1. IsMap(s.mObjects, Objects, ObjectData)
    BY <1>3 DEF IsManager, IsMap
  <2>2. s.mChangedTiles \subseteq Tiles
    BY <1>4, <1>5 DEF IsManager, LimitedTo
  <2> QED BY <1>1, <1>2, <1>3, <2>1, <2>2 DEF IsManager
<1>7. Changes(r, s)
  <2>1. ASSUME NEW t \in Tiles, IsInRange(r, t), t \notin s.mChangedTiles
        PROVE  SameTile(r, s, t)
    <3>1. \A o \in gone : t \notin r.mObjects[o].mRange
      BY <1>4, <2>1 DEF LimitedTo
    <3>2. ObjectsAt(s, t) = ObjectsAt(r, t)
      BY <1>3, <3>1 DEF ObjectsAt
    <3> QED BY <1>2, <1>3, <3>1, <3>2 DEF SameTile, ObjectsAt, StaticsAt
  <2>2. s.mChangedTiles = r.mChangedTiles \/ gone # {}
    BY <1>4 DEF LimitedTo
  <2> QED BY <1>1, <1>2, <1>4, <2>1, <2>2 DEF Changes, IsManager
<1> QED BY <1>2, <1>6, <1>7

(* The stamps of added objects are numbers.                                *)
LEMMA Stamps ==
    ASSUME NEW S, IsFiniteSet(S)
    PROVE  \A o \in S :
             (CHOOSE f \in Bijection(S, 1..Cardinality(S)) : TRUE)[o] \in Int
<1> DEFINE n == Cardinality(S)
<1>1. ExistsBijection(1..n, S)
  BY FS_CardinalityType
<1>2. Bijection(S, 1..n) # {}
  BY <1>1, Fun_ExistsBijSymmetric DEF ExistsBijection
<1>3. (CHOOSE f \in Bijection(S, 1..n) : TRUE) \in Bijection(S, 1..n)
  BY <1>2
<1>4. (CHOOSE f \in Bijection(S, 1..n) : TRUE) \in [S -> 1..n]
  BY <1>3 DEF Bijection, Injection
<1>5. n \in Nat
  BY FS_CardinalityType
<1> QED BY <1>4, <1>5

LEMMA ObjectsAdded ==
    ASSUME NEW r, IsManager(r), NEW S \in SUBSET Objects, NEW at \in [S -> Transforms]
    PROVE  /\ IsManager(AddObjects(r, at)) /\ Changes(r, AddObjects(r, at))
           /\ AddObjects(r, at).mStatics = r.mStatics
<1> DEFINE new == S \ DOMAIN r.mObjects
           s == AddObjects(r, at)
           order == CHOOSE f \in Bijection(new, 1..Cardinality(new)) : TRUE
           data(o) == [at |-> at[o], mRange |-> TilesOf[at[o]],
                       mAabb |-> [mLastChangeRevision |-> r.mRevision + order[o],
                                  mAabb |-> AabbOf[at[o]]],
                       mGeneration |-> r.mGeneration,
                       mLastNavMeshReportedChange |-> None, mLastNavMeshReport |-> None]
<1>1. IsFiniteSet(new) /\ Cardinality(new) \in Nat /\ (new # {} => Cardinality(new) > 0)
  BY Countable
<1>2. \A o \in new : order[o] \in Int
  BY <1>1, Stamps
<1>3. /\ DOMAIN s = ManagerFields /\ s.mRange = r.mRange /\ s.mWorldspace = r.mWorldspace
      /\ s.mGeneration = r.mGeneration /\ s.mCache = r.mCache /\ s.mStatics = r.mStatics
      /\ s.mRevision = r.mRevision + Cardinality(new)
  BY DEF IsManager, ManagerFields, AddObjects
<1>4. s.mObjects = [o \in DOMAIN r.mObjects \cup new |->
                      IF o \in new THEN data(o) ELSE r.mObjects[o]]
  BY DEF IsManager, ManagerFields, AddObjects
<1>5. s.mChangedTiles =
        r.mChangedTiles \cup LimitedTo(r, UNION {TilesOf[at[o]] : o \in new})
  BY DEF IsManager, ManagerFields, AddObjects
<1>6. \A o \in new : TilesOf[at[o]] \subseteq Tiles /\ AabbOf[at[o]] \in Aabb
  BY SceneAssumption DEF SceneAssumption
<1>7. \A o \in new : data(o) \in ObjectData
  <2>1. r.mRevision \in Nat /\ r.mGeneration \in Nat
    BY DEF IsManager
  <2> HIDE DEF order, new
  <2>2. ASSUME NEW o \in new, at[o] \in Transforms PROVE data(o) \in ObjectData
    <3>1. r.mRevision + order[o] \in Int
      BY <1>2, <2>1
    <3> QED BY <1>6, <2>1, <2>2, <3>1 DEF ObjectData
  <2> QED BY <2>2 DEF new
<1>8. IsManager(s)
  <2>1. IsMap(s.mObjects, Objects, ObjectData)
    <3>1. s.mObjects \in [DOMAIN r.mObjects \cup new -> ObjectData]
      BY <1>4, <1>7 DEF IsManager, IsMap
    <3> QED BY <3>1 DEF IsManager, IsMap
  <2>2. s.mChangedTiles \subseteq Tiles
    BY <1>5, <1>6 DEF IsManager, LimitedTo
  <2>3. ASSUME NEW o \in DOMAIN s.mObjects
        PROVE  Inside(AabbOf[s.mObjects[o].at], s.mObjects[o].mAabb.mAabb)
    <3>1. CASE o \in new
      BY <1>4, <1>6, <3>1 DEF Inside, Aabb
    <3> QED BY <1>4, <3>1 DEF IsManager
  <2> QED BY <1>1, <1>3, <2>1, <2>2, <2>3 DEF IsManager
<1>9. Changes(r, s)
  <2>1. ASSUME NEW t \in Tiles, IsInRange(r, t), t \notin s.mChangedTiles
        PROVE  SameTile(r, s, t)
    <3>1. \A o \in new : t \notin TilesOf[at[o]]
      BY <1>5, <2>1 DEF LimitedTo
    <3>2. ObjectsAt(s, t) = ObjectsAt(r, t)
      BY <1>4, <3>1 DEF ObjectsAt
    <3> QED BY <1>3, <1>4, <3>1, <3>2 DEF SameTile, ObjectsAt, StaticsAt
  <2>2. s.mChangedTiles = r.mChangedTiles \/ new # {}
    BY <1>5 DEF LimitedTo
  <2> QED BY <1>1, <1>3, <1>5, <2>1, <2>2 DEF Changes, IsManager
<1> QED BY <1>3, <1>8, <1>9

(* A move inside the cumulative box leaves the box as it is.               *)
LEMMA SameHull ==
    ASSUME NEW a \in Aabb, NEW b \in Aabb, Inside(b, a)
    PROVE  Hull(a, b) = a
BY DEF Aabb, Inside, Hull

LEMMA WiderHull ==
    ASSUME NEW a \in Aabb, NEW b \in Aabb
    PROVE  Hull(a, b) \in Aabb /\ Inside(b, Hull(a, b))
<1>1. Hull(a, b) \in Aabb
  BY DEF Aabb, Hull
<1>2. Hull(a, b).min <= b.min /\ b.max <= Hull(a, b).max
  BY DEF Aabb, Hull
<1> QED BY <1>1, <1>2 DEF Inside

LEMMA ObjectMoved ==
    ASSUME NEW r, IsManager(r), NEW o \in Objects, NEW x \in Transforms
    PROVE  /\ IsManager(UpdateObject(r, o, x)) /\ Changes(r, UpdateObject(r, o, x))
           /\ UpdateObject(r, o, x).mStatics = r.mStatics
<1> DEFINE s == UpdateObject(r, o, x)
           old == r.mObjects[o]
           since == LastChangeRevision(r, o)
           moved == [old EXCEPT !.at = x, !.mAabb = UpdatedAabb(@, since, AabbOf[x])]
<1>1. CASE o \notin DOMAIN r.mObjects \/ old.at = x
  BY <1>1, ChangesNothing DEF UpdateObject
<1>2. CASE ~(o \notin DOMAIN r.mObjects \/ old.at = x)
  <2>1. old \in ObjectData
    BY <1>2 DEF IsManager, IsMap
  <2>2. AabbOf[x] \in Aabb /\ TilesOf[x] \subseteq Tiles
    BY SceneAssumption DEF SceneAssumption
  <2>3. since \in Int
    BY <2>1 DEF LastChangeRevision, ObjectData, Report, IsManager
  <2>4. old.mAabb \in [mLastChangeRevision : Int, mAabb : Aabb] /\ old.mRange \subseteq Tiles
    BY <2>1 DEF ObjectData
  <2> DEFINE box == UpdatedAabb(old.mAabb, since, AabbOf[x])
  <2>5. box \in [mLastChangeRevision : Int, mAabb : Aabb] /\ Inside(AabbOf[x], box.mAabb)
    <3>1. CASE old.mAabb.mLastChangeRevision # since
      <4>1. box = [mLastChangeRevision |-> since, mAabb |-> AabbOf[x]]
        BY <3>1 DEF UpdatedAabb
      <4>2. Inside(AabbOf[x], AabbOf[x])
        BY <2>2 DEF Aabb, Inside
      <4> QED BY <4>1, <4>2, <2>2, <2>3
    <3>2. CASE old.mAabb.mLastChangeRevision = since
      <4>1. box = [old.mAabb EXCEPT !.mAabb = Hull(old.mAabb.mAabb, AabbOf[x])]
        BY <3>2 DEF UpdatedAabb
      <4>2. Hull(old.mAabb.mAabb, AabbOf[x]) \in Aabb
            /\ Inside(AabbOf[x], Hull(old.mAabb.mAabb, AabbOf[x]))
        BY <2>2, <2>4, WiderHull
      <4> HIDE DEF box
      <4> QED BY <4>1, <4>2, <2>4
    <3> QED BY <3>1, <3>2
  <2> HIDE DEF box
  <2>6. moved = [old EXCEPT !.at = x, !.mAabb = box]
    BY DEF box
  <2>7. moved \in ObjectData /\ moved.at = x /\ moved.mAabb = box /\ moved.mRange = old.mRange
    BY <2>1, <2>5, <2>6 DEF ObjectData
  <2>8. CASE ~IsAabbChange(old.mAabb, since, AabbOf[x])
    <3>1. s = [r EXCEPT !.mObjects[o] = moved]
      BY <1>2, <2>8 DEF UpdateObject
    <3>2. box.mAabb = old.mAabb.mAabb
      <4>1. old.mAabb.mLastChangeRevision = since /\ Inside(AabbOf[x], old.mAabb.mAabb)
        BY <2>8 DEF IsAabbChange
      <4>2. box = [old.mAabb EXCEPT !.mAabb = Hull(old.mAabb.mAabb, AabbOf[x])]
        BY <4>1 DEF UpdatedAabb, box
      <4>3. Hull(old.mAabb.mAabb, AabbOf[x]) = old.mAabb.mAabb
        BY <2>2, <2>4, <4>1, SameHull
      <4> QED BY <4>2, <4>3, <2>4
    <3> HIDE DEF moved
    <3>3. /\ DOMAIN s = ManagerFields /\ s.mRange = r.mRange /\ s.mCache = r.mCache
          /\ s.mWorldspace = r.mWorldspace /\ s.mGeneration = r.mGeneration
          /\ s.mStatics = r.mStatics /\ s.mRevision = r.mRevision
          /\ s.mChangedTiles = r.mChangedTiles
      BY <3>1 DEF IsManager, ManagerFields
    <3>4. s.mObjects = [r.mObjects EXCEPT ![o] = moved]
      BY <3>1 DEF IsManager, ManagerFields
    <3> HIDE DEF s
    <3>5. IsMap(s.mObjects, Objects, ObjectData)
      BY <2>7, <3>4 DEF IsManager, IsMap
    <3>6. \A i \in DOMAIN s.mObjects :
            Inside(AabbOf[s.mObjects[i].at], s.mObjects[i].mAabb.mAabb)
      BY <1>2, <2>5, <2>7, <3>4 DEF IsManager, IsMap
    <3>7. \A t \in Tiles : SameTile(r, s, t)
      BY <1>2, <2>7, <3>2, <3>3, <3>4 DEF SameTile, ObjectsAt, StaticsAt, IsManager, IsMap
    <3> QED BY <3>3, <3>5, <3>6, <3>7 DEF IsManager, Changes, s
  <2>9. CASE IsAabbChange(old.mAabb, since, AabbOf[x])
    <3> DEFINE placed == [moved EXCEPT !.mRange = TilesOf[x]]
    <3>1. s = [r EXCEPT !.mObjects[o] = placed, !.mRevision = @ + 1,
                        !.mChangedTiles = @ \cup LimitedTo(r, old.mRange \cup TilesOf[x])]
      BY <1>2, <2>9 DEF UpdateObject
    <3> HIDE DEF moved
    <3>2. placed \in ObjectData /\ placed.at = x /\ placed.mAabb = box
          /\ placed.mRange = TilesOf[x]
      BY <2>2, <2>7 DEF ObjectData
    <3> HIDE DEF placed
    <3>3. /\ DOMAIN s = ManagerFields /\ s.mRange = r.mRange /\ s.mCache = r.mCache
          /\ s.mWorldspace = r.mWorldspace /\ s.mGeneration = r.mGeneration
          /\ s.mStatics = r.mStatics /\ s.mRevision = r.mRevision + 1
      BY <3>1 DEF IsManager, ManagerFields
    <3>4. s.mObjects = [r.mObjects EXCEPT ![o] = placed]
      BY <3>1 DEF IsManager, ManagerFields
    <3>5. s.mChangedTiles = r.mChangedTiles \cup LimitedTo(r, old.mRange \cup TilesOf[x])
      BY <3>1 DEF IsManager, ManagerFields
    <3> HIDE DEF s
    <3>6. IsMap(s.mObjects, Objects, ObjectData)
      BY <3>2, <3>4 DEF IsManager, IsMap
    <3>7. \A i \in DOMAIN s.mObjects :
            Inside(AabbOf[s.mObjects[i].at], s.mObjects[i].mAabb.mAabb)
      BY <1>2, <2>5, <3>2, <3>4 DEF IsManager, IsMap
    <3>8. s.mChangedTiles \subseteq Tiles
      BY <2>2, <2>4, <3>5 DEF IsManager, LimitedTo
    <3>9. ASSUME NEW t \in Tiles, IsInRange(r, t), t \notin s.mChangedTiles
          PROVE  SameTile(r, s, t)
      <4>1. t \notin old.mRange /\ t \notin TilesOf[x]
        BY <3>5, <3>9 DEF LimitedTo
      <4>2. ObjectsAt(s, t) = ObjectsAt(r, t) /\ o \notin ObjectsAt(r, t)
        BY <1>2, <3>2, <3>4, <4>1 DEF ObjectsAt, IsManager, IsMap
      <4> QED BY <3>3, <3>4, <4>2 DEF SameTile, StaticsAt, ObjectsAt, IsManager, IsMap
    <3>10. IsManager(s)
      BY <3>3, <3>6, <3>7, <3>8 DEF IsManager
    <3>11. Changes(r, s)
      <4>1. r.mRevision \in Nat /\ r.mChangedTiles \subseteq s.mChangedTiles
        BY <3>5 DEF IsManager
      <4>2. r.mRevision < s.mRevision
        BY <3>3, <4>1
      <4> QED BY <3>3, <3>9, <4>1, <4>2 DEF Changes
    <3> QED BY <3>3, <3>10, <3>11 DEF s
  <2> QED BY <2>8, <2>9
<1> QED BY <1>1, <1>2

-----------------------------------------------------------------------------
(* Changes of range and worldspace, and what an update takes               *)

(* s is r after changes of scene and range.                                *)
Moves(r, s) ==
    /\ s.mWorldspace = r.mWorldspace
    /\ r.mRevision <= s.mRevision /\ r.mChangedTiles \subseteq s.mChangedTiles
    /\ s.mChangedTiles = r.mChangedTiles \/ r.mRevision < s.mRevision
    /\ \A t \in Tiles :
         IsInRange(r, t) /\ IsInRange(s, t) /\ t \notin s.mChangedTiles => SameTile(r, s, t)
    /\ DOMAIN s.mCache \subseteq DOMAIN r.mCache
    /\ \A t \in DOMAIN s.mCache :
         /\ s.mCache[t] = r.mCache[t]
         /\ r.mRange # None /\ t \in r.mRange => s.mRange # None /\ t \in s.mRange

LEMMA ChangesThenMoves ==
    ASSUME NEW r, NEW s, NEW u, IsManager(r), IsManager(s), IsManager(u),
           Changes(r, s), Moves(s, u)
    PROVE  Moves(r, u)
BY DEF Changes, Moves, SameTile, IsInRange, IsManager

LEMMA MovesThenChanges ==
    ASSUME NEW r, NEW s, NEW u, IsManager(r), IsManager(s), IsManager(u),
           Moves(r, s), Changes(s, u)
    PROVE  Moves(r, u)
BY DEF Changes, Moves, SameTile, IsInRange, IsManager

LEMMA MovesTwice ==
    ASSUME NEW r, NEW s, NEW u, IsManager(r), IsManager(s), IsManager(u),
           Moves(r, s), Moves(s, u), s.mRange = u.mRange
    PROVE  Moves(r, u)
BY DEF Moves, SameTile, IsInRange, IsManager

LEMMA RangeIsSet ==
    ASSUME NEW range \in SUBSET Tiles PROVE range # None
BY SceneAssumption DEF SceneAssumption

LEMMA RangeSet ==
    ASSUME NEW r, IsManager(r), NEW range \in SUBSET Tiles
    PROVE  /\ IsManager(SetRange(r, range)) /\ Moves(r, SetRange(r, range))
           /\ SetRange(r, range).mRange = range
           /\ SetRange(r, range).mStatics = r.mStatics
<1> DEFINE s == SetRange(r, range)
<1>0. range # None
  BY RangeIsSet
<1>1. CASE r.mRange = None \/ r.mRange = range
  <2>1. s = [r EXCEPT !.mRange = range]
    BY <1>1 DEF SetRange
  <2>2. /\ DOMAIN s = ManagerFields /\ s.mRange = range /\ s.mCache = r.mCache
        /\ s.mWorldspace = r.mWorldspace /\ s.mGeneration = r.mGeneration
        /\ s.mObjects = r.mObjects /\ s.mStatics = r.mStatics
        /\ s.mRevision = r.mRevision /\ s.mChangedTiles = r.mChangedTiles
    BY <2>1 DEF IsManager, ManagerFields
  <2> HIDE DEF s
  <2>4. IsManager(s)
    BY <2>2 DEF IsManager
  <2>5. Moves(r, s)
    BY <1>0, <1>1, <2>2 DEF IsManager, Moves, SameTile, ObjectsAt, StaticsAt
  <2> QED BY <2>2, <2>4, <2>5 DEF s
<1>2. CASE ~(r.mRange = None \/ r.mRange = range)
  <2> DEFINE footprint == UNION {TilesOf[r.mObjects[o].at] : o \in DOMAIN r.mObjects}
             crossed == {t \in footprint : (t \in range) # (t \in r.mRange)}
  <2>1. s = [r EXCEPT !.mRange = range,
                      !.mChangedTiles = @ \cup crossed,
                      !.mRevision = IF crossed = {} THEN @ ELSE @ + 1,
                      !.mCache = Without(@, r.mRange \ range)]
    BY <1>2 DEF SetRange
  <2>2. crossed \subseteq Tiles
    BY SceneAssumption DEF SceneAssumption, IsManager, IsMap, ObjectData
  <2> DEFINE revision == IF crossed = {} THEN r.mRevision ELSE r.mRevision + 1
             cache == Without(r.mCache, r.mRange \ range)
  <2>a. s = [r EXCEPT !.mRange = range, !.mChangedTiles = r.mChangedTiles \cup crossed,
                      !.mRevision = revision, !.mCache = cache]
    BY <2>1
  <2> HIDE DEF crossed, revision, cache
  <2>3. /\ DOMAIN s = ManagerFields /\ s.mRange = range
        /\ s.mWorldspace = r.mWorldspace /\ s.mGeneration = r.mGeneration
        /\ s.mObjects = r.mObjects /\ s.mStatics = r.mStatics
        /\ s.mRevision = (IF crossed = {} THEN r.mRevision ELSE r.mRevision + 1)
        /\ s.mChangedTiles = r.mChangedTiles \cup crossed
    BY <2>a DEF IsManager, ManagerFields, revision
  <2>4. s.mCache = [t \in DOMAIN r.mCache \ (r.mRange \ range) |-> r.mCache[t]]
    BY <2>a DEF IsManager, ManagerFields, Without, cache
  <2> HIDE DEF s
  <2>5. IsManager(s)
    <3>1. IsMap(s.mCache, Tiles, CachedTile)
      BY <2>4 DEF IsManager, IsMap
    <3> QED BY <2>2, <2>3, <2>4, <3>1 DEF IsManager
  <2>6. Moves(r, s)
    BY <1>0, <1>2, <2>3, <2>4 DEF IsManager, Moves, SameTile, ObjectsAt, StaticsAt
  <2> QED BY <2>3, <2>5, <2>6 DEF s
<1> QED BY <1>1, <1>2

LEMMA WorldspaceSet ==
    ASSUME NEW r, IsManager(r), NEW w \in Worldspaces, r.mWorldspace # w
    PROVE  /\ IsManager(SetWorldspace(r, w))
           /\ SetWorldspace(r, w).mWorldspace = w
           /\ SetWorldspace(r, w).mRange = r.mRange
           /\ SetWorldspace(r, w).mStatics = {}
           /\ SetWorldspace(r, w).mRevision = r.mRevision + 1
           /\ DOMAIN SetWorldspace(r, w).mCache = {}
<1> DEFINE s == SetWorldspace(r, w)
<1>1. /\ DOMAIN s = ManagerFields /\ s.mRange = r.mRange /\ s.mCache = NoMap
      /\ s.mWorldspace = w /\ s.mGeneration = r.mGeneration + 1
      /\ s.mObjects = NoMap /\ s.mStatics = {}
      /\ s.mRevision = r.mRevision + 1 /\ s.mChangedTiles = r.mChangedTiles
  BY DEF IsManager, ManagerFields, SetWorldspace
<1> HIDE DEF s
<1>2. DOMAIN NoMap = {} /\ NoMap \in [DOMAIN NoMap -> ObjectData]
      /\ NoMap \in [DOMAIN NoMap -> CachedTile]
  BY DEF NoMap
<1>3. IsManager(s)
  BY <1>1, <1>2 DEF IsManager, IsMap
<1> QED BY <1>1, <1>2, <1>3 DEF s

(* No cached mesh of a tile that an update takes is served afterwards.     *)
LEMMA TilesTaken ==
    ASSUME NEW r, IsManager(r)
    PROVE  LET s == TakeChangedTiles(r) IN
           /\ IsManager(s)
           /\ s.mRange = r.mRange /\ s.mWorldspace = r.mWorldspace
           /\ s.mRevision = r.mRevision /\ s.mStatics = r.mStatics
           /\ s.mObjects = r.mObjects /\ s.mChangedTiles = {}
           /\ DOMAIN s.mCache = DOMAIN r.mCache
           /\ \A t \in DOMAIN s.mCache :
                IF t \in r.mChangedTiles THEN ~IsServed(s, t)
                ELSE s.mCache[t] = r.mCache[t]
<1> DEFINE s == TakeChangedTiles(r)
           cache == [t \in DOMAIN r.mCache |->
                       IF t \in r.mChangedTiles
                       THEN Outdated(r.mCache[t]) ELSE r.mCache[t]]
<1>1. /\ DOMAIN s = ManagerFields /\ s.mRange = r.mRange
      /\ s.mWorldspace = r.mWorldspace /\ s.mGeneration = r.mGeneration
      /\ s.mObjects = r.mObjects /\ s.mStatics = r.mStatics
      /\ s.mRevision = r.mRevision /\ s.mChangedTiles = {}
  BY DEF IsManager, ManagerFields, TakeChangedTiles
<1>2. s.mCache = cache
  <2>1. s = [r EXCEPT !.mChangedTiles = {}, !.mCache = cache]
    BY DEF TakeChangedTiles
  <2> HIDE DEF cache, s
  <2> QED BY <2>1 DEF IsManager, ManagerFields
<1>3. \A t \in DOMAIN r.mCache :
        r.mCache[t] \in CachedTile
        /\ r.mCache[t].mVersion.mRevision >= r.mCache[t].mRecastMesh.mVersion.mRevision
        /\ ~IsEmptyMesh(r.mCache[t].mRecastMesh)
  BY DEF IsManager, IsMap
<1>4. ASSUME NEW t \in DOMAIN r.mCache, t \in r.mChangedTiles
      PROVE  /\ cache[t] \in CachedTile
             /\ cache[t].mRecastMesh = r.mCache[t].mRecastMesh
             /\ cache[t].mVersion.mRevision > cache[t].mRecastMesh.mVersion.mRevision
  <2>1. cache[t] = [r.mCache[t] EXCEPT !.mVersion.mRevision = @ + 1]
    BY <1>4 DEF Outdated
  <2>2. r.mCache[t] \in [mVersion : [mGeneration : Nat, mRevision : Nat],
                         mRecastMesh : RecastMesh]
    BY <1>3 DEF CachedTile, Version
  <2>3. r.mCache[t].mRecastMesh.mVersion.mRevision \in Nat
    BY <2>2 DEF RecastMesh, Version
  <2> HIDE DEF cache
  <2> QED BY <1>3, <2>1, <2>2, <2>3 DEF CachedTile, Version
<1>5. \A t \in DOMAIN r.mCache : t \notin r.mChangedTiles => cache[t] = r.mCache[t]
  OBVIOUS
<1>6. DOMAIN cache = DOMAIN r.mCache
  OBVIOUS
<1>7. cache \in [DOMAIN r.mCache -> CachedTile]
  BY <1>3, <1>4
<1> HIDE DEF cache, s
<1>8. IsManager(s)
  <2>1. IsMap(s.mCache, Tiles, CachedTile)
    BY <1>2, <1>6, <1>7 DEF IsManager, IsMap
  <2>2. \A t \in DOMAIN s.mCache :
          /\ s.mCache[t].mVersion.mRevision >= s.mCache[t].mRecastMesh.mVersion.mRevision
          /\ ~IsEmptyMesh(s.mCache[t].mRecastMesh)
    <3> SUFFICES ASSUME NEW t \in DOMAIN r.mCache
                 PROVE  /\ cache[t].mVersion.mRevision >= cache[t].mRecastMesh.mVersion.mRevision
                        /\ ~IsEmptyMesh(cache[t].mRecastMesh)
      BY <1>2, <1>6
    <3>1. CASE t \in r.mChangedTiles
      <4>1. cache[t].mVersion.mRevision \in Nat
            /\ cache[t].mRecastMesh.mVersion.mRevision \in Nat
        BY <1>4, <3>1 DEF CachedTile, RecastMesh, Version
      <4> QED BY <1>3, <1>4, <3>1, <4>1
    <3>2. CASE t \notin r.mChangedTiles
      BY <1>3, <1>5, <3>2
    <3> QED BY <3>1, <3>2
  <2> QED BY <1>1, <2>1, <2>2 DEF IsManager
<1>9. ASSUME NEW t \in DOMAIN r.mCache, t \in r.mChangedTiles
      PROVE  ~IsServed(s, t)
  <2>1. cache[t].mRecastMesh.mVersion.mRevision \in Nat
    BY <1>4, <1>9 DEF CachedTile, RecastMesh, Version
  <2> QED BY <1>2, <1>4, <1>9, <2>1 DEF IsServed
<1> QED BY <1>1, <1>2, <1>5, <1>6, <1>8, <1>9 DEF s

LEMMA RangeForTiles ==
    ASSUME NEW p \in PlayerTiles, NEW cells \in SUBSET Cells, NEW w
    PROVE  RangeFor(p, cells, w) \in SUBSET Tiles /\ RangeFor(p, cells, w) # None
<1>1. RangeFor(p, cells, w) \in SUBSET Tiles
  BY ManagerAssumption DEF ManagerAssumption, RangeFor
<1> QED BY <1>1, RangeIsSet

LEMMA CellsUnloaded ==
    ASSUME NEW r, IsManager(r), NEW S \in SUBSET Cells
    PROVE  /\ IsManager(UnloadCells(r, S)) /\ Changes(r, UnloadCells(r, S))
           /\ UnloadCells(r, S).mStatics = r.mStatics \ S
           /\ S \cap r.mStatics = {} \/ r.mRevision < UnloadCells(r, S).mRevision
<1> DEFINE s == RemoveObjects(r, {o \in Objects : CellOf[o] \in S})
           u == RemoveStatics(s, S)
<1>1. IsManager(s) /\ Changes(r, s) /\ s.mStatics = r.mStatics
  BY ObjectsRemoved
<1>2. UnloadCells(r, S) = u
  BY DEF UnloadCells
<1> HIDE DEF s
<1>3. /\ IsManager(u) /\ Changes(s, u) /\ u.mStatics = s.mStatics \ S
      /\ S \cap s.mStatics = {} \/ s.mRevision < u.mRevision
  BY <1>1, StaticsRemoved
<1> HIDE DEF u
<1>4. Changes(r, u)
  BY <1>1, <1>3, ChangesTwice
<1>5. r.mRevision <= s.mRevision /\ r.mRevision \in Nat /\ s.mRevision \in Nat
      /\ u.mRevision \in Nat
  BY <1>1, <1>3 DEF Changes, IsManager
<1> QED BY <1>1, <1>2, <1>3, <1>4, <1>5

LEMMA CellsLoaded ==
    ASSUME NEW r, IsManager(r), NEW C \in SUBSET Cells,
           NEW S \in SUBSET Objects, NEW at \in [S -> Transforms]
    PROVE  /\ IsManager(LoadCells(r, C, at)) /\ Changes(r, LoadCells(r, C, at))
           /\ LoadCells(r, C, at).mStatics = r.mStatics \cup C
           /\ C \subseteq r.mStatics \/ r.mRevision < LoadCells(r, C, at).mRevision
<1> DEFINE s == AddStatics(r, C)
           u == AddObjects(s, at)
<1>1. /\ IsManager(s) /\ Changes(r, s) /\ s.mStatics = r.mStatics \cup C
      /\ C \subseteq r.mStatics \/ r.mRevision < s.mRevision
  BY StaticsAdded
<1>2. LoadCells(r, C, at) = u
  BY DEF LoadCells
<1> HIDE DEF s
<1>3. IsManager(u) /\ Changes(s, u) /\ u.mStatics = s.mStatics
  BY <1>1, ObjectsAdded
<1> HIDE DEF u
<1>4. Changes(r, u)
  BY <1>1, <1>3, ChangesTwice
<1>5. s.mRevision <= u.mRevision /\ r.mRevision \in Nat /\ s.mRevision \in Nat
      /\ u.mRevision \in Nat
  BY <1>1, <1>3 DEF Changes, IsManager
<1> QED BY <1>1, <1>2, <1>3, <1>4, <1>5

(* Other cells of the same worldspace: some cell comes or goes, so there   *)
(* is a new revision.                                                      *)
LEMMA SceneAfter ==
    ASSUME SceneInv, NEW w \in Worldspaces, NEW p \in PlayerTiles,
           NEW cells \in SUBSET Cells, cells # mActiveCells, w = recast.mWorldspace,
           NEW r \in ScenesAfter(w, cells, p)
    PROVE  /\ IsManager(r) /\ Moves(recast, r)
           /\ r.mRange = RangeFor(p, cells, w) /\ r.mStatics = cells
           /\ recast.mRevision < r.mRevision
<1> DEFINE kept == UnloadCells(recast, mActiveCells \ cells)
           range == RangeFor(p, cells, w)
           ranged == SetRange(kept, range)
           loaded == cells \ mActiveCells
<1>1. IsManager(recast) /\ recast.mStatics = mActiveCells /\ mActiveCells \subseteq Cells
  BY DEF SceneInv
<1>2. /\ IsManager(kept) /\ Changes(recast, kept)
      /\ kept.mStatics = mActiveCells \ (mActiveCells \ cells)
      /\ (mActiveCells \ cells) \cap mActiveCells = {} \/ recast.mRevision < kept.mRevision
  BY <1>1, CellsUnloaded
<1>3. SetWorldspace(kept, w) = kept
  BY <1>2 DEF SetWorldspace, Changes
<1>4. range \in SUBSET Tiles
  BY RangeForTiles
<1>5. PICK S \in SUBSET Objects : \E at \in [S -> Transforms] :
        r = LoadCells(ranged, loaded, at)
  BY <1>3 DEF ScenesAfter
<1>6. PICK at \in [S -> Transforms] : r = LoadCells(ranged, loaded, at)
  BY <1>5
<1> HIDE DEF kept, range
<1>7. /\ IsManager(ranged) /\ Moves(kept, ranged) /\ ranged.mRange = range
      /\ ranged.mStatics = kept.mStatics
  BY <1>2, <1>4, RangeSet
<1> HIDE DEF ranged
<1>8. /\ IsManager(r) /\ Changes(ranged, r) /\ r.mStatics = ranged.mStatics \cup loaded
      /\ loaded \subseteq ranged.mStatics \/ ranged.mRevision < r.mRevision
  BY <1>6, <1>7, CellsLoaded
<1>9. Moves(recast, ranged)
  BY <1>1, <1>2, <1>7, ChangesThenMoves
<1>10. Moves(recast, r)
  BY <1>1, <1>7, <1>8, <1>9, MovesThenChanges
<1>11. r.mRange = range /\ r.mStatics = cells
  BY <1>2, <1>7, <1>8 DEF Changes
<1>12. /\ recast.mRevision <= kept.mRevision /\ kept.mRevision <= ranged.mRevision
       /\ ranged.mRevision <= r.mRevision
  BY <1>2, <1>7, <1>8 DEF Changes, Moves
<1>13. recast.mRevision \in Nat /\ kept.mRevision \in Nat /\ ranged.mRevision \in Nat
       /\ r.mRevision \in Nat
  BY <1>1, <1>2, <1>7, <1>8 DEF IsManager
<1>14. recast.mRevision < kept.mRevision \/ ranged.mRevision < r.mRevision
  BY <1>2, <1>7, <1>8
<1>15. recast.mRevision < r.mRevision
  BY <1>12, <1>13, <1>14
<1> QED BY <1>8, <1>10, <1>11, <1>15 DEF range

LEMMA SceneOfWorldspace ==
    ASSUME SceneInv, NEW w \in Worldspaces, NEW p \in PlayerTiles,
           NEW cells \in SUBSET Cells, \A c \in cells : WorldspaceOf[c] = w,
           w # recast.mWorldspace, NEW r \in ScenesAfter(w, cells, p)
    PROVE  /\ IsManager(r) /\ r.mWorldspace = w
           /\ r.mRange = RangeFor(p, cells, w) /\ r.mStatics = cells
           /\ recast.mRevision < r.mRevision /\ DOMAIN r.mCache = {}
<1> DEFINE left == UnloadCells(recast, mActiveCells \ cells)
           kept == SetWorldspace(left, w)
           range == RangeFor(p, cells, w)
           ranged == SetRange(kept, range)
           loaded == cells \ mActiveCells
<1>1. IsManager(recast) /\ recast.mStatics = mActiveCells /\ mActiveCells \subseteq Cells
  BY DEF SceneInv
<1>2. IsManager(left) /\ Changes(recast, left)
  BY <1>1, CellsUnloaded
<1>3. loaded = cells
  BY DEF SceneInv
<1>4. range \in SUBSET Tiles
  BY RangeForTiles
<1>5. PICK S \in SUBSET Objects : \E at \in [S -> Transforms] :
        r = LoadCells(ranged, loaded, at)
  BY DEF ScenesAfter
<1>6. PICK at \in [S -> Transforms] : r = LoadCells(ranged, loaded, at)
  BY <1>5
<1> HIDE DEF left, range
<1>7. /\ IsManager(kept) /\ kept.mWorldspace = w /\ kept.mStatics = {}
      /\ kept.mRevision = left.mRevision + 1 /\ DOMAIN kept.mCache = {}
  <2>1. left.mWorldspace # w
    BY <1>2 DEF Changes
  <2> QED BY <1>2, <2>1, WorldspaceSet
<1> HIDE DEF kept
<1>8. /\ IsManager(ranged) /\ Moves(kept, ranged) /\ ranged.mRange = range
      /\ ranged.mStatics = kept.mStatics
  BY <1>4, <1>7, RangeSet
<1> HIDE DEF ranged, loaded
<1>9. /\ IsManager(r) /\ Changes(ranged, r) /\ r.mStatics = ranged.mStatics \cup loaded
  BY <1>3, <1>6, <1>8, CellsLoaded
<1>10. r.mWorldspace = w /\ r.mRange = range /\ r.mStatics = cells /\ DOMAIN r.mCache = {}
  BY <1>3, <1>7, <1>8, <1>9 DEF Changes, Moves
<1>11. recast.mRevision < r.mRevision
  <2>1. /\ recast.mRevision <= left.mRevision /\ kept.mRevision <= ranged.mRevision
        /\ ranged.mRevision <= r.mRevision
    BY <1>2, <1>8, <1>9 DEF Changes, Moves
  <2>2. /\ recast.mRevision \in Nat /\ left.mRevision \in Nat /\ kept.mRevision \in Nat
        /\ ranged.mRevision \in Nat /\ r.mRevision \in Nat
    BY <1>1, <1>2, <1>7, <1>8, <1>9 DEF IsManager
  <2> QED BY <1>7, <2>1, <2>2
<1> QED BY <1>9, <1>10, <1>11 DEF range

-----------------------------------------------------------------------------
(* Recast meshes                                                           *)

LEMMA MeshMade ==
    ASSUME NEW r, IsManager(r), NEW t \in Tiles, HasInput(r, t)
    PROVE  /\ MakeMesh(r, t) \in RecastMesh /\ MakeMesh(r, t) # None
           /\ ~IsEmptyMesh(MakeMesh(r, t)) /\ ShowsScene(r, t, MakeMesh(r, t))
<1> DEFINE mesh == MakeMesh(r, t)
<1>1. mesh = [mVersion |-> VersionOf(r),
              objects |-> [o \in ObjectsAt(r, t) |-> r.mObjects[o].at],
              statics |-> StaticsAt(r, t)]
  BY DEF MakeMesh
<1>2. VersionOf(r) \in Version /\ StaticsAt(r, t) \in SUBSET Cells
  BY DEF IsManager, VersionOf, Version, StaticsAt
<1>3. ObjectsAt(r, t) \in SUBSET Objects
  BY DEF IsManager, IsMap, ObjectsAt
<1>4. \A o \in ObjectsAt(r, t) : r.mObjects[o].at \in Transforms
  BY DEF IsManager, IsMap, ObjectData, ObjectsAt
<1>5. mesh.objects \in [ObjectsAt(r, t) -> Transforms]
  BY <1>1, <1>4
<1>6. mesh.objects \in MeshObjects
  BY <1>3, <1>5 DEF MeshObjects
<1> HIDE DEF mesh
<1>7. mesh \in RecastMesh
  BY <1>1, <1>2, <1>6 DEF RecastMesh
<1>8. mesh # None
  BY <1>7, SceneAssumption DEF SceneAssumption
<1>9. ~IsEmptyMesh(mesh)
  BY <1>1 DEF IsEmptyMesh, HasInput
<1>10. ShowsScene(r, t, mesh)
  BY <1>1 DEF ShowsScene, IsManager, ObjectsAt
<1> QED BY <1>7, <1>8, <1>9, <1>10 DEF mesh

LEMMA MeshStored ==
    ASSUME NEW r, IsManager(r), NEW t \in Tiles, NEW mesh \in RecastMesh, ~IsEmptyMesh(mesh)
    PROVE  LET s == StoreMesh(r, t, mesh) IN
           /\ IsManager(s)
           /\ s.mRange = r.mRange /\ s.mWorldspace = r.mWorldspace
           /\ s.mGeneration = r.mGeneration /\ s.mRevision = r.mRevision
           /\ s.mObjects = r.mObjects /\ s.mStatics = r.mStatics
           /\ s.mChangedTiles = r.mChangedTiles
           /\ DOMAIN s.mCache = DOMAIN r.mCache \cup {t}
           /\ s.mCache[t].mRecastMesh = mesh
           /\ \A u \in DOMAIN r.mCache \ {t} : s.mCache[u] = r.mCache[u]
<1> DEFINE s == StoreMesh(r, t, mesh)
           entry == [mVersion |-> mesh.mVersion, mRecastMesh |-> mesh]
<1>1. /\ DOMAIN s = ManagerFields /\ s.mRange = r.mRange
      /\ s.mWorldspace = r.mWorldspace /\ s.mGeneration = r.mGeneration
      /\ s.mObjects = r.mObjects /\ s.mStatics = r.mStatics
      /\ s.mRevision = r.mRevision /\ s.mChangedTiles = r.mChangedTiles
  BY DEF IsManager, ManagerFields, StoreMesh
<1>2. s.mCache = [u \in DOMAIN r.mCache \cup {t} |->
                    IF u = t THEN entry ELSE r.mCache[u]]
  BY DEF IsManager, ManagerFields, StoreMesh, With
<1>3. entry \in CachedTile /\ entry.mVersion.mRevision = mesh.mVersion.mRevision
      /\ entry.mRecastMesh = mesh /\ mesh.mVersion.mRevision \in Nat
  BY DEF CachedTile, RecastMesh, Version
<1> HIDE DEF entry, s
<1>4. IsMap(s.mCache, Tiles, CachedTile)
  BY <1>2, <1>3 DEF IsManager, IsMap
<1>5. IsManager(s)
  BY <1>1, <1>2, <1>3, <1>4 DEF IsManager
<1> QED BY <1>1, <1>2, <1>3, <1>5 DEF s

LEMMA ChangeReported ==
    ASSUME NEW r, IsManager(r), NEW t, NEW v \in Version, NEW n \in Version \cup {None}
    PROVE  LET s == ReportNavMeshChange(r, t, v, n) IN
           /\ IsManager(s) /\ Changes(r, s)
           /\ s.mStatics = r.mStatics /\ s.mRevision = r.mRevision
<1> DEFINE s == ReportNavMeshChange(r, t, v, n)
           objects == [o \in DOMAIN r.mObjects |->
                         IF o \in ObjectsAt(r, t)
                         THEN Reported(r.mObjects[o], v, n) ELSE r.mObjects[o]]
<1>1. /\ DOMAIN s = ManagerFields /\ s.mRange = r.mRange
      /\ s.mWorldspace = r.mWorldspace /\ s.mGeneration = r.mGeneration
      /\ s.mCache = r.mCache /\ s.mStatics = r.mStatics
      /\ s.mRevision = r.mRevision /\ s.mChangedTiles = r.mChangedTiles
      /\ s.mObjects = objects
  BY DEF IsManager, ManagerFields, ReportNavMeshChange
<1>2. ASSUME NEW data \in ObjectData
      PROVE  /\ Reported(data, v, n) \in ObjectData
             /\ Reported(data, v, n).at = data.at
             /\ Reported(data, v, n).mRange = data.mRange
             /\ Reported(data, v, n).mAabb = data.mAabb
  <2> DEFINE report == [mRevision |-> v.mRevision, mNavMeshVersion |-> n]
  <2>1. report \in Report
    BY DEF Report, Version
  <2> HIDE DEF report
  <2>2. Reported(data, v, n) = data
        \/ \E x \in Report \cup {None} :
             Reported(data, v, n) = [data EXCEPT !.mLastNavMeshReport = report,
                                                 !.mLastNavMeshReportedChange = x]
    <3>1. data.mLastNavMeshReportedChange \in Report \cup {None}
      BY DEF ObjectData
    <3> QED BY <2>1, <3>1 DEF Reported, report
  <2> QED BY <2>1, <2>2 DEF ObjectData
<1>3. \A o \in DOMAIN r.mObjects :
        /\ objects[o] \in ObjectData /\ objects[o].at = r.mObjects[o].at
        /\ objects[o].mRange = r.mObjects[o].mRange
        /\ objects[o].mAabb = r.mObjects[o].mAabb
  BY <1>2 DEF IsManager, IsMap
<1>4. DOMAIN objects = DOMAIN r.mObjects /\ objects \in [DOMAIN objects -> ObjectData]
  BY <1>3
<1> HIDE DEF objects, s
<1>5. IsManager(s)
  BY <1>1, <1>3, <1>4 DEF IsManager, IsMap
<1>6. \A u \in Tiles : SameTile(r, s, u)
  BY <1>1, <1>3, <1>4 DEF SameTile, ObjectsAt, StaticsAt
<1>7. Changes(r, s)
  BY <1>1, <1>6 DEF Changes, IsManager
<1> QED BY <1>1, <1>5, <1>7 DEF s

-----------------------------------------------------------------------------
(* Threads that are overtaken by changes                                   *)

(* e is the thread d, and knows that a tile out of range, or changed after *)
(* d has copied it, is missed; near tiles that change are posted again.    *)
Passed(d, e, changed, range, near) ==
    /\ e \in Reader /\ e.pc = d.pc /\ e.key = d.key /\ e.mesh = d.mesh
    /\ ~e.missed => ~d.missed
    /\ ~e.tainted => ~d.tainted
    /\ e.pc \in {"make", "store"} /\ ~e.missed =>
         e.key[2] \in range /\ (e.pc = "store" => e.key[2] \notin changed)
    /\ e.pc \in {"make", "store", "apply", "empty"} /\ ~e.tainted =>
         /\ e.key[2] \in range
         /\ e.pc # "make" /\ e.key[2] \in changed => e.key[2] \in near
SameOrphan(d, e) == e.orphan = d.orphan
Orphaned(d, e) == IF d.pc = "idle" THEN e = d ELSE e.orphan

LEMMA OvertakenPassed ==
    ASSUME NEW readers \in [Readers -> Reader], NEW changed, NEW range, NEW near,
           NEW after, after = Overtaken(readers, changed, range, near)
    PROVE  /\ after \in [Readers -> Reader]
           /\ \A w \in Readers :
                /\ Passed(readers[w], after[w], changed, range, near)
                /\ SameOrphan(readers[w], after[w])
                /\ readers[w].pc = "idle" => after[w] = readers[w]
<1> DEFINE over(v) ==
      IF readers[v].pc \notin {"make", "store", "apply", "empty"} THEN readers[v]
      ELSE [readers[v] EXCEPT
              !.missed = \/ readers[v].missed \/ readers[v].key[2] \notin range
                         \/ readers[v].pc = "store" /\ readers[v].key[2] \in changed,
              !.tainted = \/ readers[v].tainted \/ readers[v].key[2] \notin range
                          \/ readers[v].pc # "make" /\ readers[v].key[2] \in changed \ near]
<1>1. Overtaken(readers, changed, range, near) = [v \in Readers |-> over(v)]
  BY DEF Overtaken
<1>2. ASSUME NEW v \in Readers
      PROVE  /\ over(v) \in Reader
             /\ Passed(readers[v], over(v), changed, range, near)
             /\ SameOrphan(readers[v], over(v))
             /\ readers[v].pc = "idle" => over(v) = readers[v]
  <2>1. readers[v] \in Reader
    OBVIOUS
  <2>2. CASE readers[v].pc \notin {"make", "store", "apply", "empty"}
    BY <2>1, <2>2 DEF Passed, SameOrphan, Reader
  <2>3. CASE readers[v].pc \in {"make", "store", "apply", "empty"}
    <3>1. PICK missed \in BOOLEAN, tainted \in BOOLEAN :
            /\ missed <=> \/ readers[v].missed \/ readers[v].key[2] \notin range
                          \/ readers[v].pc = "store" /\ readers[v].key[2] \in changed
            /\ tainted <=> \/ readers[v].tainted \/ readers[v].key[2] \notin range
                           \/ readers[v].pc # "make" /\ readers[v].key[2] \in changed \ near
            /\ over(v) = [readers[v] EXCEPT !.missed = missed, !.tainted = tainted]
      BY <2>3
    <3> HIDE DEF over
    <3>2. /\ over(v) \in Reader /\ over(v).pc = readers[v].pc
          /\ over(v).key = readers[v].key /\ over(v).mesh = readers[v].mesh
          /\ over(v).orphan = readers[v].orphan
          /\ over(v).missed = missed /\ over(v).tainted = tainted
      BY <2>1, <3>1 DEF Reader
    <3> QED BY <2>3, <3>1, <3>2 DEF Passed, SameOrphan
  <2> QED BY <2>2, <2>3
<1> HIDE DEF over
<1> QED BY <1>1, <1>2

LEMMA PassedTwice ==
    ASSUME NEW d, NEW e, NEW f, NEW range, NEW c1, NEW n1, NEW c2, NEW n2,
           Passed(d, e, c1, range, n1), Passed(e, f, c2, range, n2)
    PROVE  Passed(d, f, c2, range, n2)
BY DEF Passed

LEMMA OrphansPassed ==
    ASSUME reader \in [Readers -> Reader], mCache \in [Agents -> Version \cup {None}],
           \A v \in Readers : At(v, {"idle"}) <=> reader[v].key = None
    PROVE  /\ Orphans \in [Readers -> Reader]
           /\ \A w \in Readers :
                /\ Orphans[w].pc = reader[w].pc /\ Orphans[w].key = reader[w].key
                /\ Orphans[w].mesh = reader[w].mesh
                /\ Orphans[w].missed = reader[w].missed
                /\ Orphans[w].tainted = reader[w].tainted
                /\ Orphaned(reader[w], Orphans[w])
<1>1. ASSUME NEW v \in Readers
      PROVE  /\ Orphans[v] \in Reader
             /\ Orphans[v].pc = reader[v].pc /\ Orphans[v].key = reader[v].key
             /\ Orphans[v].mesh = reader[v].mesh
             /\ Orphans[v].missed = reader[v].missed
             /\ Orphans[v].tainted = reader[v].tainted
             /\ Orphaned(reader[v], Orphans[v])
  <2>1. CASE At(v, {"idle"}) \/ reader[v].orphan
    <3>1. Orphans[v] = reader[v]
      BY <2>1 DEF Orphans, At
    <3> QED BY <2>1, <3>1 DEF Orphaned, At
  <2>2. CASE ~(At(v, {"idle"}) \/ reader[v].orphan)
    <3>1. Orphans[v] = [reader[v] EXCEPT !.orphan = TRUE,
                                         !.version = mCache[reader[v].key[1]]]
      BY <2>2 DEF Orphans, At
    <3>2. mCache[reader[v].key[1]] \in Version \cup {None}
      BY <2>2 DEF Reader, Keys
    <3>3. reader[v] \in Reader
      OBVIOUS
    <3>4. /\ Orphans[v] \in Reader /\ Orphans[v].orphan = TRUE
          /\ Orphans[v].pc = reader[v].pc /\ Orphans[v].key = reader[v].key
          /\ Orphans[v].mesh = reader[v].mesh
          /\ Orphans[v].missed = reader[v].missed
          /\ Orphans[v].tainted = reader[v].tainted
      BY <3>1, <3>2, <3>3 DEF Reader
    <3> QED BY <2>2, <3>4 DEF Orphaned, At
  <2> QED BY <2>1, <2>2
<1> QED BY <1>1 DEF Orphans

-----------------------------------------------------------------------------
(* What the steps of the main thread are                                   *)

LEMMA TileIsTile ==
    ASSUME NEW k \in Keys PROVE k[1] \in Agents /\ k[2] \in Tiles
BY DEF Keys

(* limited is the scene that an update takes.                              *)
TakesScene(limited) ==
    /\ GuardFree /\ IsManager(limited)
    /\ recast' = TakeChangedTiles(limited)
    /\ limited.mRange \in SUBSET Tiles
    /\ mActiveCells' \subseteq Cells /\ limited.mStatics = mActiveCells'
    /\ \A c \in mActiveCells' : WorldspaceOf[c] = limited.mWorldspace
    /\ mLastRecastMeshManagerRevision' \in 0..limited.mRevision
    /\ mPlayerTile' \in PlayerTiles
    /\ main' = [pc |-> "collect", left |-> {a \in Agents : mCache[a] # None},
                changed |-> limited.mChangedTiles, toPost |-> {}]
    /\ stale' = (stale \ limited.mChangedTiles) \cap DOMAIN limited.mCache
    /\ updaterTile' = updaterTile
    /\ reader' \in [Readers -> Reader]
    /\ \A w \in Readers : Passed(reader[w], reader'[w], limited.mChangedTiles,
                                 limited.mRange, Near[mPlayerTile'])

(* The same cells of the scene, or others, and an update is still to come. *)
LeavesScene ==
    /\ GuardFree /\ IsManager(recast')
    /\ recast.mRevision < recast'.mRevision
    /\ recast'.mRange \in SUBSET Tiles
    /\ mActiveCells' \subseteq Cells /\ recast'.mStatics = mActiveCells'
    /\ \A c \in mActiveCells' : WorldspaceOf[c] = recast'.mWorldspace
    /\ stale' = stale \cap DOMAIN recast'.mCache
    /\ UNCHANGED <<mPlayerTile, mLastRecastMeshManagerRevision, main, updates, updaterTile>>
    /\ reader' \in [Readers -> Reader]
    /\ \A w \in Readers : Passed(reader[w], reader'[w], {}, recast'.mRange, {})

MeshesKept ==
    /\ UNCHANGED <<agentVars, pending, navMesh>>
    /\ lost' = lost \cup LeftOut(recast')
    /\ \A w \in Readers :
         SameOrphan(reader[w], reader'[w]) /\ (At(w, {"idle"}) => reader'[w] = reader[w])
MeshesDropped ==
    /\ ReplaceMeshes
    /\ \A w \in Readers : /\ Orphaned(reader[w], reader'[w])
                          /\ reader'[w].pc = "store" => reader'[w].missed

SceneChanges ==
    /\ GuardFree
    /\ IsManager(recast') /\ Changes(recast, recast')
    /\ recast'.mStatics = recast.mStatics
    /\ UNCHANGED <<managerVars, pending, reader, navMesh, stale>>
    /\ lost' = lost \/ lost' = lost \cup LeftOut(recast')
Updates ==
    /\ MeshesKept
    /\ \E limited : TakesScene(limited) /\ Moves(recast, limited)
UpdatesAnew ==
    /\ MeshesDropped
    /\ \E limited : TakesScene(limited) /\ DOMAIN limited.mCache = {}
Enters == MeshesKept /\ LeavesScene /\ Moves(recast, recast')
EntersAnew == MeshesDropped /\ LeavesScene /\ DOMAIN recast'.mCache = {}

LEMMA UpdateBegun ==
    ASSUME SceneInv, ThreadsInv, NEW r, IsManager(r), NEW p \in PlayerTiles, GuardFree,
           NEW readers \in [Readers -> Reader], BeginUpdate(r, p, readers),
           r.mStatics = mActiveCells', mActiveCells' \subseteq Cells,
           \A c \in mActiveCells' : WorldspaceOf[c] = r.mWorldspace,
           ~(mLastRecastMeshManagerRevision = r.mRevision /\ mPlayerTile = p),
           updaterTile' = updaterTile,
           \A w \in Readers : Passed(reader[w], readers[w], {},
                                RangeFor(p, mActiveCells', r.mWorldspace), {})
                              \/ readers[w] = reader[w]
    PROVE  \E limited :
              /\ TakesScene(limited) /\ Moves(r, limited)
              /\ limited.mRange = RangeFor(p, mActiveCells', r.mWorldspace)
              /\ \A w \in Readers :
                   /\ reader'[w].pc = readers[w].pc /\ (readers[w].missed => reader'[w].missed)
                   /\ SameOrphan(readers[w], reader'[w])
                   /\ readers[w].pc = "idle" => reader'[w] = readers[w]
<1> DEFINE range == RangeFor(p, mActiveCells', r.mWorldspace)
           limited == SetRange(r, range)
           changed == limited.mChangedTiles
<1>1. /\ mLastRecastMeshManagerRevision' = r.mRevision /\ mPlayerTile' = p
      /\ recast' = TakeChangedTiles(limited)
      /\ main' = [pc |-> "collect", left |-> {a \in Agents : mCache[a] # None},
                  changed |-> changed, toPost |-> {}]
      /\ stale' = (stale \ changed) \cap DOMAIN limited.mCache
      /\ reader' = Overtaken(readers, changed, range, Near[p])
  BY DEF BeginUpdate
<1>2. range \in SUBSET Tiles
  BY RangeForTiles
<1> HIDE DEF range
<1>3. /\ IsManager(limited) /\ Moves(r, limited) /\ limited.mRange = range
      /\ limited.mStatics = r.mStatics
  BY <1>2, RangeSet
<1> HIDE DEF limited
<1>4. /\ reader' \in [Readers -> Reader]
      /\ \A w \in Readers : /\ Passed(readers[w], reader'[w], changed, range, Near[p])
                            /\ SameOrphan(readers[w], reader'[w])
                            /\ readers[w].pc = "idle" => reader'[w] = readers[w]
  BY <1>1, OvertakenPassed
<1>5. \A w \in Readers : Passed(reader[w], reader'[w], changed, range, Near[p])
  <2> SUFFICES ASSUME NEW w \in Readers
               PROVE  Passed(reader[w], reader'[w], changed, range, Near[p])
    OBVIOUS
  <2>1. CASE readers[w] = reader[w]
    BY <1>4, <2>1
  <2>2. CASE Passed(reader[w], readers[w], {}, range, {})
    BY <1>4, <2>2, PassedTwice
  <2> QED BY <2>1, <2>2 DEF range
<1>6. mLastRecastMeshManagerRevision' \in 0..limited.mRevision
  BY <1>1, <1>3 DEF IsManager, Moves
<1>7. limited.mWorldspace = r.mWorldspace
  BY <1>3 DEF Moves
<1>8. TakesScene(limited)
  BY <1>1, <1>2, <1>3, <1>4, <1>5, <1>6, <1>7 DEF TakesScene
<1>9. \A w \in Readers : reader'[w].pc = readers[w].pc
                         /\ (readers[w].missed => reader'[w].missed)
  BY <1>4 DEF Passed
<1> QED BY <1>3, <1>4, <1>8, <1>9 DEF range

LEMMA ThreadsPassed ==
    ASSUME ThreadsInv, NEW w, NEW range \in SUBSET Tiles,
           NEW after, after = ThreadsAfter(w, range)
    PROVE  /\ after \in [Readers -> Reader]
           /\ \A v \in Readers :
                /\ Passed(reader[v], after[v], {}, range, {})
                /\ IF w = recast.mWorldspace
                   THEN /\ SameOrphan(reader[v], after[v])
                        /\ reader[v].pc = "idle" => after[v] = reader[v]
                   ELSE /\ Orphaned(reader[v], after[v])
                        /\ after[v].pc = "store" => after[v].missed
<1>1. /\ reader \in [Readers -> Reader] /\ mCache \in [Agents -> Version \cup {None}]
      /\ \A v \in Readers : At(v, {"idle"}) <=> reader[v].key = None
  BY DEF ThreadsInv
<1>2. CASE w = recast.mWorldspace
  <2>1. after = Overtaken(reader, {}, range, {})
    BY <1>2 DEF ThreadsAfter
  <2> QED BY <1>1, <1>2, <2>1, OvertakenPassed
<1>3. CASE w # recast.mWorldspace
  <2>1. after = Overtaken(Orphans, Tiles, range, {})
    BY <1>3 DEF ThreadsAfter
  <2>2. /\ Orphans \in [Readers -> Reader]
        /\ \A v \in Readers :
             /\ Orphans[v].pc = reader[v].pc /\ Orphans[v].key = reader[v].key
             /\ Orphans[v].mesh = reader[v].mesh
             /\ Orphans[v].missed = reader[v].missed
             /\ Orphans[v].tainted = reader[v].tainted
             /\ Orphaned(reader[v], Orphans[v])
    BY <1>1, OrphansPassed
  <2>3. /\ after \in [Readers -> Reader]
        /\ \A v \in Readers : /\ Passed(Orphans[v], after[v], Tiles, range, {})
                              /\ SameOrphan(Orphans[v], after[v])
                              /\ Orphans[v].pc = "idle" => after[v] = Orphans[v]
    BY <2>1, <2>2, OvertakenPassed
  <2>4. ASSUME NEW v \in Readers
        PROVE  /\ Passed(reader[v], after[v], {}, range, {})
               /\ Orphaned(reader[v], after[v])
               /\ after[v].pc = "store" => after[v].missed
    <3>1. Passed(reader[v], after[v], {}, range, {})
      BY <2>2, <2>3 DEF Passed
    <3>2. Orphaned(reader[v], after[v])
      BY <2>2, <2>3 DEF Orphaned, SameOrphan
    <3>3. ASSUME after[v].pc = "store", ~after[v].missed PROVE FALSE
      <4>1. after[v].key[2] \notin Tiles
        BY <2>3, <3>3 DEF Passed
      <4>2. reader[v].key \in Keys /\ after[v].key = reader[v].key
        <5>1. reader[v].pc = "store" /\ after[v].key = reader[v].key
          BY <3>1, <3>3 DEF Passed
        <5>2. reader[v].key # None
          BY <1>1, <5>1 DEF At
        <5> QED BY <1>1, <5>1, <5>2 DEF Reader
      <4> QED BY <4>1, <4>2, TileIsTile
    <3> QED BY <3>1, <3>2, <3>3
  <2> QED BY <1>3, <2>3, <2>4
<1> QED BY <1>2, <1>3

LEMMA InsertKind ==
    ASSUME SceneInv, NEW o \in Objects, NEW x \in Transforms, InsertObject(o, x)
    PROVE  SceneChanges
<1> DEFINE at == [i \in {o} |-> x]
<1>1. IsManager(recast) /\ {o} \in SUBSET Objects /\ at \in [{o} -> Transforms]
  BY DEF SceneInv
<1>2. recast' = AddObjects(recast, at)
  BY DEF InsertObject, AddObject
<1> HIDE DEF at
<1>3. IsManager(recast') /\ Changes(recast, recast') /\ recast'.mStatics = recast.mStatics
  BY <1>1, <1>2, ObjectsAdded
<1> QED BY <1>3 DEF SceneChanges, InsertObject, CanChange

LEMMA DeleteKind ==
    ASSUME SceneInv, NEW o \in Objects, DeleteObject(o)
    PROVE  SceneChanges
<1>1. IsManager(recast) /\ {o} \in SUBSET Objects
  BY DEF SceneInv
<1>2. recast' = RemoveObjects(recast, {o})
  BY DEF DeleteObject, RemoveObject
<1>3. IsManager(recast') /\ Changes(recast, recast') /\ recast'.mStatics = recast.mStatics
  BY <1>1, <1>2, ObjectsRemoved
<1> QED BY <1>3 DEF SceneChanges, DeleteObject, CanChange

LEMMA NavigatorKind ==
    ASSUME SceneInv, ThreadsInv, NEW p \in PlayerTiles, UpdateNavigator(p)
    PROVE  SceneChanges \/ Updates
<1>1. /\ GuardFree
      /\ UNCHANGED <<mActiveCells, agentVars, updaterTile, pending, navMesh>>
      /\ lost' = lost \cup LeftOut(recast')
  BY DEF UpdateNavigator
<1>2. IsManager(recast) /\ mActiveCells \subseteq Cells /\ recast.mStatics = mActiveCells
      /\ \A c \in mActiveCells : WorldspaceOf[c] = recast.mWorldspace
  BY DEF SceneInv
<1>3. PICK r : /\ IsManager(r) /\ Changes(recast, r) /\ r.mStatics = recast.mStatics
               /\ BeginUpdate(r, p, reader)
  <2>1. CASE BeginUpdate(recast, p, reader)
    BY <1>2, <2>1, ChangesNothing
  <2>2. CASE \E o \in DOMAIN recast.mObjects, x \in Transforms :
               BeginUpdate(UpdateObject(recast, o, x), p, reader)
    <3>1. PICK o \in DOMAIN recast.mObjects, x \in Transforms :
            BeginUpdate(UpdateObject(recast, o, x), p, reader)
      BY <2>2
    <3>2. o \in Objects
      BY <1>2 DEF IsManager, IsMap
    <3> QED BY <1>2, <3>1, <3>2, ObjectMoved
  <2> QED BY <2>1, <2>2 DEF UpdateNavigator
<1>4. CASE mLastRecastMeshManagerRevision = r.mRevision /\ mPlayerTile = p
  <2>1. /\ recast' = r /\ reader' = reader
        /\ UNCHANGED <<mPlayerTile, mLastRecastMeshManagerRevision, main, updates, stale>>
    BY <1>3, <1>4 DEF BeginUpdate
  <2> QED BY <1>1, <1>3, <2>1 DEF SceneChanges, managerVars, sceneVars
<1>5. CASE ~(mLastRecastMeshManagerRevision = r.mRevision /\ mPlayerTile = p)
  <2>1. /\ r.mStatics = mActiveCells' /\ mActiveCells' \subseteq Cells
        /\ \A c \in mActiveCells' : WorldspaceOf[c] = r.mWorldspace
    BY <1>1, <1>2, <1>3 DEF Changes
  <2>2. reader \in [Readers -> Reader]
    BY DEF ThreadsInv
  <2>3. PICK limited :
          /\ TakesScene(limited) /\ Moves(r, limited)
          /\ \A w \in Readers : /\ SameOrphan(reader[w], reader'[w])
                                /\ reader[w].pc = "idle" => reader'[w] = reader[w]
    BY <1>1, <1>3, <1>5, <2>1, <2>2, UpdateBegun
  <2>4. Moves(recast, limited)
    BY <1>2, <1>3, <2>3, ChangesThenMoves DEF TakesScene
  <2>5. MeshesKept
    BY <1>1, <2>3 DEF MeshesKept, At
  <2> QED BY <2>3, <2>4, <2>5 DEF Updates
<1> QED BY <1>4, <1>5

LEMMA CellGridKind ==
    ASSUME SceneInv, ThreadsInv, NEW w \in Worldspaces, NEW p \in PlayerTiles,
           NEW cells \in SUBSET Cells, \A c \in cells : WorldspaceOf[c] = w,
           ChangeCellGrid(w, cells, p)
    PROVE  Updates \/ UpdatesAnew
<1> DEFINE range == RangeFor(p, cells, w)
           readers == ThreadsAfter(w, range)
<1>1. /\ GuardFree /\ cells # mActiveCells /\ mActiveCells' = cells
      /\ updaterTile' = updaterTile /\ EnterWorldspace(w)
  BY DEF ChangeCellGrid, CanChange
<1>2. PICK r \in ScenesAfter(w, cells, p) : BeginUpdate(r, p, readers)
  BY DEF ChangeCellGrid
<1>3. range \in SUBSET Tiles
  BY RangeForTiles
<1>4. /\ IsManager(r) /\ r.mRange = range /\ r.mStatics = cells
      /\ r.mWorldspace = w /\ recast.mRevision < r.mRevision
      /\ IF w = recast.mWorldspace THEN Moves(recast, r) ELSE DOMAIN r.mCache = {}
  <2>1. CASE w = recast.mWorldspace
    <3>1. /\ IsManager(r) /\ Moves(recast, r) /\ r.mRange = range /\ r.mStatics = cells
          /\ recast.mRevision < r.mRevision
      BY <1>1, <2>1, SceneAfter
    <3> QED BY <2>1, <3>1 DEF Moves
  <2>2. CASE w # recast.mWorldspace
    BY <2>2, SceneOfWorldspace
  <2> QED BY <2>1, <2>2
<1>5. mLastRecastMeshManagerRevision # r.mRevision
  BY <1>4 DEF SceneInv, IsManager
<1>6. /\ readers \in [Readers -> Reader]
      /\ \A v \in Readers :
           /\ Passed(reader[v], readers[v], {}, range, {})
           /\ IF w = recast.mWorldspace
              THEN /\ SameOrphan(reader[v], readers[v])
                   /\ reader[v].pc = "idle" => readers[v] = reader[v]
              ELSE /\ Orphaned(reader[v], readers[v])
                   /\ readers[v].pc = "store" => readers[v].missed
  BY <1>3, ThreadsPassed
<1>7. range = RangeFor(p, mActiveCells', r.mWorldspace)
  BY <1>1, <1>4
<1> HIDE DEF range, readers
<1>8. PICK limited :
        /\ TakesScene(limited) /\ Moves(r, limited) /\ limited.mRange = range
        /\ \A v \in Readers :
             /\ reader'[v].pc = readers[v].pc /\ (readers[v].missed => reader'[v].missed)
             /\ SameOrphan(readers[v], reader'[v])
             /\ readers[v].pc = "idle" => reader'[v] = readers[v]
  <2>1. /\ r.mStatics = mActiveCells' /\ mActiveCells' \subseteq Cells
        /\ \A c \in mActiveCells' : WorldspaceOf[c] = r.mWorldspace
    BY <1>1, <1>4
  <2>2. \A v \in Readers : Passed(reader[v], readers[v], {},
                             RangeFor(p, mActiveCells', r.mWorldspace), {})
    BY <1>6, <1>7
  <2>3. ~(mLastRecastMeshManagerRevision = r.mRevision /\ mPlayerTile = p)
    BY <1>5
  <2> QED BY <1>1, <1>2, <1>4, <1>6, <1>7, <2>1, <2>2, <2>3, UpdateBegun
<1>9. CASE w = recast.mWorldspace
  <2>1. Moves(recast, limited)
    BY <1>4, <1>8, <1>9, MovesTwice DEF TakesScene, SceneInv
  <2>2. MeshesKept
    <3>1. UNCHANGED <<agentVars, pending, navMesh>> /\ lost' = lost \cup LeftOut(recast')
      BY <1>1, <1>9 DEF EnterWorldspace
    <3>2. \A v \in Readers : reader[v].pc = readers[v].pc
      BY <1>6 DEF Passed
    <3>3. \A v \in Readers : /\ SameOrphan(reader[v], reader'[v])
                             /\ At(v, {"idle"}) => reader'[v] = reader[v]
      BY <1>6, <1>8, <1>9, <3>2 DEF SameOrphan, At
    <3> QED BY <3>1, <3>3 DEF MeshesKept
  <2> QED BY <1>8, <2>1, <2>2 DEF Updates
<1>10. CASE w # recast.mWorldspace
  <2>1. ReplaceMeshes
    BY <1>1, <1>10 DEF EnterWorldspace
  <2>2. DOMAIN limited.mCache = {}
    BY <1>4, <1>8, <1>10 DEF Moves
  <2>3. \A v \in Readers : reader[v].pc = readers[v].pc
    BY <1>6 DEF Passed
  <2>4. \A v \in Readers : /\ Orphaned(reader[v], reader'[v])
                           /\ reader'[v].pc = "store" => reader'[v].missed
    BY <1>6, <1>8, <1>10, <2>3 DEF Orphaned, SameOrphan
  <2> QED BY <1>8, <2>1, <2>2, <2>4 DEF UpdatesAnew, MeshesDropped
<1> QED BY <1>9, <1>10

LEMMA InteriorKind ==
    ASSUME SceneInv, ThreadsInv, NEW w \in Worldspaces, NEW p \in PlayerTiles,
           NEW cells \in SUBSET Cells, \A c \in cells : WorldspaceOf[c] = w,
           ChangeToInteriorCell(w, cells, p)
    PROVE  Enters \/ EntersAnew
<1> DEFINE range == RangeFor(p, cells, w)
<1>1. /\ GuardFree /\ cells # mActiveCells /\ mActiveCells' = cells
      /\ recast' \in ScenesAfter(w, cells, p)
      /\ reader' = ThreadsAfter(w, range)
      /\ stale' = stale \cap DOMAIN recast'.mCache
      /\ EnterWorldspace(w)
      /\ UNCHANGED <<mPlayerTile, mLastRecastMeshManagerRevision, main, updates,
                     updaterTile>>
  BY DEF ChangeToInteriorCell, CanChange
<1>2. PICK r \in ScenesAfter(w, cells, p) : recast' = r
  BY <1>1
<1>3. range \in SUBSET Tiles
  BY RangeForTiles
<1>4. PICK readers : reader' = readers
  OBVIOUS
<1>5. /\ reader' \in [Readers -> Reader]
      /\ \A v \in Readers :
           /\ Passed(reader[v], reader'[v], {}, range, {})
           /\ IF w = recast.mWorldspace
              THEN /\ SameOrphan(reader[v], reader'[v])
                   /\ reader[v].pc = "idle" => reader'[v] = reader[v]
              ELSE /\ Orphaned(reader[v], reader'[v])
                   /\ reader'[v].pc = "store" => reader'[v].missed
  BY <1>1, <1>3, <1>4, ThreadsPassed
<1>6. CASE w = recast.mWorldspace
  <2>1. /\ IsManager(r) /\ Moves(recast, r) /\ r.mRange = range /\ r.mStatics = cells
        /\ recast.mRevision < r.mRevision
    BY <1>1, <1>6, SceneAfter
  <2>2. r.mWorldspace = w
    BY <1>6, <2>1 DEF Moves
  <2>3. LeavesScene
    BY <1>1, <1>2, <1>3, <1>5, <2>1, <2>2 DEF LeavesScene
  <2>4. MeshesKept
    BY <1>1, <1>5, <1>6 DEF EnterWorldspace, MeshesKept, At
  <2> QED BY <1>2, <2>1, <2>3, <2>4 DEF Enters
<1>7. CASE w # recast.mWorldspace
  <2>1. /\ IsManager(r) /\ r.mWorldspace = w /\ r.mRange = range /\ r.mStatics = cells
        /\ recast.mRevision < r.mRevision /\ DOMAIN r.mCache = {}
    BY <1>7, SceneOfWorldspace
  <2>2. LeavesScene
    BY <1>1, <1>2, <1>3, <1>5, <2>1 DEF LeavesScene
  <2>3. MeshesDropped
    BY <1>1, <1>5, <1>7 DEF EnterWorldspace, MeshesDropped
  <2> QED BY <1>2, <2>1, <2>2, <2>3 DEF EntersAnew
<1> QED BY <1>6, <1>7

-----------------------------------------------------------------------------
(* The cache and the copies, when the scene changes                        *)

LEMMA CacheChanges ==
    ASSUME NEW r, NEW s, IsManager(r), IsManager(s), Changes(r, s),
           NEW late, CacheShows(r, late)
    PROVE  CacheShows(s, late)
<1> SUFFICES ASSUME NEW t \in DOMAIN s.mCache \ late, IsServed(s, t)
             PROVE  /\ s.mRange # None /\ t \in s.mRange
                    /\ t \notin s.mChangedTiles =>
                         ShowsScene(s, t, s.mCache[t].mRecastMesh)
  BY DEF CacheShows
<1>1. s.mCache = r.mCache /\ s.mRange = r.mRange /\ r.mChangedTiles \subseteq s.mChangedTiles
  BY DEF Changes
<1>2. IsServed(r, t)
  BY <1>1 DEF IsServed
<1>3. /\ r.mRange # None /\ t \in r.mRange
      /\ t \notin r.mChangedTiles => ShowsScene(r, t, r.mCache[t].mRecastMesh)
  BY <1>1, <1>2 DEF CacheShows
<1>4. ASSUME t \notin s.mChangedTiles PROVE SameTile(r, s, t)
  BY <1>1, <1>3, <1>4 DEF Changes, IsInRange, IsManager, IsMap
<1> QED BY <1>1, <1>3, <1>4, SameShown

LEMMA CacheMoves ==
    ASSUME NEW r, NEW s, IsManager(r), IsManager(s), Moves(r, s),
           NEW late, NEW later, late \cap DOMAIN s.mCache \subseteq later,
           CacheShows(r, late)
    PROVE  CacheShows(s, later)
<1> SUFFICES ASSUME NEW t \in DOMAIN s.mCache \ later, IsServed(s, t)
             PROVE  /\ s.mRange # None /\ t \in s.mRange
                    /\ t \notin s.mChangedTiles =>
                         ShowsScene(s, t, s.mCache[t].mRecastMesh)
  BY DEF CacheShows
<1>1. /\ t \in DOMAIN r.mCache \ late /\ s.mCache[t] = r.mCache[t]
      /\ r.mRange # None /\ t \in r.mRange => s.mRange # None /\ t \in s.mRange
      /\ r.mChangedTiles \subseteq s.mChangedTiles
  BY DEF Moves
<1>2. IsServed(r, t)
  BY <1>1 DEF IsServed
<1>3. /\ r.mRange # None /\ t \in r.mRange
      /\ t \notin r.mChangedTiles => ShowsScene(r, t, r.mCache[t].mRecastMesh)
  BY <1>1, <1>2 DEF CacheShows
<1>4. ASSUME t \notin s.mChangedTiles PROVE SameTile(r, s, t)
  BY <1>1, <1>3, <1>4 DEF Moves, IsInRange, IsManager, IsMap
<1> QED BY <1>1, <1>3, <1>4, SameShown

LEMMA CacheTaken ==
    ASSUME NEW r, IsManager(r), NEW late, NEW later, CacheShows(r, late),
           (late \ r.mChangedTiles) \cap DOMAIN r.mCache \subseteq later
    PROVE  CacheShows(TakeChangedTiles(r), later)
<1> DEFINE s == TakeChangedTiles(r)
<1>1. /\ s.mRange = r.mRange /\ s.mObjects = r.mObjects /\ s.mStatics = r.mStatics
      /\ DOMAIN s.mCache = DOMAIN r.mCache
      /\ \A t \in DOMAIN s.mCache :
           IF t \in r.mChangedTiles THEN ~IsServed(s, t) ELSE s.mCache[t] = r.mCache[t]
  BY TilesTaken
<1> HIDE DEF s
<1> SUFFICES ASSUME NEW t \in DOMAIN s.mCache \ later, IsServed(s, t)
             PROVE  /\ s.mRange # None /\ t \in s.mRange
                    /\ ShowsScene(s, t, s.mCache[t].mRecastMesh)
  BY DEF CacheShows, s
<1>2. t \notin r.mChangedTiles /\ s.mCache[t] = r.mCache[t] /\ t \notin late
  BY <1>1
<1>3. IsServed(r, t)
  BY <1>1, <1>2 DEF IsServed
<1>4. /\ r.mRange # None /\ t \in r.mRange
      /\ ShowsScene(r, t, r.mCache[t].mRecastMesh)
  BY <1>1, <1>2, <1>3 DEF CacheShows
<1> QED BY <1>1, <1>2, <1>4 DEF ShowsScene, ObjectsAt, StaticsAt

LEMMA CopyChanges ==
    ASSUME NEW r, NEW s, IsManager(r), IsManager(s), Changes(r, s),
           NEW d, CopyShows(r, d), d.pc \in {"make", "store"} => d.key \in Keys
    PROVE  CopyShows(s, d)
<1> SUFFICES ASSUME d.pc \in {"make", "store"}, ~d.missed
             PROVE  /\ d.key[2] \in s.mRange
                    /\ d.pc = "store" /\ d.key[2] \notin s.mChangedTiles
                         => ShowsScene(s, d.key[2], d.mesh)
  BY DEF CopyShows
<1>1. s.mRange = r.mRange /\ r.mChangedTiles \subseteq s.mChangedTiles
  BY DEF Changes
<1>2. d.key[2] \in r.mRange /\ d.key[2] \in Tiles
  BY TileIsTile DEF CopyShows
<1>3. ASSUME d.pc = "store", d.key[2] \notin s.mChangedTiles
      PROVE  ShowsScene(s, d.key[2], d.mesh)
  <2>1. SameTile(r, s, d.key[2])
    BY <1>2, <1>3 DEF Changes, IsInRange
  <2>2. ShowsScene(r, d.key[2], d.mesh)
    BY <1>1, <1>3 DEF CopyShows
  <2> QED BY <2>1, <2>2, SameShown
<1> QED BY <1>1, <1>2, <1>3

LEMMA CopyMoves ==
    ASSUME NEW r, NEW s, IsManager(r), IsManager(s), Moves(r, s),
           NEW d, CopyShows(r, d), d.pc \in {"make", "store"} => d.key \in Keys,
           NEW e, NEW changed, NEW near, Passed(d, e, changed, s.mRange, near)
    PROVE  CopyShows(s, e)
<1> SUFFICES ASSUME e.pc \in {"make", "store"}, ~e.missed
             PROVE  /\ e.key[2] \in s.mRange
                    /\ e.pc = "store" /\ e.key[2] \notin s.mChangedTiles
                         => ShowsScene(s, e.key[2], e.mesh)
  BY DEF CopyShows
<1>1. d.pc = e.pc /\ ~d.missed /\ d.key = e.key /\ d.mesh = e.mesh /\ e.key[2] \in s.mRange
  BY DEF Passed
<1>2. d.key[2] \in r.mRange /\ d.key[2] \in Tiles
  BY <1>1, TileIsTile DEF CopyShows
<1>3. ASSUME e.pc = "store", e.key[2] \notin s.mChangedTiles
      PROVE  ShowsScene(s, e.key[2], e.mesh)
  <2>1. SameTile(r, s, d.key[2])
    BY <1>1, <1>2, <1>3 DEF Moves, IsInRange
  <2>2. ShowsScene(r, d.key[2], d.mesh)
    BY <1>1, <1>3 DEF CopyShows, Moves
  <2> QED BY <1>1, <2>1, <2>2, SameShown
<1> QED BY <1>1, <1>3

(* An update takes the tiles that changed.                                 *)
LEMMA CopyTaken ==
    ASSUME NEW s, IsManager(s), NEW d, NEW e, CopyShows(s, e),
           NEW near, Passed(d, e, s.mChangedTiles, s.mRange, near)
    PROVE  CopyShows(TakeChangedTiles(s), e)
<1>1. /\ TakeChangedTiles(s).mRange = s.mRange /\ TakeChangedTiles(s).mObjects = s.mObjects
      /\ TakeChangedTiles(s).mStatics = s.mStatics
  BY TilesTaken
<1> QED BY <1>1 DEF CopyShows, Passed, ShowsScene, ObjectsAt, StaticsAt

LEMMA KeyOfThread ==
    ASSUME ThreadsInv, NEW w \in Readers, ~At(w, {"idle"})
    PROVE  reader[w].key \in Keys /\ reader[w].key[1] \in Agents /\ TileOf(w) \in Tiles
<1>1. reader[w].key \in Keys
  BY DEF ThreadsInv, Reader
<1> QED BY <1>1, TileIsTile DEF TileOf

-----------------------------------------------------------------------------
(* The main thread keeps the scene, its cache and the copies               *)

LEMMA SceneOfChanges ==
    ASSUME SceneInv, ThreadsInv, CopiesInv, SceneChanges
    PROVE  SceneInv' /\ CopiesInv'
<1> USE DEF SceneChanges, managerVars, sceneVars
<1>1. IsManager(recast) /\ IsManager(recast') /\ Changes(recast, recast')
  BY DEF SceneInv
<1>2. CacheShows(recast', stale')
  BY <1>1, CacheChanges DEF SceneInv
<1>3. SceneInv'
  BY <1>1, <1>2 DEF SceneInv, Changes, IsManager
<1>4. ASSUME NEW w \in Readers PROVE CopyShows(recast', reader'[w])
  <2>1. CopyShows(recast, reader[w])
    BY DEF CopiesInv
  <2>2. reader[w].pc \in {"make", "store"} => reader[w].key \in Keys
    BY KeyOfThread DEF At
  <2> QED BY <1>1, <2>1, <2>2, CopyChanges
<1> QED BY <1>3, <1>4 DEF CopiesInv

LEMMA SceneOfUpdate ==
    ASSUME SceneInv, NEW limited, TakesScene(limited), CacheShows(limited, stale)
    PROVE  SceneInv'
<1>1. /\ IsManager(limited) /\ recast' = TakeChangedTiles(limited)
      /\ mActiveCells' \subseteq Cells /\ limited.mStatics = mActiveCells'
      /\ \A c \in mActiveCells' : WorldspaceOf[c] = limited.mWorldspace
      /\ mLastRecastMeshManagerRevision' \in 0..limited.mRevision
      /\ stale' = (stale \ limited.mChangedTiles) \cap DOMAIN limited.mCache
  BY DEF TakesScene
<1>2. /\ IsManager(recast') /\ recast'.mWorldspace = limited.mWorldspace
      /\ recast'.mRevision = limited.mRevision /\ recast'.mStatics = limited.mStatics
      /\ recast'.mChangedTiles = {} /\ DOMAIN recast'.mCache = DOMAIN limited.mCache
  BY <1>1, TilesTaken
<1>3. CacheShows(recast', stale')
  BY <1>1, CacheTaken
<1> QED BY <1>1, <1>2, <1>3 DEF SceneInv

LEMMA SceneOfUpdates ==
    ASSUME SceneInv, ThreadsInv, CopiesInv, Updates
    PROVE  SceneInv' /\ CopiesInv'
<1>1. PICK limited : TakesScene(limited) /\ Moves(recast, limited)
  BY DEF Updates
<1>2. IsManager(recast) /\ IsManager(limited) /\ CacheShows(recast, stale)
  BY <1>1 DEF TakesScene, SceneInv
<1>3. CacheShows(limited, stale)
  BY <1>1, <1>2, CacheMoves
<1>4. ASSUME NEW w \in Readers PROVE CopyShows(recast', reader'[w])
  <2>1. Passed(reader[w], reader'[w], limited.mChangedTiles, limited.mRange, Near[mPlayerTile'])
        /\ recast' = TakeChangedTiles(limited)
    BY <1>1 DEF TakesScene
  <2>2. CopyShows(recast, reader[w])
    BY DEF CopiesInv
  <2>3. reader[w].pc \in {"make", "store"} => reader[w].key \in Keys
    BY KeyOfThread DEF At
  <2>4. CopyShows(limited, reader'[w])
    BY <1>1, <1>2, <2>1, <2>2, <2>3, CopyMoves
  <2> QED BY <1>2, <2>1, <2>4, CopyTaken
<1> QED BY <1>1, <1>3, <1>4, SceneOfUpdate DEF CopiesInv

LEMMA SceneOfUpdatesAnew ==
    ASSUME SceneInv, UpdatesAnew
    PROVE  SceneInv' /\ CopiesInv'
<1>1. PICK limited : TakesScene(limited) /\ DOMAIN limited.mCache = {}
  BY DEF UpdatesAnew
<1>2. CacheShows(limited, stale)
  BY <1>1 DEF CacheShows
<1>3. ASSUME NEW w \in Readers PROVE CopyShows(recast', reader'[w])
  <2>1. recast'.mRange = limited.mRange
    BY <1>1, TilesTaken DEF TakesScene
  <2>2. Passed(reader[w], reader'[w], limited.mChangedTiles, limited.mRange, Near[mPlayerTile'])
    BY <1>1 DEF TakesScene
  <2>3. reader'[w].pc = "store" => reader'[w].missed
    BY DEF UpdatesAnew, MeshesDropped
  <2> QED BY <2>1, <2>2, <2>3 DEF CopyShows, Passed
<1> QED BY <1>1, <1>2, <1>3, SceneOfUpdate DEF CopiesInv

LEMMA SceneOfEntry ==
    ASSUME SceneInv, ThreadsInv, CopiesInv, Enters \/ EntersAnew
    PROVE  SceneInv' /\ CopiesInv'
<1>1. LeavesScene
  BY DEF Enters, EntersAnew
<1>2. /\ IsManager(recast) /\ IsManager(recast') /\ CacheShows(recast, stale)
      /\ stale' = stale \cap DOMAIN recast'.mCache
  BY <1>1 DEF LeavesScene, SceneInv
<1>3. CacheShows(recast', stale')
  <2>1. CASE Enters
    BY <1>2, <2>1, CacheMoves DEF Enters
  <2>2. CASE EntersAnew
    BY <2>2 DEF EntersAnew, CacheShows
  <2> QED BY <2>1, <2>2
<1>4. SceneInv'
  <2>1. mLastRecastMeshManagerRevision' \in 0..recast'.mRevision
        /\ mLastRecastMeshManagerRevision' < recast'.mRevision
    BY <1>1, <1>2 DEF LeavesScene, SceneInv, IsManager
  <2> QED BY <1>1, <1>2, <1>3, <2>1 DEF LeavesScene, SceneInv
<1>5. ASSUME NEW w \in Readers PROVE CopyShows(recast', reader'[w])
  <2>1. Passed(reader[w], reader'[w], {}, recast'.mRange, {})
    BY <1>1 DEF LeavesScene
  <2>2. CASE Enters
    <3>1. CopyShows(recast, reader[w]) /\ Moves(recast, recast')
      BY <2>2 DEF CopiesInv, Enters
    <3>2. reader[w].pc \in {"make", "store"} => reader[w].key \in Keys
      BY KeyOfThread DEF At
    <3> QED BY <1>2, <2>1, <3>1, <3>2, CopyMoves
  <2>3. CASE EntersAnew
    <3>1. reader'[w].pc = "store" => reader'[w].missed
      BY <2>3 DEF EntersAnew, MeshesDropped
    <3> QED BY <2>1, <3>1 DEF CopyShows, Passed
  <2> QED BY <2>2, <2>3
<1> QED BY <1>4, <1>5 DEF CopiesInv

-----------------------------------------------------------------------------
(* The main thread and the updater's threads, when the scene changes       *)

LEMMA ThreadsOfChanges ==
    ASSUME ThreadsInv, SceneChanges
    PROVE  ThreadsInv'
<1>1. /\ recast'.mRange = recast.mRange
      /\ UNCHANGED <<mPlayerTile, updaterTile, mCache, mGenerationCounter, main, pending,
                     reader, navMesh>>
  BY DEF SceneChanges, Changes, managerVars, sceneVars, agentVars
<1>2. lost' \subseteq Keys
  BY DEF SceneChanges, LeftOut, ThreadsInv
<1> QED BY <1>1, <1>2 DEF ThreadsInv, Work, At, GuardFree

(* What an update and a change of cells do alike.                          *)
SceneStep ==
    /\ recast'.mRange # None
    /\ reader' \in [Readers -> Reader]
    /\ \A w \in Readers : /\ reader'[w].pc = reader[w].pc /\ reader'[w].key = reader[w].key
                          /\ reader'[w].mesh = reader[w].mesh
    /\ updaterTile' = updaterTile /\ mPlayerTile' \in PlayerTiles \cup {None}
    /\ main' \in MainThread /\ main'.toPost = {}
    /\ \A a \in main'.left : mCache[a] # None
    /\ IF main'.pc = "free" THEN main'.left = {} ELSE mPlayerTile' # None

LEMMA UpdateIsSceneStep ==
    ASSUME ThreadsInv, NEW limited, TakesScene(limited)
    PROVE  SceneStep
<1>1. /\ recast' = TakeChangedTiles(limited) /\ IsManager(limited)
      /\ limited.mRange \in SUBSET Tiles /\ mPlayerTile' \in PlayerTiles
      /\ main' = [pc |-> "collect", left |-> {a \in Agents : mCache[a] # None},
                  changed |-> limited.mChangedTiles, toPost |-> {}]
      /\ reader' \in [Readers -> Reader] /\ updaterTile' = updaterTile
  BY DEF TakesScene
<1>2. recast'.mRange = limited.mRange /\ limited.mRange # None
  BY <1>1, TilesTaken, RangeIsSet
<1>3. limited.mChangedTiles \subseteq Tiles
  BY <1>1 DEF IsManager
<1>4. main' \in MainThread
  BY <1>1, <1>3 DEF MainThread
<1>5. \A w \in Readers : /\ reader'[w].pc = reader[w].pc /\ reader'[w].key = reader[w].key
                         /\ reader'[w].mesh = reader[w].mesh
  BY DEF TakesScene, Passed
<1>6. mPlayerTile' # None
  BY <1>1, ManagerAssumption DEF ManagerAssumption
<1> QED BY <1>1, <1>2, <1>4, <1>5, <1>6 DEF SceneStep

LEMMA EntryIsSceneStep ==
    ASSUME ThreadsInv, LeavesScene
    PROVE  SceneStep
<1>1. recast'.mRange # None
  BY RangeIsSet DEF LeavesScene
<1>2. \A w \in Readers : /\ reader'[w].pc = reader[w].pc /\ reader'[w].key = reader[w].key
                         /\ reader'[w].mesh = reader[w].mesh
  BY DEF LeavesScene, Passed
<1>3. main' = main /\ mPlayerTile' = mPlayerTile /\ main.pc = "free"
  BY DEF LeavesScene, GuardFree
<1>4. main.left = {} /\ main.toPost = {} /\ main \in MainThread
      /\ mPlayerTile \in PlayerTiles \cup {None}
  BY <1>3 DEF ThreadsInv, GuardFree
<1> QED BY <1>1, <1>2, <1>3, <1>4 DEF SceneStep, LeavesScene

LEMMA ThreadsOfStep ==
    ASSUME ThreadsInv, SceneStep, MeshesKept \/ MeshesDropped
    PROVE  ThreadsInv'
<1>1. /\ mCache' \in [Agents -> Version \cup {None}] /\ mGenerationCounter' \in Nat
      /\ \A a \in Agents : mCache'[a] = None <=> mCache[a] = None
  <2>1. CASE MeshesKept
    BY <2>1 DEF MeshesKept, agentVars, ThreadsInv
  <2>2. CASE ReplaceMeshes
    <3>1. \A a \in Agents : AgentRank[a] \in Nat
      BY ManagerAssumption, FS_CardinalityType DEF ManagerAssumption
    <3>2. \A a \in Agents : [mGeneration |-> mGenerationCounter + AgentRank[a],
                             mRevision |-> 0] \in Version
      BY <3>1 DEF ThreadsInv, Version
    <3>3. mGenerationCounter' \in Nat
      BY <2>2, ManagerAssumption, FS_CardinalityType
         DEF ReplaceMeshes, ThreadsInv, ManagerAssumption
    <3>4. \A a \in Agents : [mGeneration |-> mGenerationCounter + AgentRank[a],
                             mRevision |-> 0] # None
      BY <3>2, SceneAssumption DEF SceneAssumption
    <3> QED BY <2>2, <3>2, <3>3, <3>4 DEF ReplaceMeshes
  <2> QED BY <2>1, <2>2 DEF MeshesDropped
<1>2. /\ pending' \in [Keys -> {"none", "live", "expired"}]
      /\ navMesh' \in [Keys -> Contents \cup {None}] /\ lost' \subseteq Keys
  BY DEF MeshesKept, MeshesDropped, ReplaceMeshes, ThreadsInv, LeftOut
<1>3. ASSUME NEW k \in Keys
      PROVE  /\ pending'[k] = "live" \/ navMesh'[k] # None => mCache'[k[1]] # None
             /\ pending'[k] = "expired" => \A w \in Work(k)' : reader'[w].orphan
  <2>1. Work(k)' = Work(k)
    BY DEF SceneStep, Work
  <2>2. k[1] \in Agents
    BY TileIsTile
  <2>3. CASE MeshesKept
    <3>1. pending' = pending /\ navMesh' = navMesh /\ mCache' = mCache
      BY <2>3 DEF MeshesKept, agentVars
    <3>2. \A w \in Readers : reader'[w].orphan = reader[w].orphan
      BY <2>3 DEF MeshesKept, SameOrphan
    <3> QED BY <2>1, <3>1, <3>2 DEF ThreadsInv, Work
  <2>4. CASE MeshesDropped
    <3>1. pending'[k] # "live" /\ navMesh'[k] = None
      BY <2>4 DEF MeshesDropped, ReplaceMeshes
    <3>2. ASSUME NEW w \in Work(k) PROVE reader'[w].orphan
      <4>1. w \in Readers /\ reader[w].key # None
        BY ManagerAssumption DEF Work, ManagerAssumption
      <4>2. reader[w].pc # "idle"
        BY <4>1 DEF ThreadsInv, At
      <4> QED BY <2>4, <4>1, <4>2 DEF MeshesDropped, Orphaned
    <3> QED BY <2>1, <3>1, <3>2
  <2> QED BY <2>3, <2>4
<1>4. ASSUME NEW w \in Readers
      PROVE  /\ At(w, {"idle"})' <=> reader'[w].key = None
             /\ ~At(w, {"idle"})' /\ ~reader'[w].orphan => mCache'[reader'[w].key[1]] # None
             /\ At(w, HasMesh)' => reader'[w].mesh # None /\ ~IsEmptyMesh(reader'[w].mesh)
  <2>1. /\ reader'[w].pc = reader[w].pc /\ reader'[w].key = reader[w].key
        /\ reader'[w].mesh = reader[w].mesh
    BY DEF SceneStep
  <2>2. ASSUME ~At(w, {"idle"}), ~reader'[w].orphan
        PROVE  mCache'[reader[w].key[1]] # None
    <3>1. reader[w].key[1] \in Agents
      BY <2>2, KeyOfThread
    <3>2. ~reader[w].orphan
      BY <2>2 DEF MeshesKept, MeshesDropped, SameOrphan, Orphaned, At
    <3> QED BY <1>1, <2>2, <3>1, <3>2 DEF ThreadsInv
  <2> QED BY <2>1, <2>2 DEF ThreadsInv, At
<1>5. \A v, w \in Readers : reader'[v].key = reader'[w].key /\ reader'[v].key # None => v = w
  BY DEF SceneStep, ThreadsInv
<1>6. \A a \in main'.left : mCache'[a] # None
  BY <1>1 DEF SceneStep, MainThread
<1> QED BY <1>1, <1>2, <1>3, <1>4, <1>5, <1>6 DEF ThreadsInv, SceneStep, GuardFree

-----------------------------------------------------------------------------
(* The main thread between changes of the scene                            *)

SceneKept == UNCHANGED <<recast, stale, mActiveCells, mLastRecastMeshManagerRevision>>

LEMMA SceneOfKept ==
    ASSUME SceneInv, SceneKept PROVE SceneInv'
BY DEF SceneInv, SceneKept

LEMMA ThreadsOfAddAgent ==
    ASSUME ThreadsInv, NEW a \in Agents, AddAgent(a)
    PROVE  ThreadsInv'
<1> DEFINE version == [mGeneration |-> mGenerationCounter + 1, mRevision |-> 0]
<1>1. /\ GuardFree /\ mCache' = [mCache EXCEPT ![a] = version]
      /\ mGenerationCounter' = mGenerationCounter + 1 /\ mPlayerTile' = None
      /\ UNCHANGED <<recast, main, updaterTile, pending, reader, navMesh, lost>>
  BY DEF AddAgent
<1>2. version \in Version /\ version # None
  BY SceneAssumption DEF ThreadsInv, Version, SceneAssumption
<1> HIDE DEF version
<1>3. /\ mCache' \in [Agents -> Version \cup {None}]
      /\ \A b \in Agents : mCache[b] # None => mCache'[b] # None
  BY <1>1, <1>2 DEF ThreadsInv
<1>4. mGenerationCounter' \in Nat
  BY <1>1 DEF ThreadsInv
<1>5. \A k \in Keys : k[1] \in Agents
  BY TileIsTile
<1>6. \A k \in Keys : pending[k] = "live" \/ navMesh[k] # None => mCache'[k[1]] # None
  BY <1>3, <1>5 DEF ThreadsInv
<1>7. \A w \in Readers : ~At(w, {"idle"}) /\ ~reader[w].orphan
                           => mCache'[reader[w].key[1]] # None
  BY <1>3, KeyOfThread DEF ThreadsInv
<1>8. main.left = {} /\ main.toPost = {}
  BY <1>1 DEF ThreadsInv
<1> QED BY <1>1, <1>3, <1>4, <1>6, <1>7, <1>8 DEF ThreadsInv, Work, At, GuardFree

LEMMA ThreadsOfResetAgent ==
    ASSUME ThreadsInv, NEW a \in Agents, ResetAgent(a)
    PROVE  ThreadsInv'
<1>1. /\ GuardFree /\ mCache' = [mCache EXCEPT ![a] = None] /\ mPlayerTile' = None
      /\ \A w \in Readers : /\ reader[w].key # None /\ reader[w].key[1] = a
                            => reader[w].pc = "loaded" \/ reader[w].orphan
      /\ pending' = [k \in Keys |-> IF k[1] = a /\ pending[k] = "live"
                                    THEN "expired" ELSE pending[k]]
      /\ reader' = [w \in Readers |->
                      IF reader[w].pc = "loaded" /\ reader[w].key[1] = a
                      THEN [reader[w] EXCEPT !.orphan = TRUE] ELSE reader[w]]
      /\ navMesh' = [k \in Keys |-> IF k[1] = a THEN None ELSE navMesh[k]]
      /\ lost' = {k \in lost : k[1] # a}
      /\ UNCHANGED <<recast, mGenerationCounter, main, updaterTile>>
  BY DEF ResetAgent
<1>2. /\ mCache' \in [Agents -> Version \cup {None}]
      /\ \A b \in Agents \ {a} : mCache'[b] = mCache[b]
      /\ pending' \in [Keys -> {"none", "live", "expired"}]
      /\ navMesh' \in [Keys -> Contents \cup {None}] /\ lost' \subseteq Keys
  BY <1>1 DEF ThreadsInv
<1>3. ASSUME NEW w \in Readers
      PROVE  /\ reader'[w] \in Reader /\ reader'[w].pc = reader[w].pc
             /\ reader'[w].key = reader[w].key /\ reader'[w].mesh = reader[w].mesh
             /\ reader[w].orphan => reader'[w].orphan
             /\ reader[w].pc = "loaded" /\ reader[w].key[1] = a => reader'[w].orphan
  <2>1. reader[w] \in Reader
    BY DEF ThreadsInv
  <2> QED BY <1>1, <2>1 DEF Reader
<1>4. reader' \in [Readers -> Reader]
  BY <1>1, <1>3
<1>5. main.left = {} /\ main.toPost = {}
  BY <1>1 DEF ThreadsInv
<1>6. ASSUME NEW w \in Readers, reader[w].key # None, reader[w].key[1] = a
      PROVE  reader'[w].orphan
  BY <1>1, <1>3, <1>6
<1>7. ASSUME NEW k \in Keys
      PROVE  /\ pending'[k] = "live" \/ navMesh'[k] # None => mCache'[k[1]] # None
             /\ pending'[k] = "expired" => \A w \in Work(k)' : reader'[w].orphan
  <2>1. k[1] \in Agents /\ k # None
    BY TileIsTile, ManagerAssumption DEF ManagerAssumption
  <2>2. Work(k)' = Work(k)
    BY <1>3 DEF Work
  <2>3. CASE k[1] = a
    BY <1>1, <1>6, <2>1, <2>2, <2>3 DEF Work
  <2>4. CASE k[1] # a
    <3>1. pending'[k] = pending[k] /\ navMesh'[k] = navMesh[k] /\ mCache'[k[1]] = mCache[k[1]]
      BY <1>1, <1>2, <2>1, <2>4
    <3> QED BY <1>3, <2>2, <3>1 DEF ThreadsInv, Work
  <2> QED BY <2>3, <2>4
<1>8. ASSUME NEW w \in Readers, ~At(w, {"idle"}), ~reader'[w].orphan
      PROVE  mCache'[reader[w].key[1]] # None
  <2>1. reader[w].key[1] \in Agents \ {a}
    BY <1>6, <1>8, KeyOfThread DEF ThreadsInv
  <2> QED BY <1>2, <1>3, <1>8, <2>1 DEF ThreadsInv
<1>9. ASSUME NEW w \in Readers
      PROVE  /\ At(w, {"idle"})' <=> reader'[w].key = None
             /\ ~At(w, {"idle"})' /\ ~reader'[w].orphan => mCache'[reader'[w].key[1]] # None
             /\ At(w, HasMesh)' => reader'[w].mesh # None /\ ~IsEmptyMesh(reader'[w].mesh)
  BY <1>3, <1>8 DEF ThreadsInv, At
<1>10. \A v, w \in Readers : reader'[v].key = reader'[w].key /\ reader'[v].key # None => v = w
  BY <1>3 DEF ThreadsInv
<1>11. recast'.mRange = None => /\ \A w \in Readers : At(w, {"idle"})'
                                /\ \A k \in Keys : pending'[k] = "none"
  BY <1>1, <1>3 DEF ThreadsInv, At
<1> QED BY <1>1, <1>2, <1>4, <1>5, <1>7, <1>9, <1>10, <1>11 DEF ThreadsInv, GuardFree

LEMMA PostedTiles ==
    ASSUME ThreadsInv, NEW a
    PROVE  TilesToPost(a) \subseteq Tiles
BY DEF TilesToPost, ThreadsInv, MainThread, LimitedObjectsRange, LimitedTo

LEMMA ThreadsOfCollect ==
    ASSUME ThreadsInv, NEW a \in Agents, Collect(a)
    PROVE  ThreadsInv'
<1> DEFINE posted == TilesToPost(a)
<1>1. /\ main.pc = "collect" /\ a \in main.left
      /\ main' = [main EXCEPT !.pc = "post", !.left = @ \ {a}, !.toPost = {a} \X posted]
      /\ UNCHANGED <<recast, mPlayerTile, mCache, mGenerationCounter, updaterTile, pending,
                     reader, navMesh, lost>>
  BY DEF Collect, sceneVars, agentVars
<1>2. posted \subseteq Tiles
  BY PostedTiles
<1> HIDE DEF posted
<1>3. {a} \X posted \subseteq Keys /\ \A k \in {a} \X posted : k[1] = a
  BY <1>2 DEF Keys
<1>4. main \in MainThread
  BY DEF ThreadsInv
<1>5. /\ main' \in MainThread /\ main'.pc = "post" /\ main'.left = main.left \ {a}
      /\ main'.toPost = {a} \X posted
  BY <1>1, <1>3, <1>4 DEF MainThread
<1>6. mCache[a] # None /\ mPlayerTile # None
  BY <1>1 DEF ThreadsInv, GuardFree
<1> QED BY <1>1, <1>3, <1>5, <1>6 DEF ThreadsInv, GuardFree, Work, At

LEMMA ThreadsOfPost ==
    ASSUME ThreadsInv, Post
    PROVE  ThreadsInv'
<1>1. /\ main.pc = "post" /\ main' = [main EXCEPT !.pc = "collect", !.toPost = {}]
      /\ updaterTile' = mPlayerTile
      /\ pending' = [k \in Keys |-> IF k \in main.toPost /\ pending[k] = "none"
                                    THEN "live" ELSE pending[k]]
      /\ lost' = lost \cup {k \in main.toPost : pending[k] = "expired"}
      /\ UNCHANGED <<recast, mPlayerTile, mCache, mGenerationCounter, reader, navMesh>>
  BY DEF Post, sceneVars, agentVars
<1>2. main \in MainThread
  BY DEF ThreadsInv
<1>3. main' \in MainThread /\ main'.pc = "collect" /\ main'.left = main.left /\ main'.toPost = {}
  BY <1>1, <1>2 DEF MainThread
<1>4. mPlayerTile # None /\ recast.mRange # None /\ main.toPost \subseteq Keys
  BY <1>1, <1>2 DEF ThreadsInv, GuardFree, MainThread
<1>5. updaterTile' \in PlayerTiles
  BY <1>1, <1>4 DEF ThreadsInv
<1>6. pending' \in [Keys -> {"none", "live", "expired"}] /\ lost' \subseteq Keys
  BY <1>1, <1>4 DEF ThreadsInv
<1>7. \A k \in Keys : /\ pending'[k] = "live" => mCache[k[1]] # None
                      /\ pending'[k] = "expired" => pending[k] = "expired"
  BY <1>1 DEF ThreadsInv
<1> QED BY <1>1, <1>3, <1>4, <1>5, <1>6, <1>7 DEF ThreadsInv, GuardFree, Work, At

LEMMA ThreadsOfEndUpdate ==
    ASSUME ThreadsInv, EndUpdate
    PROVE  ThreadsInv'
<1>1. /\ main.pc = "collect" /\ main.left = {} /\ main' = Free
      /\ UNCHANGED <<recast, mPlayerTile, mCache, mGenerationCounter, updaterTile, pending,
                     reader, navMesh, lost>>
  BY DEF EndUpdate, sceneVars, agentVars
<1>2. main' \in MainThread /\ main'.pc = "free" /\ main'.left = {} /\ main'.toPost = {}
  BY <1>1 DEF MainThread, Free
<1>3. recast.mRange # None
  BY <1>1 DEF ThreadsInv, GuardFree
<1> QED BY <1>1, <1>2, <1>3 DEF ThreadsInv, GuardFree, Work, At

-----------------------------------------------------------------------------
(* A step of a thread of the updater                                       *)

(* w becomes d, the other threads stay as they are.                        *)
ThreadMoves(w, d) ==
    /\ recast'.mRange = recast.mRange /\ (recast.mRange # None)
    /\ UNCHANGED <<mPlayerTile, updaterTile, mGenerationCounter, main>>
    /\ reader' = [reader EXCEPT ![w] = d]
    /\ d \in Reader
    /\ d.pc = "idle" <=> d.key = None
    /\ d.key \in {None, reader[w].key} \/ Work(d.key) = {}
    /\ d.pc \in HasMesh => d.mesh # None /\ ~IsEmptyMesh(d.mesh)
    /\ d.pc # "idle" /\ ~d.orphan => mCache[d.key[1]] # None
    /\ mCache' \in [Agents -> Version \cup {None}]
    /\ \A a \in Agents : mCache'[a] = None <=> mCache[a] = None
    /\ pending' \in [Keys -> {"none", "live", "expired"}]
    /\ \A k \in Keys : /\ pending'[k] \in {pending[k], "none"}
                       /\ pending'[k] = "expired" /\ d.key = k => d.orphan
    /\ navMesh' \in [Keys -> Contents \cup {None}]
    /\ \A k \in Keys : navMesh'[k] # None => navMesh[k] # None \/ mCache[k[1]] # None
    /\ lost' \subseteq Keys

LEMMA ThreadsOfThread ==
    ASSUME ThreadsInv, NEW w \in Readers, NEW d, ThreadMoves(w, d)
    PROVE  ThreadsInv'
<1> USE DEF ThreadMoves
<1>1. reader' \in [Readers -> Reader] /\ reader'[w] = d
      /\ \A v \in Readers \ {w} : reader'[v] = reader[v]
  BY DEF ThreadsInv
<1>2. \A k \in Keys : k[1] \in Agents /\ k # None
  BY TileIsTile, ManagerAssumption DEF ManagerAssumption
<1>3. ASSUME NEW k \in Keys
      PROVE  /\ pending'[k] = "live" \/ navMesh'[k] # None => mCache'[k[1]] # None
             /\ pending'[k] = "expired" => \A v \in Work(k)' : reader'[v].orphan
  <2>1. pending'[k] = "live" \/ navMesh'[k] # None => mCache'[k[1]] # None
    BY <1>2 DEF ThreadsInv
  <2>2. ASSUME pending'[k] = "expired", NEW v \in Work(k)' PROVE reader'[v].orphan
    <3>1. v \in Readers /\ reader'[v].key = k /\ pending[k] = "expired"
      BY <2>2 DEF Work
    <3>2. CASE v = w
      BY <1>1, <2>2, <3>1, <3>2
    <3>3. CASE v # w
      BY <1>1, <3>1, <3>3 DEF ThreadsInv, Work
    <3> QED BY <3>2, <3>3
  <2> QED BY <2>1, <2>2
<1>4. ASSUME NEW v \in Readers
      PROVE  /\ At(v, {"idle"})' <=> reader'[v].key = None
             /\ ~At(v, {"idle"})' /\ ~reader'[v].orphan => mCache'[reader'[v].key[1]] # None
             /\ At(v, HasMesh)' => reader'[v].mesh # None /\ ~IsEmptyMesh(reader'[v].mesh)
  <2>1. CASE v = w
    <3>1. d.pc # "idle" => d.key \in Keys
      BY DEF Reader
    <3> QED BY <1>1, <1>2, <2>1, <3>1 DEF At
  <2>2. CASE v # w
    <3>1. ~At(v, {"idle"}) => reader[v].key[1] \in Agents
      BY KeyOfThread
    <3> QED BY <1>1, <2>2, <3>1 DEF ThreadsInv, At
  <2> QED BY <2>1, <2>2
<1>5. ASSUME NEW u \in Readers, NEW v \in Readers,
             reader'[u].key = reader'[v].key, reader'[u].key # None
      PROVE  u = v
  <2>1. CASE d.key \in {None, reader[w].key}
    BY <1>1, <1>5, <2>1 DEF ThreadsInv
  <2>2. CASE Work(d.key) = {}
    BY <1>1, <1>5, <2>2 DEF ThreadsInv, Work
  <2> QED BY <2>1, <2>2
<1>6. \A a \in Agents : mCache[a] # None => mCache'[a] # None
  OBVIOUS
<1>7. main \in MainThread /\ \A k \in main.toPost : k[1] \in Agents
  BY <1>2 DEF ThreadsInv, MainThread
<1>8. \A a \in main.left : a \in Agents
  BY <1>7 DEF MainThread
<1> QED BY <1>1, <1>3, <1>4, <1>5, <1>6, <1>7, <1>8 DEF ThreadsInv, GuardFree

(* The other threads' copies stay what they are of the same scene.         *)
LEMMA CopiesOfThread ==
    ASSUME ThreadsInv, CopiesInv, NEW w \in Readers, NEW d,
           reader' = [reader EXCEPT ![w] = d],
           recast'.mRange = recast.mRange, recast'.mObjects = recast.mObjects,
           recast'.mStatics = recast.mStatics, recast'.mChangedTiles = recast.mChangedTiles,
           d.pc \in {"make", "store"} => CopyShows(recast, d)
    PROVE  CopiesInv'
<1>1. \A r, e : /\ r.mRange = recast.mRange /\ r.mObjects = recast.mObjects
                /\ r.mStatics = recast.mStatics /\ r.mChangedTiles = recast.mChangedTiles
                => (CopyShows(recast, e) => CopyShows(r, e))
  BY DEF CopyShows, ShowsScene, ObjectsAt, StaticsAt
<1>2. reader'[w] = d /\ \A v \in Readers \ {w} : reader'[v] = reader[v]
  BY DEF ThreadsInv
<1>3. \A v \in Readers : CopyShows(recast, reader'[v])
  BY <1>2 DEF CopiesInv, CopyShows
<1> QED BY <1>1, <1>3 DEF CopiesInv

(* NavMeshCacheItem's changes of the mesh.                                 *)
LEMMA TileSet ==
    ASSUME ThreadsInv, NEW w \in Readers, ~At(w, {"idle"}),
           NEW value \in Contents \cup {None}, SetTile(w, value)
    PROVE  /\ mCache' \in [Agents -> Version \cup {None}]
           /\ \A a \in Agents : mCache'[a] = None <=> mCache[a] = None
           /\ navMesh' \in [Keys -> Contents \cup {None}]
           /\ \A k \in Keys : navMesh'[k] # None => navMesh[k] # None \/ mCache[k[1]] # None
           /\ \A k \in Keys : navMesh'[k] = IF k = reader[w].key /\ ~reader[w].orphan
                                            THEN value ELSE navMesh[k]
<1>1. reader[w].key \in Keys /\ reader[w].key[1] \in Agents
  BY KeyOfThread
<1>2. CASE reader[w].orphan
  BY <1>2 DEF SetTile, ThreadsInv
<1>3. CASE ~reader[w].orphan
  <2> DEFINE a == reader[w].key[1]
  <2>1. navMesh' = [navMesh EXCEPT ![reader[w].key] = value]
    BY <1>3 DEF SetTile
  <2>2. mCache[a] # None /\ mCache[a] \in Version
    BY <1>1, <1>3 DEF ThreadsInv
  <2>3. /\ mCache' \in [Agents -> Version \cup {None}]
        /\ \A b \in Agents : mCache'[b] = None <=> mCache[b] = None
    <3>1. CASE navMesh[reader[w].key] = value
      BY <3>1 DEF SetTile, ThreadsInv
    <3>2. CASE navMesh[reader[w].key] # value
      <4> DEFINE v == [mCache[a] EXCEPT !.mRevision = @ + 1]
      <4>1. mCache' = [mCache EXCEPT ![a] = v]
        BY <1>3, <3>2 DEF SetTile
      <4>2. v \in Version /\ v # None
        BY <2>2, SceneAssumption DEF Version, SceneAssumption
      <4> HIDE DEF v
      <4> QED BY <1>1, <2>2, <4>1, <4>2 DEF ThreadsInv
    <3> QED BY <3>1, <3>2
  <2> QED BY <1>1, <1>3, <2>1, <2>2, <2>3 DEF ThreadsInv
<1> QED BY <1>2, <1>3

LEMMA LostTyped ==
    ASSUME ThreadsInv, NEW w \in Readers, ~At(w, {"idle"}), NEW condition
    PROVE  LostIf(w, condition) \subseteq Keys
BY KeyOfThread DEF LostIf, ThreadsInv

LEMMA IdleIsReader ==
    IdleReader \in Reader /\ IdleReader.key = None /\ IdleReader.pc = "idle"
BY DEF IdleReader, Reader, ReaderPcs

(* A thread at work, or a waiting job, has a range.                        *)
LEMMA RangeKnown ==
    ASSUME SceneInv, ThreadsInv,
           ~GuardFree \/ (\E w \in Readers : ~At(w, {"idle"})) \/ (\E k \in Keys : pending[k] # "none")
    PROVE  recast.mRange # None /\ recast.mRange \in SUBSET Tiles
BY DEF ThreadsInv, SceneInv, IsManager

(* What the served meshes rest on.                                         *)
CacheInv == SceneInv /\ ThreadsInv /\ CopiesInv

(* The steps that leave the scene's record alone.                          *)
LEMMA CacheOfThread ==
    ASSUME CacheInv, NEW w \in Readers, NEW d, ThreadMoves(w, d), SceneKept,
           d.pc \in {"make", "store"} => CopyShows(recast, d)
    PROVE  CacheInv'
<1>1. SceneInv' /\ recast' = recast
  BY SceneOfKept DEF CacheInv, SceneKept
<1>2. ThreadsInv'
  BY ThreadsOfThread DEF CacheInv
<1>3. CopiesInv'
  BY <1>1, CopiesOfThread DEF CacheInv, ThreadMoves
<1> QED BY <1>1, <1>2, <1>3 DEF CacheInv

LEMMA CacheOfTakeJob ==
    ASSUME CacheInv, NEW w \in Readers, NEW k \in Keys, TakeJob(w, k)
    PROVE  CacheInv'
<1> USE DEF CacheInv
<1> DEFINE d == [reader[w] EXCEPT !.pc = "loaded", !.key = k,
                                  !.worldspace = recast.mWorldspace,
                                  !.orphan = pending[k] = "expired"]
<1>1. /\ reader[w].pc = "idle" /\ pending[k] # "none" /\ Work(k) = {}
      /\ pending' = [pending EXCEPT ![k] = "none"]
      /\ UNCHANGED <<recast, managerVars, navMesh, stale, lost>>
  BY DEF TakeJob
<1>2. reader' = [reader EXCEPT ![w] = d]
  BY DEF TakeJob, ThreadsInv
<1>3. /\ d \in Reader /\ d.pc = "loaded" /\ d.key = k
      /\ d.orphan = (pending[k] = "expired")
  <2>1. reader[w] \in Reader /\ recast.mWorldspace \in Worldspaces \cup {None}
    BY DEF ThreadsInv, SceneInv, IsManager
  <2> QED BY <2>1 DEF Reader, ReaderPcs
<1> HIDE DEF d
<1>4. k # None /\ k[1] \in Agents
  BY TileIsTile, ManagerAssumption DEF ManagerAssumption
<1>5. recast.mRange # None
  BY <1>1, RangeKnown
<1>6. ~d.orphan => mCache[k[1]] # None
  BY <1>1, <1>3 DEF ThreadsInv
<1>7. /\ pending' \in [Keys -> {"none", "live", "expired"}]
      /\ \A j \in Keys : pending'[j] = IF j = k THEN "none" ELSE pending[j]
  BY <1>1 DEF ThreadsInv
<1>8. ThreadMoves(w, d)
  BY <1>1, <1>2, <1>3, <1>4, <1>5, <1>6, <1>7
     DEF ThreadMoves, ThreadsInv, managerVars, sceneVars, agentVars, HasMesh
<1> QED BY <1>1, <1>3, <1>8, CacheOfThread DEF SceneKept, managerVars, sceneVars

(* A thread with a job that changes nothing but itself.                    *)
LEMMA OnlyThread ==
    ASSUME CacheInv, NEW w \in Readers, NEW d, ~At(w, {"idle"}),
           d = IdleReader \/ (d \in Reader /\ d.pc # "idle" /\ d.key = reader[w].key),
           d = IdleReader \/ d.orphan = reader[w].orphan,
           d.pc \in HasMesh => d.mesh # None /\ ~IsEmptyMesh(d.mesh),
           d.pc \in {"make", "store"} => CopyShows(recast, d),
           reader' = [reader EXCEPT ![w] = d],
           UNCHANGED <<recast, managerVars, pending, navMesh, stale, lost>>
    PROVE  CacheInv'
<1> USE DEF CacheInv
<1>1. reader[w].key \in Keys /\ reader[w].key # None
  BY KeyOfThread, ManagerAssumption DEF ManagerAssumption
<1>2. recast.mRange # None
  BY RangeKnown
<1>3. d \in Reader /\ (d.pc = "idle" <=> d.key = None) /\ d.key \in {None, reader[w].key}
  BY <1>1, IdleIsReader
<1>4. d.pc # "idle" /\ ~d.orphan => mCache[d.key[1]] # None
  BY <1>3, IdleIsReader DEF ThreadsInv
<1>5. \A k \in Keys : pending[k] = "expired" /\ d.key = k => d.orphan
  <2> SUFFICES ASSUME NEW k \in Keys, pending[k] = "expired", d.key = k PROVE d.orphan
    OBVIOUS
  <2>1. d # IdleReader /\ w \in Work(k)
    BY <1>1, <1>3, IdleIsReader, ManagerAssumption DEF Work, ManagerAssumption
  <2> QED BY <2>1 DEF ThreadsInv
<1>6. ThreadMoves(w, d)
  BY <1>2, <1>3, <1>4, <1>5 DEF ThreadMoves, ThreadsInv, managerVars, sceneVars, agentVars
<1> QED BY <1>6, CacheOfThread DEF SceneKept, managerVars, sceneVars

(* A change of pc, and what the thread notes with it.                      *)
LEMMA CacheOfProcessJob ==
    ASSUME CacheInv, NEW w \in Readers, ProcessJob(w)
    PROVE  CacheInv'
<1>1. ~At(w, {"idle"}) /\ UNCHANGED <<recast, managerVars, pending, navMesh, stale, lost>>
  BY DEF ProcessJob, At
<1>2. CASE Done(w)
  BY <1>1, <1>2, IdleIsReader, OnlyThread DEF Done, HasMesh
<1>3. CASE Goto(w, "lookup") \/ Goto(w, "far")
  <2>1. PICK pc \in {"lookup", "far"} : Goto(w, pc)
    BY <1>3
  <2> DEFINE d == [reader[w] EXCEPT !.pc = pc]
  <2>2. reader' = [reader EXCEPT ![w] = d] /\ reader[w] \in Reader
    BY <2>1 DEF Goto, CacheInv, ThreadsInv
  <2>3. d \in Reader /\ d.pc = pc /\ d.key = reader[w].key /\ d.orphan = reader[w].orphan
    BY <2>2 DEF Reader, ReaderPcs
  <2> HIDE DEF d
  <2> QED BY <1>1, <2>2, <2>3, OnlyThread DEF HasMesh
<1> QED BY <1>2, <1>3 DEF ProcessJob

LEMMA CacheOfLookupMesh ==
    ASSUME CacheInv, NEW w \in Readers, LookupMesh(w)
    PROVE  CacheInv'
<1> DEFINE t == TileOf(w)
<1>1. /\ ~At(w, {"idle"}) /\ reader[w] \in Reader
      /\ UNCHANGED <<recast, managerVars, pending, navMesh, stale, lost>>
  BY DEF LookupMesh, At, CacheInv, ThreadsInv
<1>2. CASE reader' = [reader EXCEPT ![w].pc = "empty", ![w].tainted = TRUE]
  <2> DEFINE d == [reader[w] EXCEPT !.pc = "empty", !.tainted = TRUE]
  <2>1. reader' = [reader EXCEPT ![w] = d]
    BY <1>2 DEF CacheInv, ThreadsInv
  <2>2. d \in Reader /\ d.pc = "empty" /\ d.key = reader[w].key /\ d.orphan = reader[w].orphan
    BY <1>1 DEF Reader, ReaderPcs
  <2> HIDE DEF d
  <2> QED BY <1>1, <2>1, <2>2, OnlyThread DEF HasMesh
<1>3. CASE /\ IsServed(recast, t)
           /\ reader' = [reader EXCEPT ![w].pc = "apply",
                                       ![w].mesh = recast.mCache[t].mRecastMesh,
                                       ![w].tainted = t \in stale]
  <2> DEFINE mesh == recast.mCache[t].mRecastMesh
             d == [reader[w] EXCEPT !.pc = "apply", !.mesh = mesh, !.tainted = t \in stale]
  <2>1. reader' = [reader EXCEPT ![w] = d]
    BY <1>3 DEF CacheInv, ThreadsInv
  <2>2. mesh \in RecastMesh /\ mesh # None /\ ~IsEmptyMesh(mesh)
    <3>1. t \in DOMAIN recast.mCache
      BY <1>3 DEF IsServed
    <3>2. mesh \in RecastMesh /\ ~IsEmptyMesh(mesh)
      BY <3>1 DEF CacheInv, SceneInv, IsManager, IsMap, CachedTile
    <3> QED BY <3>2, SceneAssumption DEF SceneAssumption
  <2> HIDE DEF mesh
  <2>3. /\ d \in Reader /\ d.pc = "apply" /\ d.key = reader[w].key /\ d.mesh = mesh
        /\ d.orphan = reader[w].orphan
    <3> DEFINE tainted == t \in stale
    <3> HIDE DEF tainted
    <3>2. d = [reader[w] EXCEPT !.pc = "apply", !.mesh = mesh, !.tainted = tainted]
      BY DEF tainted
    <3>3. tainted \in BOOLEAN
      BY DEF tainted
    <3> HIDE DEF d
    <3> QED BY <1>1, <2>2, <3>2, <3>3 DEF Reader, ReaderPcs
  <2> HIDE DEF d
  <2> QED BY <1>1, <2>1, <2>2, <2>3, OnlyThread DEF HasMesh
<1>4. CASE Goto(w, "make") /\ IsInRange(recast, t)
  <2> DEFINE d == [reader[w] EXCEPT !.pc = "make"]
  <2>1. reader' = [reader EXCEPT ![w] = d]
    BY <1>4 DEF Goto, CacheInv, ThreadsInv
  <2>2. d \in Reader /\ d.pc = "make" /\ d.key = reader[w].key /\ d.orphan = reader[w].orphan
    BY <1>1 DEF Reader, ReaderPcs
  <2>3. t \in recast.mRange
    BY <1>1, <1>4, RangeKnown DEF IsInRange, CacheInv
  <2> HIDE DEF d
  <2>4. CopyShows(recast, d)
    BY <2>2, <2>3 DEF CopyShows, TileOf
  <2> QED BY <1>1, <2>1, <2>2, <2>4, OnlyThread DEF HasMesh
<1> QED BY <1>2, <1>3, <1>4 DEF LookupMesh

LEMMA CacheOfBuildMesh ==
    ASSUME CacheInv, NEW w \in Readers, BuildMesh(w)
    PROVE  CacheInv'
<1> DEFINE t == TileOf(w)
           mesh == MakeMesh(recast, t)
<1>1. /\ ~At(w, {"idle"}) /\ reader[w] \in Reader /\ reader[w].pc = "make"
      /\ UNCHANGED <<recast, managerVars, pending, navMesh, stale, lost>>
  BY DEF BuildMesh, At, CacheInv, ThreadsInv
<1>2. CASE Goto(w, "empty")
  <2> DEFINE d == [reader[w] EXCEPT !.pc = "empty"]
  <2>1. reader' = [reader EXCEPT ![w] = d]
    BY <1>2 DEF Goto, CacheInv, ThreadsInv
  <2>2. d \in Reader /\ d.pc = "empty" /\ d.key = reader[w].key /\ d.orphan = reader[w].orphan
    BY <1>1 DEF Reader, ReaderPcs
  <2> HIDE DEF d
  <2> QED BY <1>1, <2>1, <2>2, OnlyThread DEF HasMesh
<1>3. CASE mesh # None /\ reader' = [reader EXCEPT ![w].pc = "store", ![w].mesh = mesh]
  <2> DEFINE d == [reader[w] EXCEPT !.pc = "store", !.mesh = mesh]
  <2>1. reader' = [reader EXCEPT ![w] = d]
    BY <1>3 DEF CacheInv, ThreadsInv
  <2>2. mesh \in RecastMesh /\ ~IsEmptyMesh(mesh) /\ ShowsScene(recast, t, mesh)
    <3>1. HasInput(recast, t)
      BY <1>3 DEF MakeMesh
    <3>2. IsManager(recast) /\ t \in Tiles
      BY <1>1, KeyOfThread DEF CacheInv, SceneInv
    <3> QED BY <3>1, <3>2, MeshMade
  <2> HIDE DEF mesh
  <2>3. /\ d \in Reader /\ d.pc = "store" /\ d.key = reader[w].key /\ d.mesh = mesh
        /\ d.orphan = reader[w].orphan /\ d.missed = reader[w].missed
    BY <1>1, <2>2 DEF Reader, ReaderPcs
  <2> HIDE DEF d
  <2>4. CopyShows(recast, d)
    BY <1>1, <2>2, <2>3 DEF CacheInv, CopiesInv, CopyShows, TileOf
  <2> QED BY <1>1, <1>3, <2>1, <2>2, <2>3, <2>4, OnlyThread DEF HasMesh
<1> QED BY <1>2, <1>3 DEF BuildMesh

LEMMA CacheOfReadVersion ==
    ASSUME CacheInv, NEW w \in Readers, ReadVersion(w)
    PROVE  CacheInv'
<1>1. /\ ~At(w, {"idle"}) /\ reader[w] \in Reader /\ reader[w].pc = "version"
      /\ UNCHANGED <<recast, managerVars, pending, navMesh, stale, lost>>
  BY DEF ReadVersion, At, CacheInv, ThreadsInv
<1> DEFINE version == IF reader[w].orphan THEN reader[w].version
                      ELSE mCache[reader[w].key[1]]
           d == [reader[w] EXCEPT !.pc = "report", !.version = version]
<1>2. version \in Version \cup {None}
  BY <1>1, KeyOfThread DEF CacheInv, ThreadsInv, Reader
<1>3. reader' = [reader EXCEPT ![w] = d]
  BY DEF ReadVersion, CacheInv, ThreadsInv
<1> HIDE DEF version
<1>4. /\ d \in Reader /\ d.pc = "report" /\ d.key = reader[w].key
      /\ d.orphan = reader[w].orphan /\ d.mesh = reader[w].mesh
  BY <1>1, <1>2 DEF Reader, ReaderPcs
<1> HIDE DEF d
<1>5. d.mesh # None /\ ~IsEmptyMesh(d.mesh)
  BY <1>1, <1>4 DEF CacheInv, ThreadsInv, At, HasMesh
<1> QED BY <1>1, <1>3, <1>4, <1>5, OnlyThread

LEMMA EmptyTileIsContents == EmptyTile \in Contents /\ NoMap \in MeshObjects
<1>1. NoMap \in [{} -> Transforms] /\ {} \in SUBSET Objects
  BY DEF NoMap
<1>2. NoMap \in MeshObjects
  BY <1>1 DEF MeshObjects
<1> QED BY <1>2 DEF EmptyTile, Contents

(* The steps that write a tile.                                            *)
LEMMA CacheOfTileSet ==
    ASSUME CacheInv, NEW w \in Readers, ~At(w, {"idle"}),
           NEW value \in Contents \cup {None}, SetTile(w, value),
           NEW condition, lost' = LostIf(w, condition),
           NEW d, reader' = [reader EXCEPT ![w] = d],
           \/ d = IdleReader
           \/ /\ d \in Reader /\ d.pc = "version" /\ d.key = reader[w].key
              /\ d.orphan = reader[w].orphan
              /\ d.mesh # None /\ ~IsEmptyMesh(d.mesh),
           UNCHANGED <<recast, sceneVars, mGenerationCounter, main, updaterTile, pending, stale>>
    PROVE  CacheInv'
<1> USE DEF CacheInv
<1>1. reader[w].key \in Keys /\ reader[w].key # None
  BY KeyOfThread, ManagerAssumption DEF ManagerAssumption
<1>2. recast.mRange # None
  BY RangeKnown
<1>3. /\ d \in Reader /\ (d.pc = "idle" <=> d.key = None) /\ d.key \in {None, reader[w].key}
      /\ d.pc \in HasMesh => d.mesh # None /\ ~IsEmptyMesh(d.mesh)
      /\ d.pc \notin {"make", "store"}
  BY <1>1, IdleIsReader DEF HasMesh
<1>4. d.pc # "idle" /\ ~d.orphan => mCache[d.key[1]] # None
  BY <1>3, IdleIsReader DEF ThreadsInv
<1>5. \A k \in Keys : pending[k] = "expired" /\ d.key = k => d.orphan
  <2> SUFFICES ASSUME NEW k \in Keys, pending[k] = "expired", d.key = k PROVE d.orphan
    OBVIOUS
  <2>1. d # IdleReader /\ w \in Work(k)
    BY <1>1, <1>3, IdleIsReader, ManagerAssumption DEF Work, ManagerAssumption
  <2> QED BY <2>1 DEF ThreadsInv
<1>6. lost' \subseteq Keys
  BY LostTyped
<1>7. ThreadMoves(w, d)
  <2>1. /\ UNCHANGED <<mPlayerTile, updaterTile, mGenerationCounter, main>>
        /\ pending' = pending /\ pending \in [Keys -> {"none", "live", "expired"}]
    BY DEF sceneVars, ThreadsInv
  <2>2. /\ mCache' \in [Agents -> Version \cup {None}]
        /\ \A a \in Agents : mCache'[a] = None <=> mCache[a] = None
        /\ navMesh' \in [Keys -> Contents \cup {None}]
        /\ \A k \in Keys : navMesh'[k] # None => navMesh[k] # None \/ mCache[k[1]] # None
    BY TileSet
  <2> QED BY <1>2, <1>3, <1>4, <1>5, <1>6, <2>1, <2>2 DEF ThreadMoves
<1> QED BY <1>3, <1>7, CacheOfThread DEF SceneKept, sceneVars

LEMMA CacheOfRemoveFarTile ==
    ASSUME CacheInv, NEW w \in Readers, RemoveFarTile(w)
    PROVE  CacheInv'
<1>1. /\ ~At(w, {"idle"}) /\ SetTile(w, None) /\ Done(w)
      /\ lost' = LostIf(w, mPlayerTile # None /\ TileOf(w) \in Near[mPlayerTile])
      /\ UNCHANGED <<recast, sceneVars, mGenerationCounter, main, updaterTile, pending, stale>>
  BY DEF RemoveFarTile, At
<1> QED BY <1>1, CacheOfTileSet DEF Done

LEMMA CacheOfMarkAsEmpty ==
    ASSUME CacheInv, NEW w \in Readers, MarkAsEmpty(w)
    PROVE  CacheInv'
<1>1. /\ ~At(w, {"idle"}) /\ SetTile(w, EmptyTile) /\ Done(w)
      /\ lost' = LostIf(w, reader[w].tainted)
      /\ UNCHANGED <<recast, sceneVars, mGenerationCounter, main, updaterTile, pending, stale>>
  BY DEF MarkAsEmpty, At
<1> QED BY <1>1, EmptyTileIsContents, CacheOfTileSet DEF Done

(* What a thread with a mesh puts into the tile.                           *)
LEMMA MeshOfThread ==
    ASSUME ThreadsInv, NEW w \in Readers, At(w, HasMesh)
    PROVE  /\ reader[w].mesh \in RecastMesh /\ reader[w].mesh # None
           /\ ~IsEmptyMesh(reader[w].mesh)
           /\ [objects |-> reader[w].mesh.objects, statics |-> reader[w].mesh.statics]
                \in Contents \ {EmptyTile, None}
<1> DEFINE tile == [objects |-> reader[w].mesh.objects, statics |-> reader[w].mesh.statics]
<1>1. /\ reader[w].mesh \in RecastMesh /\ reader[w].mesh # None
      /\ ~IsEmptyMesh(reader[w].mesh)
  BY DEF ThreadsInv, Reader
<1>2. tile \in Contents
  BY <1>1 DEF RecastMesh, Contents
<1>3. tile # EmptyTile
  <2>1. DOMAIN EmptyTile.objects = {} /\ EmptyTile.statics = {}
    BY DEF EmptyTile, NoMap
  <2>2. tile.objects = reader[w].mesh.objects /\ tile.statics = reader[w].mesh.statics
    OBVIOUS
  <2> QED BY <1>1, <2>1, <2>2 DEF IsEmptyMesh
<1> QED BY <1>1, <1>2, <1>3, SceneAssumption DEF SceneAssumption

LEMMA CacheOfUpdateTile ==
    ASSUME CacheInv, NEW w \in Readers, UpdateTile(w)
    PROVE  CacheInv'
<1> DEFINE tile == [objects |-> reader[w].mesh.objects, statics |-> reader[w].mesh.statics]
           d == [reader[w] EXCEPT !.pc = "version"]
<1>1. /\ ~At(w, {"idle"}) /\ At(w, HasMesh) /\ SetTile(w, tile)
      /\ lost' = LostIf(w, reader[w].tainted)
      /\ reader[w] \in Reader
      /\ UNCHANGED <<recast, sceneVars, mGenerationCounter, main, updaterTile, pending, stale>>
  BY DEF UpdateTile, At, HasMesh, CacheInv, ThreadsInv
<1>2. reader' = [reader EXCEPT ![w] = d]
  BY DEF UpdateTile, Goto, CacheInv, ThreadsInv
<1>3. /\ tile \in Contents \cup {None}
      /\ reader[w].mesh # None /\ ~IsEmptyMesh(reader[w].mesh)
  BY <1>1, MeshOfThread DEF CacheInv
<1>4. /\ d \in Reader /\ d.pc = "version" /\ d.key = reader[w].key
      /\ d.orphan = reader[w].orphan /\ d.mesh = reader[w].mesh
  BY <1>1 DEF Reader, ReaderPcs
<1> HIDE DEF tile, d
<1> QED BY <1>1, <1>2, <1>3, <1>4, CacheOfTileSet

LEMMA CacheOfPutMesh ==
    ASSUME CacheInv, NEW w \in Readers, PutMesh(w)
    PROVE  CacheInv'
<1> DEFINE t == TileOf(w)
           mesh == reader[w].mesh
           late == reader[w].missed \/ ~IsInRange(recast, t)
           d == [reader[w] EXCEPT !.pc = "apply"]
<1> USE DEF CacheInv
<1>1. /\ reader[w].pc = "store" /\ ~At(w, {"idle"}) /\ At(w, HasMesh) /\ reader[w] \in Reader
      /\ recast' = StoreMesh(recast, t, mesh)
      /\ stale' = IF late THEN stale \cup {t} ELSE stale \ {t}
      /\ UNCHANGED <<managerVars, pending, navMesh, lost>>
  BY DEF PutMesh, At, HasMesh, ThreadsInv
<1>2. mesh \in RecastMesh /\ mesh # None /\ ~IsEmptyMesh(mesh)
  BY <1>1, MeshOfThread
<1>3. t \in Tiles /\ recast.mRange # None /\ reader[w].key \in Keys
  BY <1>1, KeyOfThread, RangeKnown
<1>4. /\ IsManager(recast') /\ DOMAIN recast'.mCache = DOMAIN recast.mCache \cup {t}
      /\ recast'.mRange = recast.mRange /\ recast'.mWorldspace = recast.mWorldspace
      /\ recast'.mRevision = recast.mRevision /\ recast'.mObjects = recast.mObjects
      /\ recast'.mStatics = recast.mStatics /\ recast'.mChangedTiles = recast.mChangedTiles
      /\ recast'.mCache[t].mRecastMesh = mesh
      /\ \A u \in DOMAIN recast.mCache \ {t} : recast'.mCache[u] = recast.mCache[u]
  BY <1>1, <1>2, <1>3, MeshStored DEF SceneInv
<1>5. \A u, m : ShowsScene(recast', u, m) <=> ShowsScene(recast, u, m)
  BY <1>4 DEF ShowsScene, ObjectsAt, StaticsAt
<1>6. CacheShows(recast', stale')
  <2> SUFFICES ASSUME NEW u \in DOMAIN recast'.mCache \ stale', IsServed(recast', u)
               PROVE  /\ recast.mRange # None /\ u \in recast.mRange
                      /\ u \notin recast.mChangedTiles
                           => ShowsScene(recast, u, recast'.mCache[u].mRecastMesh)
    BY <1>4, <1>5 DEF CacheShows
  <2>1. CASE u = t
    <3>1. ~reader[w].missed /\ t \in recast.mRange
      BY <1>1, <1>3, <2>1 DEF IsInRange
    <3>2. CopyShows(recast, reader[w])
      BY DEF CopiesInv
    <3> QED BY <1>1, <1>3, <1>4, <2>1, <3>1, <3>2 DEF CopyShows, TileOf
  <2>2. CASE u # t
    <3>1. u \in DOMAIN recast.mCache \ stale /\ recast'.mCache[u] = recast.mCache[u]
      BY <1>1, <1>4, <2>2
    <3>2. IsServed(recast, u)
      BY <3>1 DEF IsServed
    <3> QED BY <3>1, <3>2 DEF SceneInv, CacheShows
  <2> QED BY <2>1, <2>2
<1>7. SceneInv'
  <2>1. stale' \subseteq DOMAIN recast'.mCache
    BY <1>1, <1>4 DEF SceneInv
  <2> QED BY <1>1, <1>4, <1>6, <2>1 DEF SceneInv, managerVars, sceneVars
<1>8. reader' = [reader EXCEPT ![w] = d]
  BY DEF PutMesh, Goto, ThreadsInv
<1>9. /\ d \in Reader /\ d.pc = "apply" /\ d.key = reader[w].key
      /\ d.orphan = reader[w].orphan /\ d.mesh = mesh
  BY <1>1 DEF Reader, ReaderPcs
<1> HIDE DEF d, mesh
<1>10. ThreadMoves(w, d)
  <2>1. reader[w].key # None /\ d.key # None
    BY <1>3, <1>9, ManagerAssumption DEF ManagerAssumption
  <2>2. ~d.orphan => mCache[d.key[1]] # None
    BY <1>1, <1>9 DEF ThreadsInv
  <2>3. \A k \in Keys : pending[k] = "expired" /\ d.key = k => d.orphan
    BY <1>9 DEF ThreadsInv, Work
  <2> QED BY <1>1, <1>2, <1>3, <1>4, <1>8, <1>9, <2>1, <2>2, <2>3
          DEF ThreadMoves, ThreadsInv, managerVars, sceneVars, agentVars
<1>11. ThreadsInv'
  BY <1>10, ThreadsOfThread
<1>12. CopiesInv'
  BY <1>4, <1>8, <1>9, CopiesOfThread
<1> QED BY <1>7, <1>11, <1>12

LEMMA CacheOfReportChange ==
    ASSUME CacheInv, NEW w \in Readers, ReportChange(w)
    PROVE  CacheInv'
<1> DEFINE v == reader[w].mesh.mVersion
<1> USE DEF CacheInv
<1>1. /\ reader[w].pc = "report" /\ ~At(w, {"idle"}) /\ At(w, HasMesh) /\ reader[w] \in Reader
      /\ recast' = ReportNavMeshChange(recast, TileOf(w), v, reader[w].version)
      /\ reader' = [reader EXCEPT ![w] = IdleReader]
      /\ UNCHANGED <<managerVars, pending, navMesh, stale, lost>>
  BY DEF ReportChange, At, HasMesh, ThreadsInv, Done
<1>2. v \in Version /\ reader[w].version \in Version \cup {None}
  <2>1. reader[w].mesh \in RecastMesh
    BY <1>1, MeshOfThread
  <2> QED BY <1>1, <2>1 DEF RecastMesh, Reader
<1> HIDE DEF v
<1>3. /\ IsManager(recast) /\ IsManager(recast') /\ Changes(recast, recast')
      /\ recast'.mStatics = recast.mStatics /\ recast'.mRevision = recast.mRevision
  <2>1. IsManager(recast)
    BY DEF SceneInv
  <2>2. PICK r : r = recast
    OBVIOUS
  <2>3. LET s == ReportNavMeshChange(r, TileOf(w), v, reader[w].version) IN
          IsManager(s) /\ Changes(r, s) /\ s.mStatics = r.mStatics /\ s.mRevision = r.mRevision
    BY <1>2, <2>1, <2>2, ChangeReported
  <2> QED BY <1>1, <2>1, <2>2, <2>3
<1>4. SceneInv'
  <2>1. CacheShows(recast', stale')
    BY <1>1, <1>3, CacheChanges DEF SceneInv
  <2>2. recast'.mChangedTiles = recast.mChangedTiles
    BY <1>3 DEF Changes, IsManager
  <2> QED BY <1>1, <1>3, <2>1, <2>2 DEF SceneInv, Changes, managerVars, sceneVars
<1>5. ThreadsInv'
  <2>1. recast.mRange # None /\ recast'.mRange = recast.mRange
    BY <1>1, <1>3, RangeKnown DEF Changes
  <2>2. ThreadMoves(w, IdleReader)
    BY <1>1, <2>1, IdleIsReader, ManagerAssumption
       DEF ThreadMoves, ThreadsInv, managerVars, sceneVars, agentVars, HasMesh, ManagerAssumption
  <2> QED BY <2>2, ThreadsOfThread
<1>6. ASSUME NEW u \in Readers PROVE CopyShows(recast', reader'[u])
  <2>1. CASE u = w
    BY <1>1, <2>1, IdleIsReader DEF CopyShows, ThreadsInv
  <2>2. CASE u # w
    <3>1. reader'[u] = reader[u] /\ CopyShows(recast, reader[u])
      BY <1>1, <2>2 DEF ThreadsInv, CopiesInv
    <3>2. reader[u].pc \in {"make", "store"} => reader[u].key \in Keys
      BY KeyOfThread DEF At
    <3> QED BY <1>3, <3>1, <3>2, CopyChanges
  <2> QED BY <2>1, <2>2
<1> QED BY <1>4, <1>5, <1>6 DEF CopiesInv

-----------------------------------------------------------------------------
(* The served meshes show the scene                                        *)

LEMMA CacheOfReader ==
    ASSUME CacheInv, NEW w \in Readers, ReaderStep(w)
    PROVE  CacheInv'
BY CacheOfTakeJob, CacheOfProcessJob, CacheOfRemoveFarTile, CacheOfLookupMesh,
   CacheOfBuildMesh, CacheOfPutMesh, CacheOfMarkAsEmpty, CacheOfUpdateTile,
   CacheOfReadVersion, CacheOfReportChange DEF ReaderStep

(* The steps of the main thread, by what they do to the scene.             *)
AgentStep ==
    \/ \E a \in Agents : AddAgent(a) \/ ResetAgent(a) \/ Collect(a)
    \/ Post \/ EndUpdate

LEMMA MainKinds ==
    ASSUME SceneInv, ThreadsInv, MainStep
    PROVE  SceneChanges \/ Updates \/ UpdatesAnew \/ Enters \/ EntersAnew \/ AgentStep
<1>1. CASE \E o \in Objects, x \in Transforms : InsertObject(o, x)
  BY <1>1, InsertKind
<1>2. CASE \E o \in Objects : DeleteObject(o)
  BY <1>2, DeleteKind
<1>3. CASE \E p \in PlayerTiles : UpdateNavigator(p)
  BY <1>3, NavigatorKind
<1>4. ASSUME NEW w \in Worldspaces, NEW p \in PlayerTiles,
             NEW cells \in (SUBSET {c \in Cells : WorldspaceOf[c] = w}) \ {{}},
             ChangeCellGrid(w, cells, p) \/ ChangeToInteriorCell(w, cells, p)
      PROVE  Updates \/ UpdatesAnew \/ Enters \/ EntersAnew
  <2>1. cells \in SUBSET Cells /\ \A c \in cells : WorldspaceOf[c] = w
    OBVIOUS
  <2> QED BY <1>4, <2>1, CellGridKind, InteriorKind
<1> QED BY <1>1, <1>2, <1>3, <1>4 DEF MainStep, AgentStep

LEMMA CacheOfAgentStep ==
    ASSUME CacheInv, AgentStep
    PROVE  CacheInv'
<1> USE DEF CacheInv
<1>1. ThreadsInv'
  BY ThreadsOfAddAgent, ThreadsOfResetAgent, ThreadsOfCollect, ThreadsOfPost,
     ThreadsOfEndUpdate DEF AgentStep
<1>2. SceneKept
  BY DEF AgentStep, AddAgent, ResetAgent, Collect, Post, EndUpdate, SceneKept, sceneVars
<1>3. SceneInv'
  BY <1>2, SceneOfKept
<1>4. CopiesInv'
  <2>1. CASE UNCHANGED reader
    BY <1>2, <2>1 DEF CopiesInv, SceneKept
  <2>2. CASE \E a \in Agents : ResetAgent(a)
    <3>1. ASSUME NEW w \in Readers PROVE CopyShows(recast, reader'[w])
      <4>1. reader'[w] = reader[w] \/ reader'[w] = [reader[w] EXCEPT !.orphan = TRUE]
        BY <2>2 DEF ResetAgent
      <4>2. reader[w] \in Reader
        BY DEF ThreadsInv
      <4>3. /\ reader'[w].pc = reader[w].pc /\ reader'[w].key = reader[w].key
            /\ reader'[w].mesh = reader[w].mesh /\ reader'[w].missed = reader[w].missed
        BY <4>1, <4>2 DEF Reader
      <4> QED BY <4>3 DEF CopiesInv, CopyShows
    <3> QED BY <1>2, <3>1 DEF CopiesInv, SceneKept
  <2> QED BY <2>1, <2>2 DEF AgentStep, AddAgent, Collect, Post, EndUpdate
<1> QED BY <1>1, <1>3, <1>4

LEMMA CacheOfMain ==
    ASSUME CacheInv, MainStep
    PROVE  CacheInv'
<1> USE DEF CacheInv
<1>1. CASE SceneChanges
  BY <1>1, SceneOfChanges, ThreadsOfChanges
<1>2. CASE Updates \/ UpdatesAnew
  <2>1. SceneStep /\ (MeshesKept \/ MeshesDropped)
    BY <1>2, UpdateIsSceneStep DEF Updates, UpdatesAnew
  <2> QED BY <1>2, <2>1, SceneOfUpdates, SceneOfUpdatesAnew, ThreadsOfStep
<1>3. CASE Enters \/ EntersAnew
  <2>1. SceneStep /\ (MeshesKept \/ MeshesDropped)
    BY <1>3, EntryIsSceneStep DEF Enters, EntersAnew
  <2> QED BY <1>3, <2>1, SceneOfEntry, ThreadsOfStep
<1>4. CASE AgentStep
  BY <1>4, CacheOfAgentStep
<1> QED BY <1>1, <1>2, <1>3, <1>4, MainKinds

LEMMA CacheOfStutter ==
    ASSUME CacheInv, UNCHANGED vars
    PROVE  CacheInv'
BY DEF CacheInv, vars, SceneInv, ThreadsInv, CopiesInv, At, Work, GuardFree

LEMMA CacheOfInit ==
    ASSUME Init
    PROVE  CacheInv
<1> USE DEF Init
<1>1. NoMap = [x \in {} |-> None] /\ DOMAIN NoMap = {}
  BY DEF NoMap
<1>2. IsManager(EmptyManager)
  BY <1>1 DEF IsManager, EmptyManager, ManagerFields, IsMap
<1>3. DOMAIN recast.mCache = {} /\ recast.mStatics = {} /\ recast.mRevision = 0
      /\ recast.mChangedTiles = {} /\ recast.mRange = None
  BY <1>1 DEF EmptyManager
<1>4. SceneInv
  BY <1>2, <1>3 DEF SceneInv, CacheShows
<1>5. ThreadsInv
  <2>1. Cardinality(Agents) \in Nat
    BY ManagerAssumption, FS_CardinalityType DEF ManagerAssumption
  <2>2. \A a \in Agents : AgentRank[a] \in Nat
    BY <2>1, ManagerAssumption DEF ManagerAssumption
  <2>3. mCache \in [Agents -> Version \cup {None}]
    BY <2>2 DEF Version
  <2>4. Free \in MainThread /\ Free.pc = "free" /\ Free.left = {} /\ Free.toPost = {}
    BY DEF Free, MainThread
  <2> QED BY <1>3, <2>1, <2>3, <2>4, IdleIsReader DEF ThreadsInv, At, Work, GuardFree, HasMesh
<1>6. CopiesInv
  BY IdleIsReader DEF CopiesInv, CopyShows
<1> QED BY <1>4, <1>5, <1>6 DEF CacheInv

LEMMA CacheOfNext ==
    ASSUME CacheInv, [Next]_vars
    PROVE  CacheInv'
BY CacheOfMain, CacheOfReader, CacheOfStutter DEF Next, BoundReached

LEMMA CacheAlways == Spec => []CacheInv
<1>1. Init => CacheInv
  BY CacheOfInit
<1>2. CacheInv /\ [Next]_vars => CacheInv'
  BY CacheOfNext
<1> QED BY <1>1, <1>2, PTL DEF Spec

(* The manager's state keeps its types, the last update the manager knows  *)
(* of is never ahead of the scene, and no two threads work on one key:     *)
(* what NavMeshManager, the recast mesh manager and the updater's locked   *)
(* tiles rely on, for any number of agents, threads, tiles and cells.      *)
THEOREM ManagerTypes == Spec => []TypeOK
<1>1. CacheInv => TypeOK
  BY DEF CacheInv, SceneInv, ThreadsInv, TypeOK, IsManager, IsMap, Reader
<1> QED BY <1>1, CacheAlways, PTL

(* The mesh getMesh returns from its cache shows the scene of its tile,    *)
(* unless the tile has changed and no update has taken the change, or the  *)
(* mesh was stored by a thread that had copied an older scene.             *)
THEOREM ServedMeshes == Spec => []ServedMeshShowsSceneUnlessStale
<1>1. CacheInv => ServedMeshShowsSceneUnlessStale
  BY DEF CacheInv, SceneInv, CacheShows, ServedMeshShowsSceneUnlessStale, IsServed
<1> QED BY <1>1, CacheAlways, PTL

-----------------------------------------------------------------------------
(* The navigation mesh, where the scene stays                              *)

(* The scene is what the last step left, but for meshes and reports.       *)
SameScene ==
    /\ recast'.mRange = recast.mRange /\ recast'.mRevision = recast.mRevision
    /\ recast'.mObjects = recast.mObjects /\ recast'.mStatics = recast.mStatics
    /\ recast'.mChangedTiles = recast.mChangedTiles
    /\ UNCHANGED <<mPlayerTile, mLastRecastMeshManagerRevision>>

LEMMA SameView ==
    ASSUME SameScene
    PROVE  /\ \A t, mesh : ShowsScene(recast', t, mesh) <=> ShowsScene(recast, t, mesh)
           /\ \A t : HasInput(recast', t) <=> HasInput(recast, t)
           /\ \A t : IsInRange(recast', t) <=> IsInRange(recast, t)
           /\ LimitedObjectsRange(recast') = LimitedObjectsRange(recast)
BY DEF SameScene, ShowsScene, HasInput, ObjectsAt, StaticsAt, IsInRange,
       LimitedObjectsRange, LimitedTo

LEMMA WriteKept ==
    ASSUME SameScene, NEW w \in Readers, NEW k \in Keys, WriteIsRight(w, k),
           reader'[w] = reader[w],
           IsWriting(w) /\ reader[w].key = k /\ WillFollow(k) => WillFollow(k)'
    PROVE  WriteIsRight(w, k)'
<1>1. (IsWriting(w)' <=> IsWriting(w)) /\ \A pcs : At(w, pcs)' <=> At(w, pcs)
  BY DEF IsWriting, At
<1>2. IsDirty(k)' <=> IsDirty(k)
  BY DEF IsDirty, SameScene
<1>3. recast'.mRange = recast.mRange
  BY DEF SameScene
<1> QED BY <1>1, <1>2, <1>3, SameView DEF WriteIsRight

LEMMA KeyKept ==
    ASSUME SameScene, NEW k \in Keys, navMesh'[k] = navMesh[k],
           mCache'[k[1]] = None <=> mCache[k[1]] = None,
           IsAwaited(k) \/ IsBuilt(k) => IsAwaited(k)' \/ IsBuilt(k)'
    PROVE  /\ TileIsRight(k) => TileIsRight(k)'
           /\ GapIsRight(k) => GapIsRight(k)'
<1>1. IsDirty(k)' <=> IsDirty(k)
  BY DEF IsDirty, SameScene
<1>2. FollowsScene(k)' <=> FollowsScene(k)
  BY SameView DEF FollowsScene, IsPresent
<1>3. IsWanted(k)' <=> IsWanted(k)
  BY SameView DEF IsWanted, SameScene
<1> QED BY <1>1, <1>2, <1>3 DEF TileIsRight, GapIsRight, SameScene

LEMMA AwaitedKept ==
    ASSUME SameScene, NEW k \in Keys, main' = main, pending'[k] = pending[k]
    PROVE  /\ WillFollow(k)' <=> WillFollow(k)
           /\ navMesh'[k] = navMesh[k] => (IsAwaited(k)' <=> IsAwaited(k))
<1>1. WillFollow(k)' <=> WillFollow(k)
  BY DEF WillFollow, SameScene
<1>2. ASSUME navMesh'[k] = navMesh[k] PROVE IsAwaited(k)' <=> IsAwaited(k)
  <2>1. k = <<k[1], k[2]>>
    BY DEF Keys
  <2>2. (k[2] \in TilesToPost(k[1]))' <=> k[2] \in TilesToPost(k[1])
    BY <1>2, <2>1, SameView DEF TilesToPost, SameScene
  <2> QED BY <2>2 DEF IsAwaited
<1> QED BY <1>1, <1>2

LEMMA FollowIsAwaited ==
    ASSUME ThreadsInv, NEW k \in Keys, WillFollow(k)
    PROVE  IsAwaited(k)
<1>1. main.changed \subseteq Tiles
  BY DEF ThreadsInv, MainThread
<1> QED BY <1>1 DEF WillFollow, IsAwaited, TilesToPost

(* A step of w, which can only touch the tile of its own key.              *)
LEMMA StepOfThread ==
    ASSUME ThreadsInv, MeshInv, SameScene, main' = main, pending' = pending,
           NEW w \in Readers, NEW d, reader' = [reader EXCEPT ![w] = d],
           NEW key, key = reader[w].key,
           \A k \in Keys \ {key} : navMesh'[k] = navMesh[k] /\ (k \in lost' <=> k \in lost),
           \A a \in Agents : mCache'[a] = None <=> mCache[a] = None,
           \A k \in Keys : WriteIsRight(w, k)',
           key \in Keys \ lost' => TileIsRight(key)' /\ GapIsRight(key)'
    PROVE  MeshInv'
<1>1. reader'[w] = d /\ \A v \in Readers \ {w} : reader'[v] = reader[v]
  BY DEF ThreadsInv
<1>2. ASSUME NEW v \in Readers, NEW k \in Keys PROVE WriteIsRight(v, k)'
  <2>1. CASE v = w
    BY <2>1
  <2>2. CASE v # w
    <3>1. reader'[v] = reader[v] /\ WriteIsRight(v, k)
      BY <1>1, <2>2 DEF MeshInv, WritesInv
    <3>2. WillFollow(k) => WillFollow(k)'
      BY AwaitedKept
    <3> QED BY <3>1, <3>2, WriteKept
  <2> QED BY <2>1, <2>2
<1>3. ASSUME NEW k \in Keys \ lost' PROVE TileIsRight(k)' /\ GapIsRight(k)'
  <2>1. CASE k = key
    BY <2>1
  <2>2. CASE k # key
    <3>1. k \notin lost /\ navMesh'[k] = navMesh[k]
      BY <2>2
    <3>2. IsAwaited(k) => IsAwaited(k)'
      BY <3>1, AwaitedKept
    <3>3. IsBuilt(k) => IsBuilt(k)'
      BY <1>1, <2>2 DEF IsBuilt, Work, At
    <3>4. k[1] \in Agents
      BY TileIsTile
    <3> QED BY <3>1, <3>2, <3>3, <3>4, KeyKept DEF MeshInv, PresentInv, AbsentInv
  <2> QED BY <2>1, <2>2
<1> QED BY <1>2, <1>3 DEF MeshInv, WritesInv, PresentInv, AbsentInv

(* A step of w that does not touch the mesh, and goes on with its job.     *)
LEMMA MeshUntouched ==
    ASSUME ThreadsInv, MeshInv, SameScene, main' = main, pending' = pending,
           NEW w \in Readers, NEW d, reader' = [reader EXCEPT ![w] = d],
           navMesh' = navMesh, lost' = lost,
           \A a \in Agents : mCache'[a] = None <=> mCache[a] = None,
           \A k \in Keys : WriteIsRight(w, k)',
           \/ reader[w].orphan \/ ~At(w, InProgress)
           \/ d.key = reader[w].key /\ ~d.orphan /\ d.pc \in InProgress
    PROVE  MeshInv'
<1>0. PICK key : key = reader[w].key
  OBVIOUS
<1>1. reader'[w] = d /\ \A v \in Readers \ {w} : reader'[v] = reader[v]
  BY DEF ThreadsInv
<1>2. ASSUME key \in Keys \ lost' PROVE TileIsRight(key)' /\ GapIsRight(key)'
  <2>1. key[1] \in Agents
    BY <1>2, TileIsTile
  <2>2. IsAwaited(key) => IsAwaited(key)'
    BY <1>2, AwaitedKept
  <2>3. IsBuilt(key) => IsBuilt(key)'
    <3> SUFFICES ASSUME IsBuilt(key) PROVE IsBuilt(key)'
      OBVIOUS
    <3>1. PICK v \in Work(key) : ~reader[v].orphan /\ At(v, InProgress)
      BY DEF IsBuilt
    <3>2. CASE v = w
      <4>1. d.key = reader[w].key /\ ~d.orphan /\ d.pc \in InProgress
        BY <3>1, <3>2
      <4>2. w \in Readers /\ reader'[w].key = key /\ ~reader'[w].orphan
            /\ reader'[w].pc \in InProgress
        BY <1>0, <1>1, <4>1
      <4> QED BY <4>2 DEF IsBuilt, Work, At
    <3>3. CASE v # w
      BY <1>0, <1>1, <3>1, <3>3 DEF IsBuilt, Work, At
    <3> QED BY <3>2, <3>3
  <2> QED BY <1>2, <2>1, <2>2, <2>3, KeyKept DEF MeshInv, PresentInv, AbsentInv
<1>3. \A k \in Keys \ {key} : navMesh'[k] = navMesh[k] /\ (k \in lost' <=> k \in lost)
  OBVIOUS
<1> QED BY <1>0, <1>2, <1>3, StepOfThread

LEMMA NoWrite ==
    ASSUME NEW w, NEW d, reader'[w] = d,
           d.pc \notin {"make", "store", "apply", "empty"} \/ d.orphan \/ d.tainted
    PROVE  \A k \in Keys : WriteIsRight(w, k)'
BY DEF WriteIsRight, IsWriting, At

LEMMA MeshOfTakeJob ==
    ASSUME CacheInv, MeshInv, NEW w \in Readers, NEW key \in Keys, TakeJob(w, key)
    PROVE  MeshInv'
<1>1. /\ reader[w].pc = "idle" /\ Work(key) = {} /\ reader[w] \in Reader
      /\ pending' = [pending EXCEPT ![key] = "none"]
      /\ UNCHANGED <<recast, managerVars, navMesh, stale, lost>>
  BY DEF TakeJob, CacheInv, ThreadsInv
<1>2. SameScene /\ main' = main /\ mCache' = mCache
  BY <1>1 DEF SameScene, managerVars, sceneVars, agentVars
<1>3. /\ reader'[w].pc = "loaded" /\ reader'[w].key = key
      /\ reader'[w].orphan = (pending[key] = "expired")
      /\ \A v \in Readers \ {w} : reader'[v] = reader[v]
  BY <1>1 DEF TakeJob, CacheInv, ThreadsInv, Reader
<1>4. \A j \in Keys \ {key} : pending'[j] = pending[j]
  BY <1>1 DEF CacheInv, ThreadsInv
<1>5. ASSUME NEW v \in Readers, NEW k \in Keys PROVE WriteIsRight(v, k)'
  <2>1. CASE v = w
    BY <1>3, <2>1, NoWrite
  <2>2. CASE v # w
    <3>1. reader'[v] = reader[v] /\ WriteIsRight(v, k)
      BY <1>3, <2>2 DEF MeshInv, WritesInv
    <3>2. reader[v].key = k => k # key
      BY <1>1 DEF Work
    <3>3. IsWriting(v) /\ reader[v].key = k /\ WillFollow(k) => WillFollow(k)'
      BY <1>2, <1>4, <3>2, AwaitedKept
    <3> QED BY <1>2, <3>1, <3>3, WriteKept
  <2> QED BY <2>1, <2>2
<1>6. ASSUME NEW k \in Keys \ lost' PROVE TileIsRight(k)' /\ GapIsRight(k)'
  <2>1. k \notin lost /\ navMesh'[k] = navMesh[k]
    BY <1>1
  <2>2. CASE k = key
    <3>1. ~IsBuilt(k)
      BY <1>1, <2>2 DEF IsBuilt
    <3>2. CASE pending[k] = "live"
      <4>1. w \in Readers /\ reader'[w].key = k /\ ~reader'[w].orphan
            /\ reader'[w].pc \in InProgress
        BY <1>3, <2>2, <3>2 DEF InProgress
      <4>2. IsBuilt(k)'
        BY <4>1 DEF IsBuilt, Work, At
      <4> QED BY <1>2, <2>1, <4>2, KeyKept DEF MeshInv, PresentInv, AbsentInv
    <3>3. CASE pending[k] # "live"
      <4>1. k = <<k[1], k[2]>>
        BY DEF Keys
      <4>2. (k[2] \in TilesToPost(k[1]))' <=> k[2] \in TilesToPost(k[1])
        BY <1>2, <2>1, <4>1, SameView DEF TilesToPost, SameScene
      <4>3. IsAwaited(k) => IsAwaited(k)'
        BY <1>2, <3>3, <4>2 DEF IsAwaited
      <4> QED BY <1>2, <2>1, <3>1, <4>3, KeyKept DEF MeshInv, PresentInv, AbsentInv
    <3> QED BY <3>2, <3>3
  <2>3. CASE k # key
    <3>1. IsAwaited(k) => IsAwaited(k)'
      BY <1>2, <1>4, <2>1, <2>3, AwaitedKept
    <3>2. reader[w].key # k
      BY <1>1, ManagerAssumption DEF CacheInv, ThreadsInv, At, ManagerAssumption
    <3>3. IsBuilt(k) => IsBuilt(k)'
      BY <1>3, <3>2 DEF IsBuilt, Work, At
    <3> QED BY <1>2, <2>1, <3>1, <3>3, KeyKept DEF MeshInv, PresentInv, AbsentInv
  <2> QED BY <2>2, <2>3
<1> QED BY <1>5, <1>6 DEF MeshInv, WritesInv, PresentInv, AbsentInv

LEMMA MeshOfProcessJob ==
    ASSUME CacheInv, MeshInv, NEW w \in Readers, ProcessJob(w)
    PROVE  MeshInv'
<1>1. /\ reader[w].pc = "loaded" /\ reader[w] \in Reader /\ ThreadsInv
      /\ UNCHANGED <<recast, managerVars, pending, navMesh, stale, lost>>
  BY DEF ProcessJob, CacheInv, ThreadsInv
<1>2. SameScene /\ main' = main /\ mCache' = mCache
  BY <1>1 DEF SameScene, managerVars, sceneVars, agentVars
<1>3. CASE reader[w].orphan /\ Done(w)
  <2>1. reader' = [reader EXCEPT ![w] = IdleReader] /\ reader'[w] = IdleReader
    BY <1>1, <1>3 DEF Done, ThreadsInv
  <2>2. \A k \in Keys : WriteIsRight(w, k)'
    BY <2>1, IdleIsReader, NoWrite
  <2> QED BY <1>1, <1>2, <1>3, <2>1, <2>2, MeshUntouched
<1>4. CASE ~reader[w].orphan /\ (Goto(w, "lookup") \/ Goto(w, "far"))
  <2>1. PICK pc \in {"lookup", "far"} : Goto(w, pc)
    BY <1>4
  <2> DEFINE d == [reader[w] EXCEPT !.pc = pc]
  <2>2. reader' = [reader EXCEPT ![w] = d] /\ reader'[w] = d
    BY <1>1, <2>1 DEF Goto, ThreadsInv
  <2>3. d.pc = pc /\ d.key = reader[w].key /\ d.orphan = reader[w].orphan
    BY <1>1 DEF Reader
  <2> HIDE DEF d
  <2>4. \A k \in Keys : WriteIsRight(w, k)'
    BY <2>2, <2>3, NoWrite
  <2> QED BY <1>1, <1>2, <1>4, <2>2, <2>3, <2>4, MeshUntouched DEF InProgress
<1> QED BY <1>3, <1>4 DEF ProcessJob

LEMMA MeshOfReadVersion ==
    ASSUME CacheInv, MeshInv, NEW w \in Readers, ReadVersion(w)
    PROVE  MeshInv'
<1>1. /\ reader[w].pc = "version" /\ reader[w] \in Reader /\ ThreadsInv
      /\ UNCHANGED <<recast, managerVars, pending, navMesh, stale, lost>>
  BY DEF ReadVersion, CacheInv, ThreadsInv
<1>2. SameScene /\ main' = main /\ mCache' = mCache
  BY <1>1 DEF SameScene, managerVars, sceneVars, agentVars
<1> DEFINE version == IF reader[w].orphan THEN reader[w].version
                      ELSE mCache[reader[w].key[1]]
           d == [reader[w] EXCEPT !.pc = "report", !.version = version]
<1>3. reader' = [reader EXCEPT ![w] = d] /\ reader'[w] = d
  BY <1>1 DEF ReadVersion, ThreadsInv
<1>4. d.pc = "report"
  BY <1>1 DEF Reader
<1> HIDE DEF d
<1>5. \A k \in Keys : WriteIsRight(w, k)'
  BY <1>3, <1>4, NoWrite
<1>6. ~At(w, InProgress)
  BY <1>1 DEF At, InProgress
<1> QED BY <1>1, <1>2, <1>3, <1>5, <1>6, MeshUntouched

LEMMA MeshOfLookupMesh ==
    ASSUME CacheInv, MeshInv, NEW w \in Readers, LookupMesh(w)
    PROVE  MeshInv'
<1> DEFINE t == TileOf(w)
<1>1. /\ reader[w].pc = "lookup" /\ ~At(w, {"idle"}) /\ reader[w] \in Reader /\ ThreadsInv
      /\ UNCHANGED <<recast, managerVars, pending, navMesh, stale, lost>>
  BY DEF LookupMesh, CacheInv, ThreadsInv, At
<1>2. SameScene /\ main' = main /\ mCache' = mCache
  BY <1>1 DEF SameScene, managerVars, sceneVars, agentVars
<1>3. PICK d : /\ reader' = [reader EXCEPT ![w] = d] /\ d \in Reader
               /\ d.key = reader[w].key /\ d.orphan = reader[w].orphan
               /\ d.pc \in {"empty", "apply", "make"}
               /\ d.pc = "empty" => d.tainted
               /\ d.pc = "apply" => /\ IsServed(recast, t)
                                    /\ d.mesh = recast.mCache[t].mRecastMesh
                                    /\ d.tainted = (t \in stale)
               /\ d.pc = "make" => IsInRange(recast, t)
  <2>1. CASE reader' = [reader EXCEPT ![w].pc = "empty", ![w].tainted = TRUE]
    <3> DEFINE d == [reader[w] EXCEPT !.pc = "empty", !.tainted = TRUE]
    <3>1. reader' = [reader EXCEPT ![w] = d]
      BY <2>1 DEF CacheInv, ThreadsInv
    <3>2. d \in Reader /\ d.pc = "empty" /\ d.key = reader[w].key
          /\ d.orphan = reader[w].orphan /\ d.tainted
      BY <1>1 DEF Reader, ReaderPcs
    <3> HIDE DEF d
    <3> QED BY <3>1, <3>2
  <2>2. CASE /\ IsServed(recast, t)
             /\ reader' = [reader EXCEPT ![w].pc = "apply",
                                         ![w].mesh = recast.mCache[t].mRecastMesh,
                                         ![w].tainted = t \in stale]
    <3> DEFINE mesh == recast.mCache[t].mRecastMesh
               tainted == t \in stale
               d == [reader[w] EXCEPT !.pc = "apply", !.mesh = mesh, !.tainted = tainted]
    <3>1. reader' = [reader EXCEPT ![w] = d]
      BY <2>2 DEF CacheInv, ThreadsInv
    <3>2. mesh \in RecastMesh
      BY <2>2 DEF CacheInv, SceneInv, IsManager, IsMap, CachedTile, IsServed
    <3>3. tainted \in BOOLEAN
      OBVIOUS
    <3> HIDE DEF mesh, tainted
    <3>4. d \in Reader /\ d.pc = "apply" /\ d.key = reader[w].key /\ d.mesh = mesh
          /\ d.orphan = reader[w].orphan /\ d.tainted = tainted
      BY <1>1, <3>2, <3>3 DEF Reader, ReaderPcs
    <3> HIDE DEF d
    <3> QED BY <2>2, <3>1, <3>4 DEF mesh, tainted
  <2>3. CASE Goto(w, "make") /\ IsInRange(recast, t)
    <3> DEFINE d == [reader[w] EXCEPT !.pc = "make"]
    <3>1. reader' = [reader EXCEPT ![w] = d]
      BY <2>3 DEF Goto, CacheInv, ThreadsInv
    <3>2. d \in Reader /\ d.pc = "make" /\ d.key = reader[w].key /\ d.orphan = reader[w].orphan
      BY <1>1 DEF Reader, ReaderPcs
    <3> HIDE DEF d
    <3> QED BY <2>3, <3>1, <3>2
  <2> QED BY <2>1, <2>2, <2>3 DEF LookupMesh
<1>4. reader'[w] = d
  BY <1>1, <1>3 DEF ThreadsInv
<1>5. ASSUME NEW k \in Keys PROVE WriteIsRight(w, k)'
  <2> SUFFICES ASSUME ~d.tainted, d.key = k
               PROVE  /\ k[2] \in recast.mRange
                      /\ d.pc = "apply" => IsDirty(k) \/ ShowsScene(recast, k[2], d.mesh)
    BY <1>1, <1>3, <1>4 DEF WriteIsRight, IsWriting, At, IsDirty
  <2>1. t = k[2]
    BY <1>3 DEF TileOf
  <2>2. CASE d.pc = "make"
    BY <1>1, <1>3, <2>1, <2>2, RangeKnown DEF CacheInv, IsInRange
  <2>3. CASE d.pc = "apply"
    <3>1. t \in DOMAIN recast.mCache \ stale /\ IsServed(recast, t)
      BY <1>3, <2>3 DEF IsServed
    <3> QED BY <1>3, <2>1, <2>3, <3>1 DEF CacheInv, SceneInv, CacheShows, IsDirty
  <2> QED BY <1>3, <2>2, <2>3
<1>6. ~reader[w].orphan => ~d.orphan /\ d.pc \in InProgress
  BY <1>3 DEF InProgress
<1> QED BY <1>1, <1>2, <1>3, <1>5, <1>6, MeshUntouched

LEMMA MeshOfBuildMesh ==
    ASSUME CacheInv, MeshInv, NEW w \in Readers, BuildMesh(w)
    PROVE  MeshInv'
<1> DEFINE t == TileOf(w)
           mesh == MakeMesh(recast, t)
<1>1. /\ reader[w].pc = "make" /\ ~At(w, {"idle"}) /\ reader[w] \in Reader /\ ThreadsInv
      /\ UNCHANGED <<recast, managerVars, pending, navMesh, stale, lost>>
  BY DEF BuildMesh, CacheInv, ThreadsInv, At
<1>2. SameScene /\ main' = main /\ mCache' = mCache
  BY <1>1 DEF SameScene, managerVars, sceneVars, agentVars
<1>3. t \in Tiles /\ IsManager(recast)
  BY <1>1, KeyOfThread DEF CacheInv, SceneInv
<1>4. /\ mesh = None => ~HasInput(recast, t)
      /\ mesh # None => HasInput(recast, t) /\ ShowsScene(recast, t, mesh)
  BY <1>3, MeshMade DEF MakeMesh
<1> HIDE DEF mesh
<1>5. PICK d : /\ reader' = [reader EXCEPT ![w] = d]
               /\ d.key = reader[w].key /\ d.orphan = reader[w].orphan
               /\ d.tainted = reader[w].tainted
               /\ IF mesh = None THEN d.pc = "empty" ELSE d.pc = "store" /\ d.mesh = mesh
  <2>1. CASE mesh = None
    <3> DEFINE d == [reader[w] EXCEPT !.pc = "empty"]
    <3>1. reader' = [reader EXCEPT ![w] = d]
      BY <2>1 DEF BuildMesh, Goto, CacheInv, ThreadsInv, mesh
    <3>2. d.pc = "empty" /\ d.key = reader[w].key /\ d.orphan = reader[w].orphan
          /\ d.tainted = reader[w].tainted
      BY <1>1 DEF Reader
    <3> HIDE DEF d
    <3> QED BY <2>1, <3>1, <3>2
  <2>2. CASE mesh # None
    <3> DEFINE d == [reader[w] EXCEPT !.pc = "store", !.mesh = mesh]
    <3>1. reader' = [reader EXCEPT ![w] = d]
      BY <2>2 DEF BuildMesh, CacheInv, ThreadsInv, mesh
    <3>2. d.pc = "store" /\ d.key = reader[w].key /\ d.orphan = reader[w].orphan
          /\ d.tainted = reader[w].tainted /\ d.mesh = mesh
      BY <1>1 DEF Reader
    <3> HIDE DEF d
    <3> QED BY <2>2, <3>1, <3>2
  <2> QED BY <2>1, <2>2
<1>6. reader'[w] = d
  BY <1>1, <1>5 DEF ThreadsInv
<1>7. ASSUME NEW k \in Keys PROVE WriteIsRight(w, k)'
  <2> SUFFICES ASSUME ~d.tainted, ~d.orphan, d.key = k
               PROVE  /\ k[2] \in recast.mRange
                      /\ d.pc = "store" => ShowsScene(recast, k[2], d.mesh)
                      /\ d.pc = "empty" => ~HasInput(recast, k[2])
    BY <1>1, <1>5, <1>6 DEF WriteIsRight, IsWriting, At
  <2>1. t = k[2]
    BY <1>5 DEF TileOf
  <2>2. WriteIsRight(w, k) /\ IsWriting(w) /\ reader[w].key = k
    BY <1>1, <1>5 DEF MeshInv, WritesInv, IsWriting, At
  <2> QED BY <1>4, <1>5, <2>1, <2>2 DEF WriteIsRight
<1>8. d.pc \in InProgress
  BY <1>5 DEF InProgress
<1> QED BY <1>1, <1>2, <1>5, <1>7, <1>8, MeshUntouched

LEMMA MeshOfPutMesh ==
    ASSUME CacheInv, MeshInv, NEW w \in Readers, PutMesh(w)
    PROVE  MeshInv'
<1> DEFINE t == TileOf(w)
           d == [reader[w] EXCEPT !.pc = "apply"]
<1>1. /\ reader[w].pc = "store" /\ ~At(w, {"idle"}) /\ At(w, HasMesh) /\ reader[w] \in Reader
      /\ recast' = StoreMesh(recast, t, reader[w].mesh) /\ ThreadsInv
      /\ UNCHANGED <<managerVars, pending, navMesh, lost>>
  BY DEF PutMesh, At, HasMesh, CacheInv, ThreadsInv
<1>2. reader[w].mesh \in RecastMesh /\ ~IsEmptyMesh(reader[w].mesh)
  BY <1>1, MeshOfThread
<1>3. t \in Tiles /\ IsManager(recast)
  BY <1>1, KeyOfThread DEF CacheInv, SceneInv
<1>4. SameScene
  BY <1>1, <1>2, <1>3, MeshStored DEF SameScene, managerVars, sceneVars
<1>5. main' = main /\ mCache' = mCache
  BY <1>1 DEF managerVars, agentVars
<1>6. reader' = [reader EXCEPT ![w] = d] /\ reader'[w] = d
  BY <1>1 DEF PutMesh, Goto, ThreadsInv
<1>7. /\ d.pc = "apply" /\ d.key = reader[w].key /\ d.orphan = reader[w].orphan
      /\ d.tainted = reader[w].tainted /\ d.mesh = reader[w].mesh
  BY <1>1 DEF Reader
<1> HIDE DEF d
<1>8. ASSUME NEW k \in Keys PROVE WriteIsRight(w, k)'
  <2> SUFFICES ASSUME ~d.tainted, ~d.orphan, d.key = k
               PROVE  /\ k[2] \in recast.mRange
                      /\ IsDirty(k)' \/ WillFollow(k)' \/ ShowsScene(recast', k[2], d.mesh)
    BY <1>4, <1>6, <1>7 DEF WriteIsRight, IsWriting, At, SameScene
  <2>1. WriteIsRight(w, k) /\ IsWriting(w) /\ reader[w].key = k
    BY <1>1, <1>7 DEF MeshInv, WritesInv, IsWriting, At
  <2>2. k[2] \in recast.mRange
        /\ (IsDirty(k) \/ WillFollow(k) \/ ShowsScene(recast, k[2], d.mesh))
    BY <1>1, <1>7, <2>1 DEF WriteIsRight, At
  <2>3. /\ IsDirty(k) => IsDirty(k)'
        /\ WillFollow(k) => WillFollow(k)'
        /\ ShowsScene(recast, k[2], d.mesh) => ShowsScene(recast', k[2], d.mesh)
    BY <1>1, <1>4, <1>5, AwaitedKept, SameView DEF IsDirty, SameScene
  <2> QED BY <2>2, <2>3
<1>9. d.pc \in InProgress
  BY <1>7 DEF InProgress
<1> QED BY <1>1, <1>4, <1>5, <1>6, <1>7, <1>8, <1>9, MeshUntouched

(* A tile is written: it is right if the change is not lost.               *)
LEMMA StepOfWriter ==
    ASSUME CacheInv, MeshInv, NEW w \in Readers, ~At(w, {"idle"}),
           NEW value \in Contents \cup {None}, SetTile(w, value),
           NEW condition, lost' = LostIf(w, condition),
           NEW d, reader' = [reader EXCEPT ![w] = d], d.pc \in {"idle", "version"},
           UNCHANGED <<recast, sceneVars, mGenerationCounter, main, updaterTile, pending, stale>>,
           NEW key, key = reader[w].key,
           ~reader[w].orphan /\ key \notin lost' /\ navMesh'[key] = value
             => TileIsRight(key)' /\ GapIsRight(key)'
    PROVE  MeshInv'
<1>1. SameScene /\ main' = main /\ pending' = pending /\ ThreadsInv
  BY DEF SameScene, sceneVars, CacheInv
<1>2. /\ \A a \in Agents : mCache'[a] = None <=> mCache[a] = None
      /\ navMesh' \in [Keys -> Contents \cup {None}]
      /\ \A k \in Keys : navMesh'[k] = IF k = reader[w].key /\ ~reader[w].orphan
                                       THEN value ELSE navMesh[k]
  BY <1>1, TileSet
<1>3. reader'[w] = d
  BY <1>1 DEF ThreadsInv
<1>4. \A k \in Keys : WriteIsRight(w, k)'
  BY <1>3, NoWrite
<1>5. key \in Keys
  BY <1>1, KeyOfThread
<1>6. CASE reader[w].orphan
  <2>1. navMesh' = navMesh /\ lost' = lost
    BY <1>6 DEF SetTile, LostIf
  <2> QED BY <1>1, <1>2, <1>4, <1>6, <2>1, MeshUntouched
<1>7. CASE ~reader[w].orphan
  <2>1. \A k \in Keys \ {key} : navMesh'[k] = navMesh[k] /\ (k \in lost' <=> k \in lost)
    BY <1>2, <1>7 DEF LostIf
  <2>2. navMesh'[key] = value
    BY <1>2, <1>5, <1>7
  <2> QED BY <1>1, <1>2, <1>4, <1>7, <2>1, <2>2, StepOfThread
<1> QED BY <1>6, <1>7

LEMMA MeshOfRemoveFarTile ==
    ASSUME CacheInv, MeshInv, NEW w \in Readers, RemoveFarTile(w)
    PROVE  MeshInv'
<1>1. /\ ~At(w, {"idle"}) /\ SetTile(w, None)
      /\ reader' = [reader EXCEPT ![w] = IdleReader]
      /\ lost' = LostIf(w, mPlayerTile # None /\ TileOf(w) \in Near[mPlayerTile])
      /\ UNCHANGED <<recast, sceneVars, mGenerationCounter, main, updaterTile, pending, stale>>
  BY DEF RemoveFarTile, At, Done
<1>2. PICK key : key = reader[w].key
  OBVIOUS
<1>3. ASSUME ~reader[w].orphan, key \notin lost', navMesh'[key] = None
      PROVE  TileIsRight(key)' /\ GapIsRight(key)'
  <2>1. key[2] = TileOf(w) /\ mPlayerTile' = mPlayerTile
    BY <1>1, <1>2 DEF TileOf, sceneVars
  <2>2. ~(mPlayerTile # None /\ TileOf(w) \in Near[mPlayerTile])
    BY <1>1, <1>2, <1>3 DEF LostIf
  <2> QED BY <1>3, <2>1, <2>2 DEF TileIsRight, GapIsRight, IsWanted
<1> QED BY <1>1, <1>2, <1>3, IdleIsReader, StepOfWriter

(* An untainted thread at its write, and what it is about to write.        *)
LEMMA AboutToWrite ==
    ASSUME CacheInv, MeshInv, NEW w \in Readers, ~reader[w].orphan, ~reader[w].tainted,
           At(w, {"apply", "empty"}), NEW key, key = reader[w].key,
           recast' = recast, main' = main, pending' = pending, mPlayerTile' = mPlayerTile
    PROVE  /\ key[2] \in recast'.mRange
           /\ \/ IsAwaited(key)' \/ IsDirty(key)'
              \/ At(w, {"apply"}) /\ ShowsScene(recast', key[2], reader[w].mesh)
              \/ At(w, {"empty"}) /\ ~HasInput(recast', key[2])
<1>1. key \in Keys /\ ThreadsInv
  BY KeyOfThread DEF At, CacheInv
<1>2. WriteIsRight(w, key) /\ IsWriting(w)
  BY <1>1 DEF MeshInv, WritesInv, IsWriting, At
<1>3. WillFollow(key) => IsAwaited(key)'
  <2>1. main.changed \subseteq Tiles
    BY <1>1 DEF ThreadsInv, MainThread
  <2> QED BY <2>1 DEF WillFollow, IsAwaited, TilesToPost
<1>4. IsDirty(key) => IsDirty(key)'
  BY DEF IsDirty
<1> QED BY <1>2, <1>3, <1>4 DEF WriteIsRight, At

LEMMA MeshOfMarkAsEmpty ==
    ASSUME CacheInv, MeshInv, NEW w \in Readers, MarkAsEmpty(w)
    PROVE  MeshInv'
<1>1. /\ ~At(w, {"idle"}) /\ At(w, {"empty"}) /\ SetTile(w, EmptyTile)
      /\ reader' = [reader EXCEPT ![w] = IdleReader]
      /\ lost' = LostIf(w, reader[w].tainted)
      /\ UNCHANGED <<recast, sceneVars, mGenerationCounter, main, updaterTile, pending, stale>>
  BY DEF MarkAsEmpty, At, Done
<1>2. PICK key : key = reader[w].key
  OBVIOUS
<1>3. ASSUME ~reader[w].orphan, key \notin lost', navMesh'[key] = EmptyTile
      PROVE  TileIsRight(key)' /\ GapIsRight(key)'
  <2>0. ~reader[w].tainted
    BY <1>1, <1>2, <1>3 DEF LostIf
  <2>1. key[2] \in recast'.mRange
        /\ (IsAwaited(key)' \/ IsDirty(key)' \/ ~HasInput(recast', key[2]))
    BY <1>1, <1>2, <1>3, <2>0, AboutToWrite DEF sceneVars, At
  <2>2. ~HasInput(recast', key[2]) => FollowsScene(key)'
    BY <1>3 DEF FollowsScene, IsPresent
  <2>3. EmptyTile # None
    BY EmptyTileIsContents, SceneAssumption DEF SceneAssumption
  <2> QED BY <1>3, <2>1, <2>2, <2>3 DEF TileIsRight, GapIsRight
<1> QED BY <1>1, <1>2, <1>3, IdleIsReader, EmptyTileIsContents, StepOfWriter

LEMMA MeshOfUpdateTile ==
    ASSUME CacheInv, MeshInv, NEW w \in Readers, UpdateTile(w)
    PROVE  MeshInv'
<1> DEFINE mesh == reader[w].mesh
           tile == [objects |-> mesh.objects, statics |-> mesh.statics]
           d == [reader[w] EXCEPT !.pc = "version"]
<1>1. /\ ~At(w, {"idle"}) /\ At(w, HasMesh) /\ At(w, {"apply"}) /\ SetTile(w, tile)
      /\ reader[w] \in Reader /\ ThreadsInv
      /\ lost' = LostIf(w, reader[w].tainted)
      /\ UNCHANGED <<recast, sceneVars, mGenerationCounter, main, updaterTile, pending, stale>>
  BY DEF UpdateTile, At, HasMesh, CacheInv, ThreadsInv
<1>2. reader' = [reader EXCEPT ![w] = d] /\ d.pc = "version"
  BY <1>1 DEF UpdateTile, Goto, ThreadsInv, Reader
<1>3. PICK key : key = reader[w].key
  OBVIOUS
<1>4. tile \in Contents \ {EmptyTile, None} /\ ~IsEmptyMesh(mesh)
  BY <1>1, MeshOfThread
<1>5. tile.objects = mesh.objects /\ tile.statics = mesh.statics
  OBVIOUS
<1> HIDE DEF tile, d
<1>6. ASSUME ~reader[w].orphan, key \notin lost', navMesh'[key] = tile
      PROVE  TileIsRight(key)' /\ GapIsRight(key)'
  <2>0. ~reader[w].tainted
    BY <1>1, <1>3, <1>6 DEF LostIf
  <2>1. key[2] \in recast'.mRange
        /\ (IsAwaited(key)' \/ IsDirty(key)' \/ ShowsScene(recast', key[2], mesh))
    BY <1>1, <1>3, <1>6, <2>0, AboutToWrite DEF sceneVars, At
  <2>2. ASSUME ShowsScene(recast', key[2], mesh) PROVE FollowsScene(key)'
    <3>1. HasInput(recast', key[2])
      BY <1>4, <2>2 DEF ShowsScene, HasInput, IsEmptyMesh
    <3>2. ShowsScene(recast', key[2], tile)
      BY <1>5, <2>2 DEF ShowsScene
    <3> QED BY <1>4, <1>6, <3>1, <3>2 DEF FollowsScene, IsPresent
  <2> QED BY <1>4, <1>6, <2>1, <2>2 DEF TileIsRight, GapIsRight
<1> QED BY <1>1, <1>2, <1>3, <1>4, <1>6, StepOfWriter

-----------------------------------------------------------------------------
(* The navigation mesh, when the scene changes                             *)

(* What changes is dirty until an update takes it.                         *)
LEMMA MeshOfChange ==
    ASSUME SceneInv, ThreadsInv, MeshInv, GuardFree,
           IsManager(recast'), Changes(recast, recast'),
           UNCHANGED <<mPlayerTile, mLastRecastMeshManagerRevision, main, pending, navMesh>>,
           mCache' = mCache, lost \subseteq lost',
           \A v \in Readers : IsWriting(v)' => reader'[v] = reader[v],
           \A k \in Keys : IsBuilt(k) => IsBuilt(k)'
    PROVE  MeshInv'
<1>1. /\ recast'.mRange = recast.mRange /\ recast.mChangedTiles \subseteq recast'.mChangedTiles
      /\ IsManager(recast) /\ main.left = {}
  BY DEF Changes, SceneInv, ThreadsInv
<1>2. ASSUME NEW t \in Tiles, IsInRange(recast, t), t \notin recast'.mChangedTiles
      PROVE  /\ HasInput(recast', t) <=> HasInput(recast, t)
             /\ \A mesh : ShowsScene(recast', t, mesh) <=> ShowsScene(recast, t, mesh)
  <2>1. SameTile(recast, recast', t)
    BY <1>2 DEF Changes
  <2> QED BY <2>1, SameShown
<1>3. ASSUME NEW k \in Keys
      PROVE  /\ WillFollow(k)' <=> WillFollow(k)
             /\ IsAwaited(k) => IsAwaited(k)'
             /\ IsDirty(k) => IsDirty(k)'
  BY <1>1 DEF WillFollow, IsAwaited, IsDirty
<1>4. ASSUME NEW v \in Readers, NEW k \in Keys PROVE WriteIsRight(v, k)'
  <2> SUFFICES ASSUME IsWriting(v)', reader'[v].key = k PROVE WriteIsRight(v, k)'
    BY DEF WriteIsRight
  <2>1. reader'[v] = reader[v] /\ WriteIsRight(v, k)
    BY DEF MeshInv, WritesInv
  <2>2. IsWriting(v) /\ \A pcs : At(v, pcs)' <=> At(v, pcs)
    BY <2>1 DEF IsWriting, At
  <2>3. k[2] \in recast.mRange /\ k[2] \in Tiles
    BY <2>1, <2>2, TileIsTile DEF WriteIsRight
  <2>4. CASE IsDirty(k)'
    BY <1>1, <2>3, <2>4 DEF WriteIsRight
  <2>5. CASE ~IsDirty(k)'
    BY <1>1, <1>2, <1>3, <2>1, <2>2, <2>3, <2>5 DEF WriteIsRight, IsDirty, IsInRange
  <2> QED BY <2>4, <2>5
<1>5. ASSUME NEW k \in Keys \ lost' PROVE TileIsRight(k)'
  <2> SUFFICES ASSUME navMesh[k] # None, ~IsDirty(k)'
               PROVE  /\ k[2] \in recast'.mRange
                      /\ IsAwaited(k)' \/ IsBuilt(k)' \/ FollowsScene(k)'
    <3>1. navMesh[k] # None => k[2] \in recast'.mRange
      BY <1>1 DEF MeshInv, PresentInv, TileIsRight
    <3> QED BY <3>1 DEF TileIsRight
  <2>1. k[2] \in Tiles /\ TileIsRight(k)
    BY TileIsTile DEF MeshInv, PresentInv
  <2>2. k[2] \in recast.mRange /\ (IsAwaited(k) \/ IsBuilt(k) \/ FollowsScene(k))
    BY <1>3, <2>1 DEF TileIsRight
  <2>3. FollowsScene(k) => FollowsScene(k)'
    BY <1>2, <2>1, <2>2 DEF FollowsScene, IsPresent, IsDirty, IsInRange
  <2> QED BY <1>1, <1>3, <2>2, <2>3
<1>6. ASSUME NEW k \in Keys \ lost' PROVE GapIsRight(k)'
  <2> SUFFICES ASSUME navMesh[k] = None, IsWanted(k)' PROVE IsAwaited(k)' \/ IsBuilt(k)'
    BY DEF GapIsRight
  <2>1. mLastRecastMeshManagerRevision = recast'.mRevision
    BY DEF IsWanted
  <2>2. mLastRecastMeshManagerRevision = recast.mRevision
        /\ recast'.mChangedTiles = {}
    BY <2>1 DEF SceneInv, Changes, IsManager
  <2>3. k[2] \in Tiles /\ IsInRange(recast, k[2])
    BY <1>1, TileIsTile DEF IsWanted, IsInRange
  <2>4. IsWanted(k)
    BY <1>2, <2>2, <2>3 DEF IsWanted
  <2> QED BY <1>3, <2>4 DEF MeshInv, AbsentInv, GapIsRight
<1> QED BY <1>4, <1>5, <1>6 DEF MeshInv, WritesInv, PresentInv, AbsentInv

LEMMA MeshOfSceneChanges ==
    ASSUME CacheInv, MeshInv, SceneChanges
    PROVE  MeshInv'
<1>1. /\ GuardFree /\ IsManager(recast') /\ Changes(recast, recast')
      /\ UNCHANGED <<mPlayerTile, mLastRecastMeshManagerRevision, main, pending, navMesh, reader>>
      /\ mCache' = mCache /\ lost \subseteq lost'
  BY DEF SceneChanges, managerVars, sceneVars, agentVars
<1>2. \A k \in Keys : IsBuilt(k) => IsBuilt(k)'
  BY <1>1 DEF IsBuilt, Work, At
<1> QED BY <1>1, <1>2, MeshOfChange DEF CacheInv

LEMMA MeshOfReportChange ==
    ASSUME CacheInv, MeshInv, NEW w \in Readers, ReportChange(w)
    PROVE  MeshInv'
<1> DEFINE v == reader[w].mesh.mVersion
<1>1. /\ reader[w].pc = "report" /\ ~At(w, {"idle"}) /\ At(w, HasMesh) /\ reader[w] \in Reader
      /\ GuardFree /\ SceneInv /\ ThreadsInv
      /\ recast' = ReportNavMeshChange(recast, TileOf(w), v, reader[w].version)
      /\ reader' = [reader EXCEPT ![w] = IdleReader]
      /\ UNCHANGED <<managerVars, pending, navMesh, stale, lost>>
  BY DEF ReportChange, At, HasMesh, CacheInv, ThreadsInv, Done
<1>2. v \in Version /\ reader[w].version \in Version \cup {None}
  <2>1. reader[w].mesh \in RecastMesh
    BY <1>1, MeshOfThread
  <2> QED BY <1>1, <2>1 DEF RecastMesh, Reader
<1> HIDE DEF v
<1>3. IsManager(recast') /\ Changes(recast, recast')
  <2>1. PICK r : r = recast
    OBVIOUS
  <2>2. IsManager(r)
    BY <1>1, <2>1 DEF SceneInv
  <2>3. LET s == ReportNavMeshChange(r, TileOf(w), v, reader[w].version) IN
          IsManager(s) /\ Changes(r, s)
    BY <1>2, <2>2, ChangeReported
  <2> QED BY <1>1, <2>1, <2>3
<1>4. reader'[w] = IdleReader /\ \A u \in Readers \ {w} : reader'[u] = reader[u]
  BY <1>1 DEF ThreadsInv
<1>5. \A u \in Readers : IsWriting(u)' => reader'[u] = reader[u]
  BY <1>4, IdleIsReader DEF IsWriting, At
<1>6. \A k \in Keys : IsBuilt(k) => IsBuilt(k)'
  BY <1>1, <1>4 DEF IsBuilt, Work, At, InProgress
<1> QED BY <1>1, <1>3, <1>5, <1>6, MeshOfChange DEF managerVars, sceneVars, agentVars

(* What an update posts for the agents that have a mesh.                   *)
LEMMA UpdatePosts ==
    ASSUME ThreadsInv, NEW limited, TakesScene(limited), NEW k \in Keys, mCache[k[1]] # None
    PROVE  /\ k[2] \in limited.mChangedTiles /\ k[2] \in Near[mPlayerTile']
                => WillFollow(k)' /\ IsAwaited(k)'
           /\ navMesh'[k] # None /\ k[2] \notin Near[mPlayerTile'] => IsAwaited(k)'
           /\ navMesh'[k] = None /\ k[2] \in Near[mPlayerTile']
              /\ IsInRange(recast', k[2]) /\ HasInput(recast', k[2]) => IsAwaited(k)'
<1>1. k[1] \in Agents /\ k[2] \in Tiles /\ k = <<k[1], k[2]>>
  BY TileIsTile DEF Keys
<1>2. /\ main'.left = {a \in Agents : mCache[a] # None}
      /\ main'.changed = limited.mChangedTiles /\ IsManager(recast')
  <2>1. main' = [pc |-> "collect", left |-> {a \in Agents : mCache[a] # None},
                 changed |-> limited.mChangedTiles, toPost |-> {}]
    BY DEF TakesScene
  <2>2. IsManager(recast')
    BY TilesTaken DEF TakesScene
  <2> QED BY <2>1, <2>2
<1>3. k[1] \in main'.left
  BY <1>1, <1>2
<1>4. (k[2] \in TilesToPost(k[1]))' <=>
        \/ k[2] \in main'.changed /\ k[2] \in Near[mPlayerTile']
        \/ /\ k[2] \in LimitedObjectsRange(recast') \ main'.changed
           /\ k[2] \in Near[mPlayerTile'] /\ navMesh'[k] = None
        \/ k[2] \notin Near[mPlayerTile'] /\ navMesh'[k] # None
  BY <1>1 DEF TilesToPost
<1>5. IsInRange(recast', k[2]) /\ HasInput(recast', k[2]) => k[2] \in LimitedObjectsRange(recast')
  <2> SUFFICES ASSUME IsInRange(recast', k[2]), HasInput(recast', k[2])
               PROVE  k[2] \in LimitedObjectsRange(recast')
    OBVIOUS
  <2>1. PICK T \in {recast'.mObjects[o].mRange : o \in DOMAIN recast'.mObjects}
                   \cup {StaticTiles[c] : c \in recast'.mStatics} : k[2] \in T
    BY DEF HasInput, ObjectsAt, StaticsAt
  <2>2. k[2] \in Int
    BY <1>1, SceneAssumption DEF SceneAssumption
  <2>3. k[2] <= k[2]
    BY <2>2
  <2> QED BY <1>1, <2>1, <2>3 DEF LimitedObjectsRange, LimitedTo
<1>6. (k[2] \in TilesToPost(k[1]))' => IsAwaited(k)'
  BY <1>3 DEF IsAwaited
<1>7. k[2] \in limited.mChangedTiles /\ k[2] \in Near[mPlayerTile'] => WillFollow(k)'
  BY <1>2, <1>3 DEF WillFollow
<1> QED BY <1>2, <1>4, <1>5, <1>6, <1>7

(* A tile the update knows and the mesh lacks is posted.                   *)
LEMMA GapsOfUpdate ==
    ASSUME ThreadsInv, NEW limited, TakesScene(limited), MeshesKept \/ MeshesDropped
    PROVE  AbsentInv'
<1> SUFFICES ASSUME NEW k \in Keys, navMesh'[k] = None, IsWanted(k)' PROVE IsAwaited(k)'
  BY DEF AbsentInv, GapIsRight
<1>1. k[1] \in Agents
  BY TileIsTile
<1>2. mCache'[k[1]] # None => mCache[k[1]] # None
  BY <1>1 DEF MeshesKept, MeshesDropped, ReplaceMeshes, agentVars
<1> QED BY <1>2, UpdatePosts DEF IsWanted

(* A new worldspace: no thread writes the new mesh, which has no tile.     *)
LEMMA MeshOfDropped ==
    ASSUME ThreadsInv, MeshesDropped, reader' \in [Readers -> Reader],
           \A w \in Readers : reader'[w].pc = reader[w].pc
    PROVE  WritesInv' /\ PresentInv'
<1>1. \A w \in Readers : ~IsWriting(w)'
  BY DEF MeshesDropped, Orphaned, IsWriting, At
<1>2. \A k \in Keys : navMesh'[k] = None
  BY DEF MeshesDropped, ReplaceMeshes
<1> QED BY <1>1, <1>2 DEF WritesInv, WriteIsRight, PresentInv, TileIsRight

(* The same worldspace, after a change of range.                           *)
LEMMA MovedTile ==
    ASSUME NEW r, NEW s, Moves(r, s), NEW t \in Tiles, t \in r.mRange, t \in s.mRange,
           t \notin s.mChangedTiles
    PROVE  /\ t \notin r.mChangedTiles
           /\ HasInput(r, t) <=> HasInput(s, t)
           /\ \A mesh : ShowsScene(r, t, mesh) <=> ShowsScene(s, t, mesh)
<1>1. SameTile(r, s, t) /\ t \notin r.mChangedTiles
  BY DEF Moves, IsInRange
<1> QED BY <1>1, SameShown

LEMMA BuiltByThreads ==
    ASSUME MeshesKept, \A w \in Readers : reader'[w].pc = reader[w].pc
                                          /\ reader'[w].key = reader[w].key
    PROVE  \A k \in Keys : IsBuilt(k) => IsBuilt(k)'
BY DEF MeshesKept, SameOrphan, IsBuilt, Work, At

(* Nothing is posted before an update.                                     *)
LEMMA AwaitedIfFree ==
    ASSUME ThreadsInv, GuardFree
    PROVE  \A k \in Keys : /\ WillFollow(k) => pending[k] = "live"
                           /\ IsAwaited(k) => pending[k] = "live"
BY DEF ThreadsInv, WillFollow, IsAwaited

LEMMA WritesOfUpdates ==
    ASSUME CacheInv, MeshInv, MeshesKept, NEW limited, TakesScene(limited),
           Moves(recast, limited), NEW w \in Readers, NEW k \in Keys
    PROVE  WriteIsRight(w, k)'
<1>1. /\ ThreadsInv /\ IsManager(recast) /\ IsManager(limited) /\ GuardFree
      /\ recast' = TakeChangedTiles(limited) /\ pending' = pending
      /\ Passed(reader[w], reader'[w], limited.mChangedTiles, limited.mRange,
                Near[mPlayerTile'])
      /\ SameOrphan(reader[w], reader'[w])
  BY DEF CacheInv, SceneInv, TakesScene, MeshesKept
<1>2. /\ recast'.mRange = limited.mRange /\ recast'.mObjects = limited.mObjects
      /\ recast'.mStatics = limited.mStatics
  BY <1>1, TilesTaken
<1>3. /\ \A t : HasInput(recast', t) <=> HasInput(limited, t)
      /\ \A t, mesh : ShowsScene(recast', t, mesh) <=> ShowsScene(limited, t, mesh)
  BY <1>2 DEF HasInput, ShowsScene, ObjectsAt, StaticsAt
<1> SUFFICES ASSUME IsWriting(w)', reader'[w].key = k PROVE WriteIsRight(w, k)'
  BY DEF WriteIsRight
<1>4. /\ reader'[w].pc = reader[w].pc /\ reader[w].key = k /\ reader'[w].mesh = reader[w].mesh
      /\ IsWriting(w) /\ k[2] \in limited.mRange
      /\ reader[w].pc # "make" /\ k[2] \in limited.mChangedTiles => k[2] \in Near[mPlayerTile']
  BY <1>1 DEF Passed, SameOrphan, IsWriting, At
<1>5. WriteIsRight(w, k) /\ k[2] \in Tiles /\ mCache[k[1]] # None
  <2>1. mCache[k[1]] # None
    BY <1>1, <1>4 DEF ThreadsInv, IsWriting, At
  <2> QED BY <2>1, TileIsTile DEF MeshInv, WritesInv
<1>6. k[2] \in recast.mRange
  BY <1>4, <1>5 DEF WriteIsRight
<1>7. CASE reader[w].pc = "make"
  BY <1>2, <1>4, <1>7 DEF WriteIsRight, At
<1>8. CASE reader[w].pc # "make" /\ k[2] \in limited.mChangedTiles
  <2>1. WillFollow(k)'
    BY <1>1, <1>4, <1>5, <1>8, UpdatePosts
  <2> QED BY <1>2, <1>4, <2>1 DEF WriteIsRight
<1>9. CASE reader[w].pc # "make" /\ k[2] \notin limited.mChangedTiles
  <2>1. /\ ~IsDirty(k) /\ (HasInput(recast, k[2]) <=> HasInput(recast', k[2]))
        /\ \A mesh : ShowsScene(recast, k[2], mesh) <=> ShowsScene(recast', k[2], mesh)
    BY <1>3, <1>4, <1>5, <1>6, <1>9, MovedTile DEF IsDirty
  <2>2. WillFollow(k) => WillFollow(k)'
    BY <1>1, AwaitedIfFree DEF WillFollow
  <2>3. \A pcs : At(w, pcs)' <=> At(w, pcs)
    BY <1>4 DEF At
  <2> QED BY <1>2, <1>4, <1>5, <2>1, <2>2, <2>3 DEF WriteIsRight
<1> QED BY <1>7, <1>8, <1>9

LEMMA TilesOfUpdates ==
    ASSUME CacheInv, MeshInv, MeshesKept, NEW limited, TakesScene(limited),
           Moves(recast, limited), NEW k \in Keys \ lost'
    PROVE  TileIsRight(k)'
<1>1. /\ ThreadsInv /\ IsManager(recast) /\ IsManager(limited) /\ GuardFree
      /\ recast' = TakeChangedTiles(limited) /\ limited.mRange \in SUBSET Tiles
      /\ pending' = pending /\ navMesh' = navMesh
      /\ k \notin lost /\ k \notin LeftOut(recast')
  BY DEF CacheInv, SceneInv, TakesScene, MeshesKept
<1>2. /\ recast'.mRange = limited.mRange /\ recast'.mObjects = limited.mObjects
      /\ recast'.mStatics = limited.mStatics
  BY <1>1, TilesTaken
<1>3. /\ \A t : HasInput(recast', t) <=> HasInput(limited, t)
      /\ \A t, mesh : ShowsScene(recast', t, mesh) <=> ShowsScene(limited, t, mesh)
  BY <1>2 DEF HasInput, ShowsScene, ObjectsAt, StaticsAt
<1> SUFFICES ASSUME navMesh[k] # None PROVE TileIsRight(k)'
  BY <1>1 DEF TileIsRight
<1>4. TileIsRight(k) /\ k[2] \in Tiles /\ mCache[k[1]] # None
  BY <1>1, TileIsTile DEF MeshInv, PresentInv, ThreadsInv
<1>5. k[2] \in recast.mRange /\ k[2] \in limited.mRange
  <2>1. limited.mRange # None
    BY <1>1, RangeIsSet
  <2> QED BY <1>1, <1>2, <1>4, <2>1 DEF TileIsRight, LeftOut, IsInRange
<1>6. CASE k[2] \notin Near[mPlayerTile'] \/ k[2] \in limited.mChangedTiles
  <2>1. IsAwaited(k)'
    BY <1>1, <1>4, <1>6, UpdatePosts
  <2> QED BY <1>2, <1>5, <2>1 DEF TileIsRight
<1>7. CASE k[2] \notin limited.mChangedTiles
  <2>1. /\ ~IsDirty(k) /\ (HasInput(recast, k[2]) <=> HasInput(recast', k[2]))
        /\ \A mesh : ShowsScene(recast, k[2], mesh) <=> ShowsScene(recast', k[2], mesh)
    BY <1>3, <1>4, <1>5, <1>7, MovedTile DEF IsDirty
  <2>2. IsAwaited(k) => IsAwaited(k)'
    BY <1>1, AwaitedIfFree DEF IsAwaited
  <2>3. IsBuilt(k) => IsBuilt(k)'
    BY BuiltByThreads DEF TakesScene, Passed
  <2>4. FollowsScene(k) => FollowsScene(k)'
    BY <1>1, <2>1 DEF FollowsScene, IsPresent
  <2> QED BY <1>2, <1>4, <1>5, <2>1, <2>2, <2>3, <2>4 DEF TileIsRight
<1> QED BY <1>6, <1>7

LEMMA MeshOfUpdates ==
    ASSUME CacheInv, MeshInv, Updates \/ UpdatesAnew
    PROVE  MeshInv'
<1>1. CASE Updates
  <2>1. PICK limited : TakesScene(limited) /\ Moves(recast, limited)
    BY <1>1 DEF Updates
  <2>2. MeshesKept /\ ThreadsInv
    BY <1>1 DEF Updates, CacheInv
  <2>3. WritesInv' /\ PresentInv'
    BY <2>1, <2>2, WritesOfUpdates, TilesOfUpdates DEF WritesInv, PresentInv
  <2> QED BY <2>1, <2>2, <2>3, GapsOfUpdate DEF MeshInv
<1>2. CASE UpdatesAnew
  <2>1. PICK limited : TakesScene(limited)
    BY <1>2 DEF UpdatesAnew
  <2>2. MeshesDropped /\ ThreadsInv
    BY <1>2 DEF UpdatesAnew, CacheInv
  <2>3. reader' \in [Readers -> Reader] /\ \A w \in Readers : reader'[w].pc = reader[w].pc
    BY <2>1 DEF TakesScene, Passed
  <2> QED BY <2>1, <2>2, <2>3, GapsOfUpdate, MeshOfDropped DEF MeshInv
<1> QED BY <1>1, <1>2

LEMMA MeshOfEntry ==
    ASSUME CacheInv, MeshInv, Enters \/ EntersAnew
    PROVE  MeshInv'
<1>1. /\ ThreadsInv /\ LeavesScene /\ IsManager(recast) /\ IsManager(recast') /\ GuardFree
      /\ \A w \in Readers : reader'[w].pc = reader[w].pc
  BY DEF Enters, EntersAnew, LeavesScene, CacheInv, SceneInv, Passed
<1>2. AbsentInv'
  <2>1. mLastRecastMeshManagerRevision' # recast'.mRevision
    BY <1>1 DEF LeavesScene, CacheInv, SceneInv, IsManager
  <2> QED BY <2>1 DEF AbsentInv, GapIsRight, IsWanted
<1>3. CASE EntersAnew
  <2>1. MeshesDropped /\ reader' \in [Readers -> Reader]
    BY <1>3 DEF EntersAnew, LeavesScene
  <2> QED BY <1>1, <1>2, <2>1, MeshOfDropped DEF MeshInv
<1>4. CASE Enters
  <2>1. MeshesKept /\ Moves(recast, recast')
    BY <1>4 DEF Enters
  <2>2. /\ UNCHANGED <<mPlayerTile, main, pending, navMesh>> /\ recast'.mRange # None
        /\ recast.mChangedTiles \subseteq recast'.mChangedTiles
        /\ recast'.mRange \in SUBSET Tiles
    BY <1>1, <2>1, RangeIsSet DEF LeavesScene, MeshesKept, Moves
  <2>3. ASSUME NEW k \in Keys
        PROVE  /\ WillFollow(k) => WillFollow(k)'
               /\ IsAwaited(k) => IsAwaited(k)'
               /\ IsDirty(k) => IsDirty(k)'
    BY <1>1, <2>2, AwaitedIfFree DEF WillFollow, IsAwaited, IsDirty
  <2>4. ASSUME NEW w \in Readers, NEW k \in Keys PROVE WriteIsRight(w, k)'
    <3> SUFFICES ASSUME IsWriting(w)', reader'[w].key = k PROVE WriteIsRight(w, k)'
      BY DEF WriteIsRight
    <3>1. Passed(reader[w], reader'[w], {}, recast'.mRange, {}) /\ SameOrphan(reader[w], reader'[w])
      BY <1>1, <2>1 DEF LeavesScene, MeshesKept
    <3>2. /\ reader'[w].pc = reader[w].pc /\ reader[w].key = k
          /\ reader'[w].mesh = reader[w].mesh /\ IsWriting(w) /\ k[2] \in recast'.mRange
      BY <3>1 DEF Passed, SameOrphan, IsWriting, At
    <3>3. WriteIsRight(w, k) /\ k[2] \in Tiles
      BY TileIsTile DEF MeshInv, WritesInv
    <3>4. k[2] \in recast.mRange /\ \A pcs : At(w, pcs)' <=> At(w, pcs)
      BY <3>2, <3>3 DEF WriteIsRight, At
    <3>5. CASE IsDirty(k)'
      BY <3>2, <3>5 DEF WriteIsRight
    <3>6. CASE ~IsDirty(k)'
      <4>1. /\ HasInput(recast, k[2]) <=> HasInput(recast', k[2])
            /\ \A mesh : ShowsScene(recast, k[2], mesh) <=> ShowsScene(recast', k[2], mesh)
        BY <2>1, <3>2, <3>3, <3>4, <3>6, MovedTile DEF IsDirty
      <4> QED BY <2>3, <3>2, <3>3, <3>4, <3>6, <4>1 DEF WriteIsRight
    <3> QED BY <3>5, <3>6
  <2>5. ASSUME NEW k \in Keys \ lost' PROVE TileIsRight(k)'
    <3> SUFFICES ASSUME navMesh[k] # None PROVE TileIsRight(k)'
      BY <2>2 DEF TileIsRight
    <3>1. k \notin lost /\ k \notin LeftOut(recast')
      BY <2>1 DEF MeshesKept
    <3>2. TileIsRight(k) /\ k[2] \in Tiles
      BY <3>1, TileIsTile DEF MeshInv, PresentInv
    <3>3. k[2] \in recast.mRange /\ k[2] \in recast'.mRange
      BY <2>2, <3>1, <3>2 DEF TileIsRight, LeftOut, IsInRange
    <3>4. CASE IsDirty(k)'
      BY <3>3, <3>4 DEF TileIsRight
    <3>5. CASE ~IsDirty(k)'
      <4>1. /\ HasInput(recast, k[2]) <=> HasInput(recast', k[2])
            /\ \A mesh : ShowsScene(recast, k[2], mesh) <=> ShowsScene(recast', k[2], mesh)
        BY <2>1, <3>2, <3>3, <3>5, MovedTile DEF IsDirty
      <4>2. FollowsScene(k) => FollowsScene(k)'
        BY <2>2, <4>1 DEF FollowsScene, IsPresent
      <4>3. IsBuilt(k) => IsBuilt(k)'
        <5>1. \A w \in Readers : reader'[w].pc = reader[w].pc /\ reader'[w].key = reader[w].key
          BY <1>1 DEF LeavesScene, Passed
        <5> QED BY <2>1, <5>1, BuiltByThreads
      <4> QED BY <2>3, <3>2, <3>3, <3>5, <4>2, <4>3 DEF TileIsRight
    <3> QED BY <3>4, <3>5
  <2> QED BY <1>2, <2>4, <2>5 DEF MeshInv, WritesInv, PresentInv
<1> QED BY <1>3, <1>4

-----------------------------------------------------------------------------
(* The navigation mesh, when agents come and go and tiles are posted       *)

LEMMA MeshOfAddAgent ==
    ASSUME CacheInv, MeshInv, NEW a \in Agents, AddAgent(a)
    PROVE  MeshInv'
<1>1. /\ GuardFree /\ mPlayerTile' = None /\ ThreadsInv
      /\ UNCHANGED <<recast, main, pending, reader, navMesh, lost>>
  BY DEF AddAgent, CacheInv
<1>2. ASSUME NEW k \in Keys
      PROVE  /\ WillFollow(k) => WillFollow(k)'
             /\ IsAwaited(k) => IsAwaited(k)'
             /\ IsDirty(k) <=> IsDirty(k)'
             /\ IsBuilt(k) => IsBuilt(k)'
             /\ FollowsScene(k) => FollowsScene(k)'
  BY <1>1, AwaitedIfFree DEF WillFollow, IsAwaited, IsDirty, IsBuilt, Work, At,
                             FollowsScene, IsPresent
<1>3. \A w \in Readers, k \in Keys : WriteIsRight(w, k)'
  BY <1>1, <1>2 DEF MeshInv, WritesInv, WriteIsRight, IsWriting, At
<1>4. \A k \in Keys \ lost' : TileIsRight(k)'
  BY <1>1, <1>2 DEF MeshInv, PresentInv, TileIsRight
<1>5. \A k \in Keys \ lost' : GapIsRight(k)'
  BY <1>1 DEF GapIsRight, IsWanted
<1> QED BY <1>3, <1>4, <1>5 DEF MeshInv, WritesInv, PresentInv, AbsentInv

LEMMA MeshOfResetAgent ==
    ASSUME CacheInv, MeshInv, NEW a \in Agents, ResetAgent(a)
    PROVE  MeshInv'
<1>1. /\ GuardFree /\ mPlayerTile' = None /\ ThreadsInv
      /\ \A w \in Readers : /\ reader[w].key # None /\ reader[w].key[1] = a
                            => reader[w].pc = "loaded" \/ reader[w].orphan
      /\ pending' = [k \in Keys |-> IF k[1] = a /\ pending[k] = "live"
                                    THEN "expired" ELSE pending[k]]
      /\ reader' = [w \in Readers |->
                      IF reader[w].pc = "loaded" /\ reader[w].key[1] = a
                      THEN [reader[w] EXCEPT !.orphan = TRUE] ELSE reader[w]]
      /\ navMesh' = [k \in Keys |-> IF k[1] = a THEN None ELSE navMesh[k]]
      /\ lost' = {k \in lost : k[1] # a}
      /\ recast' = recast /\ main' = main
  BY DEF ResetAgent, CacheInv
<1>2. ASSUME NEW w \in Readers
      PROVE  /\ reader'[w].orphan \/ reader'[w] = reader[w]
             /\ reader[w].key # None /\ reader[w].key[1] = a => reader'[w].orphan
             /\ reader[w].key[1] # a => reader'[w] = reader[w]
             /\ reader'[w].key = reader[w].key
  <2>1. reader[w] \in Reader
    BY <1>1 DEF ThreadsInv
  <2> QED BY <1>1, <2>1 DEF Reader
<1>3. ASSUME NEW k \in Keys, k[1] # a
      PROVE  /\ WillFollow(k) => WillFollow(k)'
             /\ IsAwaited(k) => IsAwaited(k)'
             /\ IsDirty(k) <=> IsDirty(k)'
             /\ IsBuilt(k) => IsBuilt(k)'
             /\ FollowsScene(k) => FollowsScene(k)'
  <2>1. pending'[k] = pending[k] /\ navMesh'[k] = navMesh[k]
    BY <1>1, <1>3
  <2>2. IsBuilt(k) => IsBuilt(k)'
    BY <1>2, <1>3 DEF IsBuilt, Work, At
  <2>3. FollowsScene(k) => FollowsScene(k)'
    BY <1>1, <2>1 DEF FollowsScene, IsPresent
  <2> QED BY <1>1, <2>1, <2>2, <2>3, AwaitedIfFree DEF WillFollow, IsAwaited, IsDirty
<1>4. ASSUME NEW w \in Readers, NEW k \in Keys PROVE WriteIsRight(w, k)'
  <2> SUFFICES ASSUME IsWriting(w)', reader'[w].key = k PROVE WriteIsRight(w, k)'
    BY DEF WriteIsRight
  <2>1. reader'[w] = reader[w] /\ k # None /\ k[1] # a
    BY <1>2, ManagerAssumption DEF IsWriting, ManagerAssumption
  <2>2. WriteIsRight(w, k) /\ IsWriting(w) /\ \A pcs : At(w, pcs)' <=> At(w, pcs)
    BY <2>1 DEF MeshInv, WritesInv, IsWriting, At
  <2> QED BY <1>1, <1>3, <2>1, <2>2 DEF WriteIsRight
<1>5. ASSUME NEW k \in Keys \ lost' PROVE TileIsRight(k)'
  <2>1. CASE k[1] = a
    BY <1>1, <2>1 DEF TileIsRight
  <2>2. CASE k[1] # a
    <3>1. TileIsRight(k) /\ navMesh'[k] = navMesh[k]
      BY <1>1, <2>2 DEF MeshInv, PresentInv
    <3> QED BY <1>1, <1>3, <2>2, <3>1 DEF TileIsRight
  <2> QED BY <2>1, <2>2
<1>6. \A k \in Keys \ lost' : GapIsRight(k)'
  BY <1>1 DEF GapIsRight, IsWanted
<1> QED BY <1>4, <1>5, <1>6 DEF MeshInv, WritesInv, PresentInv, AbsentInv

(* The steps that post tiles, and lose those behind an expired job.        *)
LEMMA MeshOfPosting ==
    ASSUME CacheInv, MeshInv,
           UNCHANGED <<recast, mPlayerTile, mLastRecastMeshManagerRevision, mCache, reader,
                       navMesh>>,
           lost \subseteq lost',
           \A k \in Keys \ lost' : IsAwaited(k) => IsAwaited(k)',
           \A w \in Readers, k \in Keys :
             IsWriting(w) /\ reader[w].key = k /\ WillFollow(k) => WillFollow(k)'
    PROVE  MeshInv'
<1>1. SameScene
  BY DEF SameScene
<1>2. \A w \in Readers, k \in Keys : WriteIsRight(w, k)'
  BY <1>1, WriteKept DEF MeshInv, WritesInv
<1>3. ASSUME NEW k \in Keys \ lost' PROVE TileIsRight(k)' /\ GapIsRight(k)'
  <2>1. IsBuilt(k) => IsBuilt(k)'
    BY DEF IsBuilt, Work, At
  <2> QED BY <1>1, <2>1, KeyKept DEF MeshInv, PresentInv, AbsentInv
<1> QED BY <1>2, <1>3 DEF MeshInv, WritesInv, PresentInv, AbsentInv

LEMMA MeshOfCollect ==
    ASSUME CacheInv, MeshInv, NEW a \in Agents, Collect(a)
    PROVE  MeshInv'
<1>1. /\ main.pc = "collect" /\ a \in main.left /\ main \in MainThread
      /\ main' = [main EXCEPT !.pc = "post", !.left = @ \ {a}, !.toPost = {a} \X TilesToPost(a)]
      /\ UNCHANGED <<recast, mPlayerTile, mLastRecastMeshManagerRevision, mCache, reader,
                     navMesh, pending, lost>>
  BY DEF Collect, sceneVars, agentVars, CacheInv, ThreadsInv
<1>2. /\ main'.left = main.left \ {a} /\ main'.changed = main.changed
      /\ main'.toPost = {a} \X TilesToPost(a) /\ main.toPost = {}
  BY <1>1 DEF MainThread, CacheInv, ThreadsInv
<1>3. ASSUME NEW k \in Keys
      PROVE  /\ IsAwaited(k) => IsAwaited(k)'
             /\ WillFollow(k) => WillFollow(k)'
  <2>1. k = <<k[1], k[2]>> /\ k[2] \in Tiles
    BY TileIsTile DEF Keys
  <2>2. (k[2] \in TilesToPost(k[1]))' <=> k[2] \in TilesToPost(k[1])
    BY <1>1, <1>2 DEF TilesToPost
  <2>3. k[1] = a /\ k[2] \in TilesToPost(a) => k \in main'.toPost
    BY <1>2, <2>1
  <2>4. k[2] \in main.changed \cap Near[mPlayerTile] => k[2] \in TilesToPost(k[1])
    BY DEF TilesToPost
  <2> QED BY <1>1, <1>2, <2>2, <2>3, <2>4 DEF IsAwaited, WillFollow
<1> QED BY <1>1, <1>3, MeshOfPosting

LEMMA MeshOfPost ==
    ASSUME CacheInv, MeshInv, Post
    PROVE  MeshInv'
<1>1. /\ main' = [main EXCEPT !.pc = "collect", !.toPost = {}] /\ main \in MainThread
      /\ pending' = [k \in Keys |-> IF k \in main.toPost /\ pending[k] = "none"
                                    THEN "live" ELSE pending[k]]
      /\ lost' = lost \cup {k \in main.toPost : pending[k] = "expired"}
      /\ UNCHANGED <<recast, mPlayerTile, mLastRecastMeshManagerRevision, mCache, reader,
                     navMesh>>
      /\ ThreadsInv
  BY DEF Post, sceneVars, agentVars, CacheInv, ThreadsInv
<1>2. main'.left = main.left /\ main'.changed = main.changed
  BY <1>1 DEF MainThread
<1>3. \A k \in Keys : k \in main.toPost /\ pending[k] # "expired" => pending'[k] = "live"
  BY <1>1 DEF ThreadsInv
<1>4. \A k \in Keys : pending[k] = "live" => pending'[k] = "live"
  BY <1>1
<1>5. ASSUME NEW k \in Keys \ lost', IsAwaited(k) PROVE IsAwaited(k)'
  <2>1. k \in main.toPost => pending[k] # "expired"
    BY <1>1, <1>5
  <2>2. (k[2] \in TilesToPost(k[1]))' <=> k[2] \in TilesToPost(k[1])
    BY <1>1, <1>2 DEF TilesToPost
  <2> QED BY <1>2, <1>3, <1>4, <1>5, <2>1, <2>2 DEF IsAwaited
<1>6. ASSUME NEW w \in Readers, NEW k \in Keys, IsWriting(w), reader[w].key = k, WillFollow(k)
      PROVE  WillFollow(k)'
  <2>1. pending[k] # "expired"
    BY <1>1, <1>6 DEF ThreadsInv, Work, IsWriting
  <2> QED BY <1>1, <1>2, <1>3, <1>4, <1>6, <2>1 DEF WillFollow
<1> QED BY <1>1, <1>5, <1>6, MeshOfPosting

LEMMA MeshOfEndUpdate ==
    ASSUME CacheInv, MeshInv, EndUpdate
    PROVE  MeshInv'
<1>1. /\ main.pc = "collect" /\ main.left = {} /\ main.toPost = {}
      /\ UNCHANGED <<recast, mPlayerTile, mLastRecastMeshManagerRevision, mCache, reader,
                     navMesh, pending, lost>>
  BY DEF EndUpdate, sceneVars, agentVars, CacheInv, ThreadsInv
<1>2. \A k \in Keys : /\ IsAwaited(k) => IsAwaited(k)'
                      /\ WillFollow(k) => WillFollow(k)'
  BY <1>1 DEF IsAwaited, WillFollow
<1> QED BY <1>1, <1>2, MeshOfPosting

-----------------------------------------------------------------------------
(* The navigation mesh follows the scene                                   *)

LEMMA MeshOfReader ==
    ASSUME CacheInv, MeshInv, NEW w \in Readers, ReaderStep(w)
    PROVE  MeshInv'
BY MeshOfTakeJob, MeshOfProcessJob, MeshOfRemoveFarTile, MeshOfLookupMesh, MeshOfBuildMesh,
   MeshOfPutMesh, MeshOfMarkAsEmpty, MeshOfUpdateTile, MeshOfReadVersion, MeshOfReportChange
   DEF ReaderStep

LEMMA MeshOfMain ==
    ASSUME CacheInv, MeshInv, MainStep
    PROVE  MeshInv'
<1>1. CASE AgentStep
  BY <1>1, MeshOfAddAgent, MeshOfResetAgent, MeshOfCollect, MeshOfPost, MeshOfEndUpdate
     DEF AgentStep
<1> QED BY <1>1, MainKinds, MeshOfSceneChanges, MeshOfUpdates, MeshOfEntry DEF CacheInv

LEMMA MeshOfStutter ==
    ASSUME CacheInv, MeshInv, UNCHANGED vars
    PROVE  MeshInv'
<1>1. /\ UNCHANGED <<recast, mPlayerTile, mLastRecastMeshManagerRevision, mCache, reader,
                     navMesh, main, pending, lost>>
  BY DEF vars
<1>2. SameScene
  BY <1>1 DEF SameScene
<1> QED BY <1>1, <1>2, AwaitedKept, MeshOfPosting

LEMMA MeshOfNext ==
    ASSUME CacheInv, MeshInv, [Next]_vars
    PROVE  MeshInv'
BY MeshOfMain, MeshOfReader, MeshOfStutter DEF Next, BoundReached

LEMMA MeshOfInit ==
    ASSUME Init
    PROVE  MeshInv
<1>1. \A k \in Keys : navMesh[k] = None
  BY DEF Init
<1>2. \A w \in Readers : ~IsWriting(w)
  BY IdleIsReader DEF Init, IsWriting, At
<1>3. mPlayerTile = None
  BY DEF Init
<1> QED BY <1>1, <1>2, <1>3 DEF MeshInv, WritesInv, WriteIsRight, PresentInv, TileIsRight,
                               AbsentInv, GapIsRight, IsWanted

(* Once nothing is under way for a tile near the player, the tile in the   *)
(* navigation mesh is that of the current scene, unless a change of it was *)
(* lost on one of the ways the model names: the promise of update(),       *)
(* through getMesh's two critical sections and the updater's jobs.         *)
THEOREM NavMeshFollows == Spec => []NavMeshFollowsSceneUnlessLost
<1>1. Init => CacheInv /\ MeshInv
  BY CacheOfInit, MeshOfInit
<1>2. CacheInv /\ MeshInv /\ [Next]_vars => (CacheInv /\ MeshInv)'
  BY CacheOfNext, MeshOfNext
<1>3. CacheInv /\ MeshInv => NavMeshFollowsSceneUnlessLost
  <2> SUFFICES ASSUME CacheInv, MeshInv, NEW k \in Keys \ lost, Quiescent(k)
               PROVE  FollowsScene(k)
    BY DEF NavMeshFollowsSceneUnlessLost
  <2>1. /\ GuardFree /\ mPlayerTile # None /\ mCache[k[1]] # None
        /\ mLastRecastMeshManagerRevision = recast.mRevision
        /\ pending[k] = "none" /\ Work(k) = {}
        /\ k[2] \in Near[mPlayerTile] /\ IsInRange(recast, k[2])
    BY DEF Quiescent
  <2>2. ~IsAwaited(k) /\ ~IsBuilt(k)
    BY <2>1, AwaitedIfFree DEF CacheInv, IsBuilt
  <2>3. ~IsDirty(k)
    BY <2>1 DEF CacheInv, SceneInv, IsDirty
  <2>4. CASE navMesh[k] # None
    BY <2>2, <2>3, <2>4 DEF MeshInv, PresentInv, TileIsRight
  <2>5. CASE navMesh[k] = None
    <3>1. ~HasInput(recast, k[2])
      BY <2>1, <2>2, <2>5 DEF MeshInv, AbsentInv, GapIsRight, IsWanted
    <3> QED BY <2>5, <3>1 DEF FollowsScene, IsPresent
  <2> QED BY <2>4, <2>5
<1> QED BY <1>1, <1>2, <1>3, PTL DEF Spec

=============================================================================
