---------------------------- MODULE NavMeshManager ----------------------------
(***************************************************************************)
(* From the scene to the navigation mesh (components/detournavigator):     *)
(* NavMeshManager::update hands the tiles that changed to the updater,     *)
(* whose threads fetch recast meshes and put tiles into the agent's mesh.  *)
(* The updater is what NavMeshUpdater shows it to be: one waiting job for  *)
(* a key at most, one thread on a key at most, no job lost.                *)
(*                                                                         *)
(* The main thread holds TileCachedRecastMeshManager::mMutex (the update   *)
(* guard) through a change of cells or a frame's update, so that part is   *)
(* one step; the guard is released after the last post.  Left out: tiles   *)
(* without data or that dtNavMesh refuses, and off-mesh connections.       *)
(***************************************************************************)
EXTENDS RecastMeshManager

CONSTANTS
    Agents,         \* AgentBounds
    Resettable,     \* those whose navigation mesh comes and goes
    AgentRank,      \* the order of AgentBounds: [Agents -> Nat]
    Readers,        \* threads of the updater
    Worldspaces,
    WorldspaceOf,   \* [Cells -> Worldspaces]
    CellOf,         \* [Objects -> Cells]
    CellTiles,      \* makeCellGridRange: tiles of a cell without its border
    IsInterior,     \* [Worldspaces -> BOOLEAN]: no cell grid bounds
    PlayerTiles,
    Radius,         \* makeRange: [PlayerTiles -> SUBSET Tiles]
    Near,           \* shouldAddTile: [PlayerTiles -> SUBSET Tiles]
    MaxRevision,    \* bound on mRevision: the number of scene changes
    MaxUpdates,     \* bound on the number of updates that do something
    MaxGeneration   \* bound on mGenerationCounter for new agents

Keys == Agents \X Tiles

ASSUME ManagerAssumption ==
    /\ Resettable \subseteq Agents /\ IsFiniteSet(Agents)
    /\ AgentRank \in [Agents -> 1..Cardinality(Agents)]
    /\ WorldspaceOf \in [Cells -> Worldspaces]
    /\ CellOf \in [Objects -> Cells]
    /\ CellTiles \in [Cells -> SUBSET Tiles]
    /\ IsInterior \in [Worldspaces -> BOOLEAN]
    /\ Radius \in [PlayerTiles -> SUBSET Tiles]
    /\ Near \in [PlayerTiles -> SUBSET Tiles]
    /\ \A p \in PlayerTiles : Near[p] \subseteq Radius[p]
    /\ MaxRevision \in Nat /\ MaxUpdates \in Nat /\ MaxGeneration \in Nat
    /\ None \notin PlayerTiles /\ None \notin Worldspaces /\ None \notin Keys

VARIABLES
    recast,         \* mRecastMeshManager
    mActiveCells,   \* Scene: the loaded cells
    mPlayerTile, mLastRecastMeshManagerRevision,
    mCache,         \* [Agents -> Version of its NavMeshCacheItem, or None]
    mGenerationCounter,
    main,           \* the main thread inside NavMeshManager::update
    updates,        \* updates so far
    updaterTile,    \* AsyncNavMeshUpdater::mPlayerTile
    pending,        \* [Keys -> {"none", "live", "expired"}]: waiting jobs
    reader,         \* [Readers -> state of the thread]
    navMesh,        \* [Keys -> None (absent), EmptyTile, or what the tile shows]
    stale,          \* history: tiles whose cached mesh was stored too late
    lost            \* history: keys with a change that was dropped

vars == <<recast, mActiveCells, mPlayerTile, mLastRecastMeshManagerRevision,
          mCache, mGenerationCounter, main, updates, updaterTile, pending, reader,
          navMesh, stale, lost>>
sceneVars == <<mActiveCells, mPlayerTile, mLastRecastMeshManagerRevision, updates>>
agentVars == <<mCache, mGenerationCounter>>
managerVars == <<sceneVars, agentVars, main, updaterTile>>

Free == [pc |-> "free", left |-> {}, changed |-> {}, toPost |-> {}]
IdleReader == [pc |-> "idle", key |-> None, worldspace |-> None, orphan |-> FALSE,
               mesh |-> None, missed |-> FALSE, tainted |-> FALSE, version |-> None]
ReaderPcs == {"idle", "loaded", "far", "lookup", "make", "store", "apply",
              "empty", "version", "report"}

(* A member of mEmptyTiles.                                                *)
EmptyTile == [objects |-> NoMap, statics |-> {}]

GuardFree == main.pc = "free"
Work(k) == {w \in Readers : reader[w].key = k}
TileOf(w) == reader[w].key[2]

Init ==
    /\ recast = EmptyManager
    /\ mActiveCells = {}
    /\ mPlayerTile = None /\ mLastRecastMeshManagerRevision = 0
    /\ mGenerationCounter = Cardinality(Agents)
    /\ mCache = [a \in Agents |-> [mGeneration |-> AgentRank[a], mRevision |-> 0]]
    /\ main = Free /\ updates = 0
    /\ updaterTile \in PlayerTiles
    /\ pending = [k \in Keys |-> "none"]
    /\ reader = [w \in Readers |-> IdleReader]
    /\ navMesh = [k \in Keys |-> None]
    /\ stale = {} /\ lost = {}

-----------------------------------------------------------------------------
(* The main thread: the scene changes                                      *)

CanChange == GuardFree /\ recast.mRevision < MaxRevision

(* makeRange: around the player, and for exteriors inside the cell grid.   *)
RangeFor(p, cells, w) ==
    IF IsInterior[w] THEN Radius[p]
    ELSE Radius[p] \cap UNION {CellTiles[c] : c \in cells}

(* A script adds or removes an object: no guard, and no update yet.        *)
InsertObject(o, x) ==
    /\ CanChange
    /\ CellOf[o] \in mActiveCells /\ o \notin DOMAIN recast.mObjects
    /\ recast' = AddObject(recast, o, x)
    /\ UNCHANGED <<managerVars, pending, reader, navMesh, stale, lost>>

DeleteObject(o) ==
    /\ CanChange
    /\ o \in DOMAIN recast.mObjects
    /\ recast' = RemoveObject(recast, o)
    /\ UNCHANGED <<managerVars, pending, reader, navMesh, stale, lost>>

(* History: a thread misses a change of its tile after it has copied the   *)
(* objects.  Changes of a tile out of range reach nobody; those of a tile  *)
(* that is far are posted for no mesh that lacks the tile.                 *)
Overtaken(readers, changed, range, near) ==
    [w \in Readers |->
        LET t == readers[w].key[2] IN
        IF readers[w].pc \notin {"make", "store", "apply", "empty"} THEN readers[w]
        ELSE [readers[w] EXCEPT
                !.missed = \/ @ \/ t \notin range
                           \/ readers[w].pc = "store" /\ t \in changed,
                !.tainted = \/ @ \/ t \notin range
                            \/ readers[w].pc # "make" /\ t \in changed \ near]]

(* History: a tile the new range leaves out misses what changes from now.  *)
LeftOut(r) == {k \in Keys : navMesh[k] # None /\ ~IsInRange(r, k[2])}

(* NavMeshManager::update up to its loop over agents; r is the scene.      *)
BeginUpdate(r, p, readers) ==
    IF mLastRecastMeshManagerRevision = r.mRevision /\ mPlayerTile = p
    THEN /\ recast' = r
         /\ reader' = readers
         /\ UNCHANGED <<mPlayerTile, mLastRecastMeshManagerRevision, main, updates,
                        stale>>
    ELSE LET range   == RangeFor(p, mActiveCells', r.mWorldspace)
             limited == SetRange(r, range)
             changed == limited.mChangedTiles
         IN /\ updates < MaxUpdates /\ updates' = updates + 1
            /\ mLastRecastMeshManagerRevision' = r.mRevision
            /\ mPlayerTile' = p
            /\ recast' = TakeChangedTiles(limited)
            /\ main' = [pc |-> "collect", left |-> {a \in Agents : mCache[a] # None},
                        changed |-> changed, toPost |-> {}]
            /\ stale' = (stale \ changed) \cap DOMAIN limited.mCache
            /\ reader' = Overtaken(readers, changed, range, Near[p])

(* A frame (World::updateNavigator): an object (a door, an animated one)   *)
(* may have moved; both calls are made under one guard.                    *)
UpdateNavigator(p) ==
    /\ GuardFree /\ recast.mWorldspace # None
    /\ UNCHANGED <<mActiveCells, agentVars, updaterTile, pending, navMesh>>
    /\ \/ BeginUpdate(recast, p, reader)
       \/ /\ CanChange
          /\ \E o \in DOMAIN recast.mObjects, x \in Transforms :
               BeginUpdate(UpdateObject(recast, o, x), p, reader)
    /\ lost' = lost \cup LeftOut(recast')

(* unloadCell and loadCell, for sets of cells.                             *)
LoadCells(r, cells, at) == AddObjects(AddStatics(r, cells), at)

UnloadCells(r, cells) ==
    RemoveStatics(RemoveObjects(r, {o \in Objects : CellOf[o] \in cells}), cells)

(* A new worldspace gives every agent a new mesh: waiting jobs expire, and *)
(* a thread at work keeps the old mesh alive.                              *)
ReplaceMeshes ==
    /\ mCache' = [a \in Agents |->
                    IF mCache[a] = None THEN None
                    ELSE [mGeneration |-> mGenerationCounter + AgentRank[a],
                          mRevision |-> 0]]
    /\ mGenerationCounter' = mGenerationCounter + Cardinality(Agents)
    /\ pending' = [k \in Keys |-> IF pending[k] = "none" THEN "none" ELSE "expired"]
    /\ navMesh' = [k \in Keys |-> None]
    /\ lost' = {}

Orphans ==
    [w \in Readers |->
        IF reader[w].pc = "idle" \/ reader[w].orphan THEN reader[w]
        ELSE [reader[w] EXCEPT !.orphan = TRUE, !.version = mCache[reader[w].key[1]]]]

(* The scenes a change of cells can lead to: what stays, the bounds, and   *)
(* the new cells with their objects, each where it is placed.              *)
ScenesAfter(w, cells, p) ==
    LET kept   == SetWorldspace(UnloadCells(recast, mActiveCells \ cells), w)
        ranged == SetRange(kept, RangeFor(p, cells, w))
        loaded == cells \ mActiveCells
    IN  {LoadCells(ranged, loaded, at) :
            at \in UNION {[placed -> Transforms] :
                          placed \in SUBSET {o \in Objects : CellOf[o] \in loaded}}}

(* What both kinds of change do to agents, jobs and threads.               *)
EnterWorldspace(w) ==
    IF w = recast.mWorldspace
    THEN lost' = lost \cup LeftOut(recast') /\ UNCHANGED <<agentVars, pending, navMesh>>
    ELSE ReplaceMeshes

ThreadsAfter(w, range) ==
    IF w = recast.mWorldspace THEN Overtaken(reader, {}, range, {})
    ELSE Overtaken(Orphans, Tiles, range, {})

ChangeCellGrid(w, cells, p) ==
    /\ CanChange /\ ~IsInterior[w]
    /\ cells # mActiveCells /\ mActiveCells' = cells
    /\ \E r \in ScenesAfter(w, cells, p) :
          BeginUpdate(r, p, ThreadsAfter(w, RangeFor(p, cells, w)))
    /\ EnterWorldspace(w)
    /\ UNCHANGED updaterTile

(* The update is left to the next frame.                                   *)
ChangeToInteriorCell(w, cells, p) ==
    /\ CanChange /\ IsInterior[w] /\ Cardinality(cells) = 1
    /\ cells # mActiveCells /\ mActiveCells' = cells
    /\ recast' \in ScenesAfter(w, cells, p)
    /\ reader' = ThreadsAfter(w, RangeFor(p, cells, w))
    /\ stale' = stale \cap DOMAIN recast'.mCache
    /\ EnterWorldspace(w)
    /\ UNCHANGED <<mPlayerTile, mLastRecastMeshManagerRevision, main, updates,
                   updaterTile>>

(* Deviation: the next update may return early.                            *)
AddAgentQuietly(a) ==
    /\ GuardFree /\ a \in Resettable /\ mCache[a] = None
    /\ mGenerationCounter < MaxGeneration
    /\ mCache' = [mCache EXCEPT ![a] = [mGeneration |-> mGenerationCounter + 1,
                                        mRevision |-> 0]]
    /\ mGenerationCounter' = mGenerationCounter + 1
    /\ UNCHANGED <<recast, sceneVars, main, updaterTile, pending, reader, navMesh,
                   stale, lost>>

(* NavMeshManager::addAgent and reset, for an agent nobody else uses.      *)
AddAgent(a) ==
    /\ GuardFree /\ a \in Resettable /\ mCache[a] = None
    /\ mGenerationCounter < MaxGeneration
    /\ mCache' = [mCache EXCEPT ![a] = [mGeneration |-> mGenerationCounter + 1,
                                        mRevision |-> 0]]
    /\ mGenerationCounter' = mGenerationCounter + 1
    /\ mPlayerTile' = None
    /\ UNCHANGED <<recast, mActiveCells, mLastRecastMeshManagerRevision, main, updates,
                   updaterTile, pending, reader, navMesh, stale, lost>>

ResetAgent(a) ==
    /\ GuardFree /\ a \in Resettable /\ mCache[a] # None
    /\ \A w \in Readers : /\ reader[w].key # None /\ reader[w].key[1] = a
                          => reader[w].pc = "loaded" \/ reader[w].orphan
    /\ mCache' = [mCache EXCEPT ![a] = None]
    /\ mPlayerTile' = None
    /\ pending' = [k \in Keys |-> IF k[1] = a /\ pending[k] = "live"
                                  THEN "expired" ELSE pending[k]]
    /\ reader' = [w \in Readers |->
                    IF reader[w].pc = "loaded" /\ reader[w].key[1] = a
                    THEN [reader[w] EXCEPT !.orphan = TRUE] ELSE reader[w]]
    /\ navMesh' = [k \in Keys |-> IF k[1] = a THEN None ELSE navMesh[k]]
    /\ lost' = {k \in lost : k[1] # a}
    /\ UNCHANGED <<recast, mActiveCells, mLastRecastMeshManagerRevision,
                   mGenerationCounter, main, updates, updaterTile, stale>>

-----------------------------------------------------------------------------
(* The main thread: posting what changed                                   *)

IsPresent(k) == navMesh[k] \notin {None, EmptyTile}

(* Changed tiles near the player, near tiles the mesh lacks, far tiles it  *)
(* has.                                                                    *)
TilesToPost(a) ==
    LET isNear(t) == t \in Near[mPlayerTile]
    IN  {t \in main.changed : isNear(t)}
        \cup {t \in LimitedObjectsRange(recast) \ main.changed :
                isNear(t) /\ navMesh[<<a, t>>] = None}
        \cup {t \in Tiles : ~isNear(t) /\ navMesh[<<a, t>>] # None}

Collect(a) ==
    /\ main.pc = "collect" /\ a \in main.left
    /\ main' = [main EXCEPT !.pc = "post", !.left = @ \ {a},
                            !.toPost = {a} \X TilesToPost(a)]
    /\ UNCHANGED <<recast, sceneVars, agentVars, updaterTile, pending, reader,
                   navMesh, stale, lost>>

(* AsyncNavMeshUpdater::post: a key with a waiting job is skipped, also if *)
(* that job is for a mesh that is gone.                                    *)
Post ==
    /\ main.pc = "post"
    /\ main' = [main EXCEPT !.pc = "collect", !.toPost = {}]
    /\ updaterTile' = mPlayerTile
    /\ pending' = [k \in Keys |-> IF k \in main.toPost /\ pending[k] = "none"
                                  THEN "live" ELSE pending[k]]
    /\ lost' = lost \cup {k \in main.toPost : pending[k] = "expired"}
    /\ UNCHANGED <<recast, sceneVars, agentVars, reader, navMesh, stale>>

EndUpdate ==
    /\ main.pc = "collect" /\ main.left = {}
    /\ main' = Free
    /\ UNCHANGED <<recast, sceneVars, agentVars, updaterTile, pending, reader,
                   navMesh, stale, lost>>

-----------------------------------------------------------------------------
(* The threads of the updater                                              *)

Goto(w, pc) == reader' = [reader EXCEPT ![w].pc = pc]
Done(w) == reader' = [reader EXCEPT ![w] = IdleReader]

(* A job's key stays locked until it is done.                              *)
TakeJob(w, k) ==
    /\ reader[w].pc = "idle"
    /\ pending[k] # "none" /\ Work(k) = {}
    /\ pending' = [pending EXCEPT ![k] = "none"]
    /\ reader' = [reader EXCEPT ![w].pc = "loaded", ![w].key = k,
                                ![w].worldspace = recast.mWorldspace,
                                ![w].orphan = pending[k] = "expired"]
    /\ UNCHANGED <<recast, managerVars, navMesh, stale, lost>>

ProcessJob(w) ==
    /\ reader[w].pc = "loaded"
    /\ \/ reader[w].orphan /\ Done(w)
       \/ /\ ~reader[w].orphan
          /\ Goto(w, IF TileOf(w) \in Near[updaterTile] THEN "lookup" ELSE "far")
    /\ UNCHANGED <<recast, managerVars, pending, navMesh, stale, lost>>

(* NavMeshCacheItem: a change of the agent's mesh, or of a dropped one.    *)
SetTile(w, value) ==
    LET a == reader[w].key[1]
    IN  /\ navMesh' = IF reader[w].orphan THEN navMesh
                      ELSE [navMesh EXCEPT ![reader[w].key] = value]
        /\ mCache' = IF reader[w].orphan \/ navMesh[reader[w].key] = value THEN mCache
                     ELSE [mCache EXCEPT ![a].mRevision = @ + 1]

LostIf(w, condition) ==
    IF reader[w].orphan THEN lost
    ELSE IF condition THEN lost \cup {reader[w].key} ELSE lost \ {reader[w].key}

(* Too far when it was looked at; the player may have come back since.     *)
RemoveFarTile(w) ==
    /\ reader[w].pc = "far"
    /\ SetTile(w, None)
    /\ lost' = LostIf(w, mPlayerTile # None /\ TileOf(w) \in Near[mPlayerTile])
    /\ Done(w)
    /\ UNCHANGED <<recast, sceneVars, mGenerationCounter, main, updaterTile,
                   pending, stale>>

(* getMesh, the first critical section.                                    *)
LookupMesh(w) ==
    LET t == TileOf(w)
    IN  /\ reader[w].pc = "lookup" /\ GuardFree
        /\ IF reader[w].worldspace # recast.mWorldspace \/ ~IsInRange(recast, t)
           THEN reader' = [reader EXCEPT ![w].pc = "empty", ![w].tainted = TRUE]
           ELSE IF IsServed(recast, t)
           THEN reader' = [reader EXCEPT ![w].pc = "apply",
                                         ![w].mesh = recast.mCache[t].mRecastMesh,
                                         ![w].tainted = t \in stale]
           ELSE Goto(w, "make")
        /\ UNCHANGED <<recast, managerVars, pending, navMesh, stale, lost>>

(* makeMesh copies the objects under the lock and builds without it.       *)
BuildMesh(w) ==
    LET mesh == MakeMesh(recast, TileOf(w))
    IN  /\ reader[w].pc = "make" /\ GuardFree
        /\ IF mesh = None THEN Goto(w, "empty")
           ELSE reader' = [reader EXCEPT ![w].pc = "store", ![w].mesh = mesh]
        /\ UNCHANGED <<recast, managerVars, pending, navMesh, stale, lost>>

(* getMesh, the second critical section.                                   *)
PutMesh(w) ==
    LET t == TileOf(w)
        late == reader[w].missed \/ ~IsInRange(recast, t)
    IN  /\ reader[w].pc = "store" /\ GuardFree
        /\ recast' = StoreMesh(recast, t, reader[w].mesh)
        /\ stale' = IF late THEN stale \cup {t} ELSE stale \ {t}
        /\ Goto(w, "apply")
        /\ UNCHANGED <<managerVars, pending, navMesh, lost>>

(* Tainted if it is only empty because it was out of range.                *)
MarkAsEmpty(w) ==
    /\ reader[w].pc = "empty"
    /\ SetTile(w, EmptyTile)
    /\ lost' = LostIf(w, reader[w].tainted)
    /\ Done(w)
    /\ UNCHANGED <<recast, sceneVars, mGenerationCounter, main, updaterTile,
                   pending, stale>>

UpdateTile(w) ==
    LET mesh == reader[w].mesh
    IN  /\ reader[w].pc = "apply"
        /\ SetTile(w, [objects |-> mesh.objects, statics |-> mesh.statics])
        /\ lost' = LostIf(w, reader[w].tainted)
        /\ Goto(w, "version")
        /\ UNCHANGED <<recast, sceneVars, mGenerationCounter, main, updaterTile,
                       pending, stale>>

(* handleUpdateNavMeshStatus reads the mesh's version, then reports it.    *)
ReadVersion(w) ==
    /\ reader[w].pc = "version"
    /\ reader' = [reader EXCEPT ![w].pc = "report",
                     ![w].version = IF reader[w].orphan THEN @
                                    ELSE mCache[reader[w].key[1]]]
    /\ UNCHANGED <<recast, managerVars, pending, navMesh, stale, lost>>

ReportChange(w) ==
    /\ reader[w].pc = "report" /\ GuardFree
    /\ recast' = ReportNavMeshChange(recast, TileOf(w), reader[w].mesh.mVersion,
                                     reader[w].version)
    /\ Done(w)
    /\ UNCHANGED <<managerVars, pending, navMesh, stale, lost>>

-----------------------------------------------------------------------------
MainStep ==
    \/ \E o \in Objects, x \in Transforms : InsertObject(o, x)
    \/ \E o \in Objects : DeleteObject(o)
    \/ \E p \in PlayerTiles : UpdateNavigator(p)
    \/ \E w \in Worldspaces, p \in PlayerTiles :
         \E cells \in (SUBSET {c \in Cells : WorldspaceOf[c] = w}) \ {{}} :
             ChangeCellGrid(w, cells, p) \/ ChangeToInteriorCell(w, cells, p)
    \/ \E a \in Agents : AddAgent(a) \/ ResetAgent(a) \/ Collect(a)
    \/ Post \/ EndUpdate

ReaderStep(w) ==
    \/ \E k \in Keys : TakeJob(w, k)
    \/ ProcessJob(w) \/ RemoveFarTile(w) \/ LookupMesh(w) \/ BuildMesh(w)
    \/ PutMesh(w) \/ MarkAsEmpty(w) \/ UpdateTile(w) \/ ReadVersion(w)
    \/ ReportChange(w)

(* Behaviours end where the bounds cut them.                               *)
BoundReached == /\ GuardFree
                /\ updates = MaxUpdates \/ recast.mRevision >= MaxRevision
                /\ UNCHANGED vars

Next == MainStep \/ (\E w \in Readers : ReaderStep(w)) \/ BoundReached

Spec == Init /\ [][Next]_vars

-----------------------------------------------------------------------------
(* Properties                                                              *)

(* The manager's own state keeps its types, mLastRecastMeshManagerRevision *)
(* never runs ahead of the scene, and no two threads work on one key.      *)
TypeOK ==
    /\ mActiveCells \subseteq Cells
    /\ mPlayerTile \in PlayerTiles \cup {None}
    /\ mLastRecastMeshManagerRevision \in 0..recast.mRevision
    /\ DOMAIN recast.mObjects \subseteq Objects
    /\ recast.mStatics \subseteq mActiveCells
    /\ recast.mChangedTiles \subseteq Tiles
    /\ DOMAIN recast.mCache \subseteq Tiles
    /\ pending \in [Keys -> {"none", "live", "expired"}]
    /\ \A w \in Readers : reader[w].pc \in ReaderPcs
    /\ \A v, w \in Readers : reader[v].key = reader[w].key /\ reader[v].key # None => v = w
    /\ stale \subseteq DOMAIN recast.mCache
    /\ lost \subseteq Keys

(* The mesh getMesh would return from its cache shows the scene, unless    *)
(* the tile is marked as changed or its mesh was stored by a thread that   *)
(* had copied the scene before that tile's last change was taken.          *)
ServedMeshShowsSceneUnlessStale ==
    \A t \in Tiles \ (stale \cup recast.mChangedTiles) :
        IsInRange(recast, t) /\ IsServed(recast, t)
          => ShowsScene(recast, t, recast.mCache[t].mRecastMesh)

(* Nothing is under way for this key, and update() has nothing to do.      *)
Quiescent(k) ==
    /\ GuardFree /\ mPlayerTile # None /\ mCache[k[1]] # None
    /\ mLastRecastMeshManagerRevision = recast.mRevision
    /\ pending[k] = "none" /\ Work(k) = {}
    /\ k[2] \in Near[mPlayerTile] /\ IsInRange(recast, k[2])

FollowsScene(k) ==
    IF HasInput(recast, k[2])
    THEN IsPresent(k) /\ ShowsScene(recast, k[2], navMesh[k])
    ELSE ~IsPresent(k)

(* Once nothing is under way the navigation mesh of every near tile is     *)
(* that of the current scene: "update starts background navmesh update     *)
(* using current scene state".                                             *)
NavMeshFollowsScene == \A k \in Keys : Quiescent(k) => FollowsScene(k)

(* The same, but for the changes that are lost: in a mesh stored too late, *)
(* behind a waiting job for a mesh that is gone, by removing a tile that   *)
(* was far when the job was taken, while the tile was out of range, or     *)
(* while it was far and built from an older copy.                          *)
NavMeshFollowsSceneUnlessLost ==
    \A k \in Keys \ lost : Quiescent(k) => FollowsScene(k)

=============================================================================
