---------------------------- MODULE CellPreloader ----------------------------
(***************************************************************************)
(* MWWorld::CellPreloader (apps/openmw/mwworld/cellpreloader.cpp): the     *)
(* main thread asks a work queue to load the models of cells it may need   *)
(* and the terrain around places the player may reach, keeps what was      *)
(* loaded alive, and aborts what it no longer wants.                       *)
(*                                                                         *)
(* The queue is WorkPool, which WorkQueue implements.  The main thread     *)
(* stops inside a call only where it waits for an item; its steps there    *)
(* are told apart by main.pc.  Places less than 128 units apart are one    *)
(* element of Positions; what a PreloadItem loads is left out, but not     *)
(* that it uses the terrain it was created with.                           *)
(***************************************************************************)
EXTENDS Queues

CONSTANTS
    Cells,
    Positions,      \* PositionCellGrids
    Near,           \* pairs with the same grid, less than a cell apart
    NoPosition,
    Terrains,       \* Terrain::Worlds, one per exterior worldspace
    NoTerrain,
    Threads,        \* number of worker threads
    mMinCacheSize, mMaxCacheSize, mExpiryDelay,
    MaxItems,       \* bound: work items in a behaviour
    MaxTime         \* bound: seconds

ItemIds == 1..MaxItems
NoItem == 0

ASSUME PreloaderAssumption ==
    /\ Near \subseteq Positions \X Positions /\ \A p \in Positions : <<p, p>> \in Near
    /\ NoPosition \notin Positions /\ NoTerrain \notin Terrains /\ Terrains # {}
    /\ Threads \in Nat \ {0} /\ MaxItems \in Nat /\ MaxTime \in Nat
    /\ mMinCacheSize \in Nat /\ mMaxCacheSize \in Nat /\ mExpiryDelay \in Nat

VARIABLES
    queue, running, done, destroyed, inline,    \* the work queue
    items,          \* sequence of the items created so far
    mPreloadCells,  \* cell -> [mTimeStamp, mWorkItem]
    mTerrain,
    mTerrainPreloadPositions, mTerrainPreloadItem, mLoadedTerrainPositions,
    mUpdateCacheItem, mLastResourceCacheUpdate,
    main,           \* [pc, terrain, position, next]: the main thread
    now,            \* reference time
    preloaded,      \* history: <<terrain, position>> pairs an item went through
    carried         \* history: loaded positions were kept by setTerrain

poolVars == <<queue, running, done, destroyed, inline>>
terrainVars == <<mTerrainPreloadPositions, mTerrainPreloadItem, mLoadedTerrainPositions,
                 carried>>
cacheVars == <<mUpdateCacheItem, mLastResourceCacheUpdate>>
vars == <<poolVars, items, mPreloadCells, mTerrain, terrainVars, cacheVars, main, now,
          preloaded>>

Pool == INSTANCE WorkPool WITH Items <- ItemIds

Item == [kind : {"cell", "terrain", "cache"},
         terrain : Terrains \cup {NoTerrain},   \* the one doWork uses
         left : SUBSET Positions,               \* positions to preload
         aborted : BOOLEAN]

Created == DOMAIN items
Unfinished == Created \ done
OfKind(k) == {i \in Created : items[i].kind = k}
IsDone(i) == i \in done

(* The main thread is where it may call the preloader; without threads it  *)
(* is also where items run.                                                *)
MainAt(pc) == main.pc = pc /\ (inline => running = {})
Continue(pc) == main' = [main EXCEPT !.pc = pc]

Init ==
    /\ Pool!Init
    /\ items = <<>>
    /\ mPreloadCells = <<>>
    /\ mTerrain \in Terrains
    /\ mTerrainPreloadPositions = {} /\ mLoadedTerrainPositions = {}
    /\ mTerrainPreloadItem = NoItem
    /\ mUpdateCacheItem = NoItem /\ mLastResourceCacheUpdate = 0
    /\ main = [pc |-> "idle", terrain |-> NoTerrain, position |-> NoPosition, next |-> "idle"]
    /\ now = 0
    /\ preloaded = {} /\ carried = FALSE

-----------------------------------------------------------------------------
(* Work items                                                              *)

AbortAll(its, S) ==
    [i \in DOMAIN its |-> IF i \in S THEN [its[i] EXCEPT !.aborted = TRUE] ELSE its[i]]

NewItem(kind, terrain, positions) ==
    [kind |-> kind, terrain |-> terrain, left |-> positions, aborted |-> FALSE]

NextId == Len(items) + 1

(* addWorkItem, of an item just created.                                   *)
AddItem(front) ==
    /\ NextId \in ItemIds
    /\ Pool!Add(NextId)
    /\ ~inline => queue' = IF front THEN <<NextId>> \o queue ELSE Append(queue, NextId)

(* TerrainPreloadItem::doWork preloads one position.                       *)
PreloadPosition(i) ==
    /\ i \in running /\ ~items[i].aborted
    /\ \E p \in items[i].left :
         /\ items' = [items EXCEPT ![i].left = @ \ {p}]
         /\ preloaded' = preloaded \cup {<<items[i].terrain, p>>}
    /\ UNCHANGED <<poolVars, mPreloadCells, mTerrain, terrainVars, cacheVars, main, now>>

(* It completes its loading reporter when nothing is left or it is aborted. *)
IsComplete(i) == items[i].aborted \/ items[i].left = {}

FinishWork(i) ==
    /\ i \in running /\ IsComplete(i)
    /\ Pool!Complete(i)
    /\ UNCHANGED <<items, mPreloadCells, mTerrain, terrainVars, cacheVars, main, now, preloaded>>

BeginWork ==
    /\ Cardinality(running) < Threads
    /\ Pool!Begin
    /\ UNCHANGED <<items, mPreloadCells, mTerrain, terrainVars, cacheVars, main, now, preloaded>>

-----------------------------------------------------------------------------
(* Cells                                                                   *)

Preloaded == DOMAIN mPreloadCells
Without(S) == [c \in Preloaded \ S |-> mPreloadCells[c]]
ItemsOf(S) == {mPreloadCells[c].mWorkItem : c \in S}
StampOf(c) == mPreloadCells[c].mTimeStamp

(* The cells that may be thrown out to make room: none is older, and it    *)
(* was not asked for within the last second.                               *)
Evictable == {c \in Preloaded : /\ \A d \in Preloaded : StampOf(c) <= StampOf(d)
                                /\ StampOf(c) + 1 < now}

(* Deviation: the cache is one larger.                                     *)
PreloadOneMore(c) ==
    /\ MainAt("idle") /\ c \notin Preloaded
    /\ \E evicted \in IF Cardinality(Preloaded) > mMaxCacheSize
                      THEN {{d} : d \in Evictable} ELSE {{}} :
         /\ items' = Append(AbortAll(items, ItemsOf(evicted)), NewItem("cell", mTerrain, {}))
         /\ mPreloadCells' = [d \in (Preloaded \ evicted) \cup {c} |->
                                IF d = c THEN [mTimeStamp |-> now, mWorkItem |-> NextId]
                                ELSE mPreloadCells[d]]
    /\ AddItem(FALSE)
    /\ UNCHANGED <<mTerrain, terrainVars, cacheVars, main, now, preloaded>>

RefreshPreload(c) ==
    /\ MainAt("idle") /\ c \in Preloaded
    /\ mPreloadCells' = [mPreloadCells EXCEPT ![c].mTimeStamp = now]
    /\ UNCHANGED <<poolVars, items, mTerrain, terrainVars, cacheVars, main, now, preloaded>>

(* The loop that makes room runs at most once: the cache is never larger   *)
(* than mMaxCacheSize (PreloadFitsCache).                                  *)
Preload(c) ==
    /\ MainAt("idle") /\ c \notin Preloaded
    /\ \E evicted \in IF Cardinality(Preloaded) >= mMaxCacheSize
                      THEN {{d} : d \in Evictable} ELSE {{}} :
         /\ items' = Append(AbortAll(items, ItemsOf(evicted)), NewItem("cell", mTerrain, {}))
         /\ mPreloadCells' = [d \in (Preloaded \ evicted) \cup {c} |->
                                IF d = c THEN [mTimeStamp |-> now, mWorkItem |-> NextId]
                                ELSE mPreloadCells[d]]
    /\ AddItem(FALSE)
    /\ UNCHANGED <<mTerrain, terrainVars, cacheVars, main, now, preloaded>>

(* Deviation: the entry goes, but its item is not aborted.                 *)
ForgetCells(S) ==
    /\ MainAt("idle")
    /\ mPreloadCells' = Without(S)
    /\ UNCHANGED <<poolVars, items, mTerrain, terrainVars, cacheVars, main, now, preloaded>>

AbortCells(S) ==
    /\ MainAt("idle")
    /\ items' = AbortAll(items, ItemsOf(S))
    /\ mPreloadCells' = Without(S)
    /\ UNCHANGED <<poolVars, mTerrain, terrainVars, cacheVars, main, now, preloaded>>

NotifyLoaded(c) == c \in Preloaded /\ AbortCells({c})
Clear == Preloaded # {} /\ AbortCells(Preloaded)

(* updateCache throws out expired cells, in the map's order of addresses,  *)
(* while the cache has its minimum size.                                   *)
ExpiredCells ==
    LET old == {c \in Preloaded : StampOf(c) + mExpiryDelay < now}
        spare == Cardinality(Preloaded) + 1 - mMinCacheSize
        count == IF Cardinality(Preloaded) < mMinCacheSize THEN 0
                 ELSE IF spare < Cardinality(old) THEN spare ELSE Cardinality(old)
    IN  {S \in SUBSET old : Cardinality(S) = count}

CacheUpdateIsDue ==
    /\ now > mLastResourceCacheUpdate + 1
    /\ mUpdateCacheItem = NoItem \/ IsDone(mUpdateCacheItem)

UpdateCache ==
    /\ MainAt("idle")
    /\ \E S \in ExpiredCells :
         /\ mPreloadCells' = Without(S)
         /\ IF CacheUpdateIsDue
            THEN /\ items' = Append(AbortAll(items, ItemsOf(S)), NewItem("cache", NoTerrain, {}))
                 /\ AddItem(TRUE)
                 /\ mUpdateCacheItem' = NextId
                 /\ mLastResourceCacheUpdate' = now
            ELSE /\ items' = AbortAll(items, ItemsOf(S))
                 /\ UNCHANGED <<poolVars, cacheVars>>
    /\ IF mTerrainPreloadItem # NoItem /\ IsDone(mTerrainPreloadItem)
       THEN mLoadedTerrainPositions' = mTerrainPreloadPositions /\ carried' = FALSE
       ELSE UNCHANGED <<mLoadedTerrainPositions, carried>>
    /\ UNCHANGED <<mTerrain, mTerrainPreloadPositions, mTerrainPreloadItem, main, now,
                   preloaded>>

-----------------------------------------------------------------------------
(* Terrain around positions                                                *)

TerrainIsBusy == mTerrainPreloadItem # NoItem /\ ~IsDone(mTerrainPreloadItem)

(* Deviation: a new item is made while the last one still uses the views.  *)
SetPositionsAtOnce(ps) ==
    IF ps # {} /\ ps \subseteq mTerrainPreloadPositions
    THEN UNCHANGED <<terrainVars, items, poolVars>>
    ELSE /\ mTerrainPreloadPositions' = ps
         /\ IF ps = {} THEN mLoadedTerrainPositions' = {} /\ carried' = FALSE
            ELSE UNCHANGED <<mLoadedTerrainPositions, carried>>
         /\ IF ps = {} THEN UNCHANGED <<mTerrainPreloadItem, items, poolVars>>
            ELSE /\ items' = Append(items, NewItem("terrain", mTerrain, ps))
                 /\ AddItem(FALSE)
                 /\ mTerrainPreloadItem' = NextId

(* setTerrainPreloadPositions.  While the last item is not done it only    *)
(* forgets: all items are given the same views.                            *)
SetPositions(ps) ==
    IF ps # {} /\ ps \subseteq mTerrainPreloadPositions
    THEN UNCHANGED <<terrainVars, items, poolVars>>
    ELSE /\ mTerrainPreloadPositions' =
               IF ps # {} /\ TerrainIsBusy THEN mTerrainPreloadPositions ELSE ps
         /\ IF ps = {} THEN mLoadedTerrainPositions' = {} /\ carried' = FALSE
            ELSE UNCHANGED <<mLoadedTerrainPositions, carried>>
         /\ IF ps = {} \/ TerrainIsBusy
            THEN UNCHANGED <<mTerrainPreloadItem, items, poolVars>>
            ELSE /\ items' = Append(items, NewItem("terrain", mTerrain, ps))
                 /\ AddItem(FALSE)
                 /\ mTerrainPreloadItem' = NextId

(* preloadCells, every frame; reloadTerrain with none.                     *)
SetTerrainPreloadPositions(ps) ==
    /\ MainAt("idle")
    /\ SetPositions(ps)
    /\ UNCHANGED <<mPreloadCells, mTerrain, cacheVars, main, now, preloaded>>

IsNear(ps, position) == \E p \in ps : <<p, position>> \in Near

(* abortTerrainPreloadExcept; the caller goes on at next.                  *)
AbortExcept(position, next) ==
    IF IsNear(mTerrainPreloadPositions, position)
    THEN Continue(next) /\ UNCHANGED <<terrainVars, items, poolVars>>
    ELSE IF TerrainIsBusy
    THEN /\ items' = AbortAll(items, {mTerrainPreloadItem})
         /\ main' = [main EXCEPT !.pc = "aborting", !.next = next]
         /\ UNCHANGED <<terrainVars, poolVars>>
    ELSE Continue(next) /\ SetPositions({})

(* Deviation: the positions of the aborted item are kept.                  *)
FinishAbortOnly ==
    /\ MainAt("aborting") /\ ~TerrainIsBusy
    /\ UNCHANGED <<terrainVars, items, poolVars>>
    /\ Continue(main.next)
    /\ UNCHANGED <<mPreloadCells, mTerrain, cacheVars, now, preloaded>>

FinishAbort ==
    /\ MainAt("aborting") /\ ~TerrainIsBusy
    /\ SetPositions({})
    /\ Continue(main.next)
    /\ UNCHANGED <<mPreloadCells, mTerrain, cacheVars, now, preloaded>>

-----------------------------------------------------------------------------
(* clearAllTasks, from setTerrain and the destructor: it waits for the     *)
(* terrain, for the cache, and for the cells that are still in the map.    *)

StartClearing(terrain, position) ==
    /\ main' = [pc |-> "clearing", terrain |-> terrain, position |-> position, next |-> "idle"]
    /\ items' = AbortAll(items, {mTerrainPreloadItem})
    /\ UNCHANGED <<poolVars, mPreloadCells, mTerrain, terrainVars, cacheVars, now, preloaded>>

(* Deviation: it does not wait for the terrain.                            *)
ClearTerrainAtOnce ==
    /\ MainAt("clearing")
    /\ mTerrainPreloadItem' = NoItem
    /\ Continue("clearingCache")
    /\ UNCHANGED <<poolVars, items, mPreloadCells, mTerrain, mTerrainPreloadPositions,
                   mLoadedTerrainPositions, carried, cacheVars, now, preloaded>>

ClearTerrain ==
    /\ MainAt("clearing") /\ ~TerrainIsBusy
    /\ mTerrainPreloadItem' = NoItem
    /\ Continue("clearingCache")
    /\ UNCHANGED <<poolVars, items, mPreloadCells, mTerrain, mTerrainPreloadPositions,
                   mLoadedTerrainPositions, carried, cacheVars, now, preloaded>>

ClearCache ==
    /\ MainAt("clearingCache")
    /\ mUpdateCacheItem # NoItem => IsDone(mUpdateCacheItem)
    /\ mUpdateCacheItem' = NoItem
    /\ items' = AbortAll(items, ItemsOf(Preloaded))
    /\ Continue("clearingCells")
    /\ UNCHANGED <<poolVars, mPreloadCells, mTerrain, terrainVars, mLastResourceCacheUpdate,
                   now, preloaded>>

(* setTerrain then changes the terrain, and keeps the positions.           *)
ClearCells ==
    /\ MainAt("clearingCells")
    /\ \A c \in Preloaded : IsDone(mPreloadCells[c].mWorkItem)
    /\ mPreloadCells' = <<>>
    /\ IF main.terrain = NoTerrain
       THEN Continue("gone") /\ UNCHANGED <<mTerrain, carried>>
       ELSE /\ Continue("switched")
            /\ mTerrain' = main.terrain
            /\ carried' = (carried \/ mLoadedTerrainPositions # {})
    /\ UNCHANGED <<poolVars, items, mTerrainPreloadPositions, mTerrainPreloadItem,
                   mLoadedTerrainPositions, cacheVars, now, preloaded>>

-----------------------------------------------------------------------------
(* Scene::changeCellGrid                                                   *)

SetTerrain(terrain, position) ==
    /\ MainAt("idle") /\ NextId \in ItemIds
    /\ IF terrain # mTerrain THEN StartClearing(terrain, position)
       ELSE /\ main' = [pc |-> "switched", terrain |-> terrain, position |-> position,
                        next |-> "idle"]
            /\ UNCHANGED <<poolVars, items, mPreloadCells, mTerrain, terrainVars, cacheVars,
                           now, preloaded>>

(* pagingUnlockCache says whether objects were enabled or disabled since.  *)
UnlockPaging ==
    /\ MainAt("switched")
    /\ \/ AbortExcept(NoPosition, "check")
       \/ Continue("check") /\ UNCHANGED <<terrainVars, items, poolVars>>
    /\ UNCHANGED <<mPreloadCells, mTerrain, cacheVars, now, preloaded>>

(* isTerrainLoaded is also false when what was loaded may have expired.    *)
CheckTerrain ==
    /\ MainAt("check")
    /\ \/ /\ IsNear(mLoadedTerrainPositions, main.position)
          /\ Continue("idle")
          /\ UNCHANGED <<terrainVars, items, poolVars>>
       \/ AbortExcept(main.position, "preload")
    /\ UNCHANGED <<mPreloadCells, mTerrain, cacheVars, now, preloaded>>

PreloadTerrain ==
    /\ MainAt("preload")
    /\ SetPositions({main.position})
    /\ Continue("syncing")
    /\ UNCHANGED <<mPreloadCells, mTerrain, cacheVars, now, preloaded>>

(* syncTerrainLoad waits for the item's loading reporter.                  *)
SyncTerrainLoad ==
    /\ MainAt("syncing")
    /\ TerrainIsBusy => mTerrainPreloadItem \in running /\ IsComplete(mTerrainPreloadItem)
    /\ Continue("idle")
    /\ UNCHANGED <<poolVars, items, mPreloadCells, mTerrain, terrainVars, cacheVars, now,
                   preloaded>>

-----------------------------------------------------------------------------
Tick ==
    /\ MainAt("idle") /\ now < MaxTime
    /\ now' = now + 1
    /\ UNCHANGED <<poolVars, items, mPreloadCells, mTerrain, terrainVars, cacheVars, main,
                   preloaded>>

(* World is destroyed: its scene with the preloader, then its rendering    *)
(* manager with every terrain.  The engine keeps the work queue longer.    *)
DestroyWorld == MainAt("idle") /\ StartClearing(NoTerrain, NoPosition)

(* Deviation: the engine lets go of the queue before it destroys World.    *)
DestroyQueueFirst ==
    /\ Pool!Destroy
    /\ UNCHANGED <<items, mPreloadCells, mTerrain, terrainVars, cacheVars, main, now, preloaded>>

(* ~WorkQueue; Engine::~Engine resets mWorld first.                       *)
DestroyQueue ==
    /\ MainAt("gone")
    /\ Pool!Destroy
    /\ UNCHANGED <<items, mPreloadCells, mTerrain, terrainVars, cacheVars, main, now, preloaded>>

Terminated == MainAt("gone") /\ destroyed /\ running = {} /\ UNCHANGED vars

MainStep ==
    \/ FinishAbort
    \/ ClearTerrain \/ ClearCache \/ ClearCells
    \/ UnlockPaging \/ CheckTerrain \/ PreloadTerrain \/ SyncTerrainLoad

Call ==
    \/ \E c \in Cells : RefreshPreload(c) \/ Preload(c) \/ NotifyLoaded(c)
    \/ Clear \/ UpdateCache
    \/ \E ps \in SUBSET Positions : SetTerrainPreloadPositions(ps)
    \/ \E t \in Terrains, p \in Positions : SetTerrain(t, p)
    \/ Tick \/ DestroyWorld

WorkerStep == BeginWork \/ \E i \in ItemIds : PreloadPosition(i) \/ FinishWork(i)

Next == Call \/ MainStep \/ WorkerStep \/ DestroyQueue \/ Terminated

Spec == Init /\ [][Next]_vars

-----------------------------------------------------------------------------
(* Safety                                                                  *)

TypeOK ==
    /\ items \in Seq(Item) /\ Len(items) <= MaxItems
    /\ queue \in Seq(Created)
    /\ running \subseteq Created /\ done \subseteq Created
    /\ destroyed \in BOOLEAN /\ inline \in BOOLEAN
    /\ Preloaded \subseteq Cells
    /\ \A c \in Preloaded : StampOf(c) \in 0..now /\ mPreloadCells[c].mWorkItem \in OfKind("cell")
    /\ mTerrain \in Terrains
    /\ mTerrainPreloadPositions \subseteq Positions
    /\ mLoadedTerrainPositions \subseteq Positions
    /\ mTerrainPreloadItem \in {NoItem} \cup OfKind("terrain")
    /\ mUpdateCacheItem \in {NoItem} \cup OfKind("cache")
    /\ mLastResourceCacheUpdate \in 0..now /\ now \in 0..MaxTime
    /\ main.terrain \in Terrains \cup {NoTerrain} /\ main.position \in Positions \cup {NoPosition}
    /\ main.pc \in {"idle", "switched", "aborting", "check", "preload", "syncing", "clearing",
                    "clearingCache", "clearingCells", "gone"}

(* All terrain items are given the same views, and a view may not be       *)
(* loaded into from two threads at once (components/terrain/world.hpp):    *)
(* one item is done before the next is made, whoever made and aborted it.  *)
ViewsAreLoadedByOneThread ==
    \A i, j \in OfKind("terrain") \cap Unfinished : i = j

(* Scene::preloadCellWithSurroundings subtracts the size of the cache from *)
(* mMaxCacheSize, unsigned.                                                *)
PreloadFitsCache == Cardinality(Preloaded) <= mMaxCacheSize

(* A cell counts as preloaded only while its own item works for it: what   *)
(* was aborted is forgotten, what is forgotten is aborted.  The caches are *)
(* swept by one item, the one that updateCache looks at.                   *)
EntriesArePreloading ==
    /\ \A c, d \in Preloaded : ItemsOf({c}) = ItemsOf({d}) => c = d
    /\ main.pc # "clearingCells" =>
         \A i \in OfKind("cell") \cap Unfinished :
             items[i].aborted <=> i \notin ItemsOf(Preloaded)
    /\ OfKind("cache") \cap Unfinished \subseteq {mUpdateCacheItem}

(* Terrain is reported as loaded only where an item that was not aborted   *)
(* went, on the terrain in use unless setTerrain kept the positions.       *)
LoadedPositionsArePreloaded ==
    \A p \in mLoadedTerrainPositions :
        \E t \in Terrains : <<t, p>> \in preloaded /\ (t = mTerrain \/ carried)

(* After setTerrain and after the preloader is destroyed only work that    *)
(* was aborted earlier, and dropped, still uses the other terrain.         *)
OldTerrainWorkIsAborted ==
    \A i \in Unfinished \ OfKind("cache") :
        items[i].terrain # mTerrain \/ main.pc = "gone" =>
            items[i].kind = "cell" /\ items[i].aborted

(* The items the main thread waits for inside a call.                      *)
Awaited ==
    CASE main.pc \in {"aborting", "clearing", "syncing"} -> {mTerrainPreloadItem} \cap Created
      [] main.pc = "clearingCache" -> {mUpdateCacheItem} \cap Created
      [] main.pc = "clearingCells" -> ItemsOf(Preloaded)
      [] OTHER -> {}

(* Every call returns: an item the main thread waits for is done, worked   *)
(* on or still in the queue, so the queue may not be destroyed before the  *)
(* preloader, and waitTillDone is never called for an item never added.    *)
AwaitedItemsAreAlive == Awaited \subseteq done \cup running \cup Elements(queue)
=============================================================================
