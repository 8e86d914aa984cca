# TLA+ models of OpenMW for the web

This directory models the concurrent core of the program: what runs beside the main thread, or
between two of its frames. Each module is translated from the C++ source, model-checked on small
instances with TLC, and, for the components that everything else rests on, proved with TLAPS for
every value of its constants. `PROJECT.json` says for each definition which lines it models, for each
property which plausible bug breaks it, and lists the hazards the properties are for.

Paths below are relative to `src/openmw` unless they start with `play/` or `wasm-build/`.

    tlc -workers 2 -config NavMeshUpdaterDb.cfg MCNavMeshUpdater     # one run
    tlapm WorkQueueProofs.tla                                       # one module of proofs

## 1. Inventory

The program is OpenMW (an engine for Morrowind: C++, some 4000 files) with a port to WebAssembly.
The main thread runs the game frame by frame. Beside it, depending on build and settings, run
navigation mesh updaters and a database thread, work queue threads, physics threads, a Lua thread and
a sound thread. The web build adds a page (`play/`) that persists saves and streams files.

| Component | State it keeps | Operations | What is hard | What makes it correct |
|---|---|---|---|---|
| Navigation mesh updater, `components/detournavigator/asyncnavmeshupdater` | list of jobs, queue of waiting jobs, pushed keys, locked tiles, present tiles, job queue of the database thread | `post`, `wait`, `stop`; threads pop, process, defer, hand over and remove jobs | two kinds of thread pass list iterators around; jobs are delayed, expire, become far, fail | no iterator outlives its job; one job works on a tile; no post is dropped; `wait` and `stop` return |
| Recast mesh manager, `tilecachedrecastmeshmanager` | objects, water and heightfields by tile, range, worldspace, changed tiles, revision, cache of meshes with versions | add, update, remove; `setRange`, `setWorldspace`; `takeChangedTiles`; `getMesh` from threads | one mutex, released between copying the scene and storing the mesh | a mesh served shows the scene |
| Navigation mesh manager, `navmeshmanager`, `navmeshcacheitem` | a mesh per agent, its generation, player tile, last revision | `addAgent`, `reset`, `updateBounds`, `update`; threads set, clear and mark tiles | changes reach the mesh through changed tiles, a queue, a thread and a cache, while worldspace, agents and player change | at rest the mesh of every near tile is that of the scene |
| Work queue, `components/sceneutil/workqueue` | deque, released flag, done flag of items | `addWorkItem` (front or back, inline or threaded), `waitTillDone`, destructor | lost wakeups, items dropped at the end | each item runs once, in order; waits and the destructor return |
| Cell preloader, `apps/openmw/mwworld/cellpreloader` | cells with their items, terrain positions, views, items of terrain and cache | `preload`, `notifyLoaded`, `updateCache`, `setTerrain`, `setTerrainPreloadPositions`, `abort...`, `syncTerrainLoad` | items outlive their entries; views are shared between items; time; terrains and the renderer go away | one thread per view; only what was loaded counts as loaded; nothing works on a terrain that is gone |
| Scene, `apps/openmw/mwworld/scene` | active cells, worldspace | `changeCellGrid`, `changeToInteriorCell`, `addObjectToScene`, ... | order of its calls to everybody else | callers of the two above keep to their protocol |
| Physics scheduler, `apps/openmw/mwphysics/mtphysics`, `components/misc/barrier` | frame counters, steps, jobs, three barriers, two buffers of movements, positions of actors | `applyQueuedMovements`, `resetSimulation`, `releaseSharedStates`, destructor; threads simulate a frame while the game goes on | the game teleports, displaces and removes actors that are being simulated; reused barriers; two mutexes, a lock policy and two condition variables | each actor moves once per step; the game wins over a late result; a frame always ends |
| Web persistence, `play/index.html` | files in memory, in IndexedDB, in a folder; flags of the syncs | `__omwSyncfs`, `__omwSync`, `mirrorSavesToFolder`, `setupFolderSaves`, page events | everything is asynchronous and the page may close at any point | no save that was stored is lost, no deleted one returns |
| Streaming files, `play/streamfs.js` | shared buffer with a generation, LRU of chunks | synchronous read answered by a worker, timeout | late answers, short answers | a read returns the bytes of its file |
| Tiles cache, `navmeshtilescache` | free and used items, use counts, two sizes | `get`, `set`, release of a value by threads, meshes and the main thread | a use count that is not decremented under the mutex; sizes as unsigned differences | what is used is kept, what is kept fits |
| Lua worker and manager, `apps/openmw/mwlua` | update request, batches of events, queued actions, the game | `allowUpdate`, `finishUpdate`, `join`; `update`, `synchronizedUpdate`, `clear`; sending events | one condition variable in two directions; frames that fail; games that begin and end anywhere | scripts never run beside the game; each event arrives once, in order, in its own game |
| Resource caches and queue of references to drop, `components/resource`, `sceneutil/unrefqueue` | objects with time stamps | get, add, expire, clear | threads and main thread use and expire at once | what is in use is not dropped |
| Engine loop, `apps/openmw/engine` | everything above | frame, construction, destruction | order of destruction | nobody uses what is gone |
| The rest of the game, the tools, the editor, tests, vendored code, data | | | sequential, or file formats and widgets | covered by unit tests |

How they interact. `Scene` and `World::updateNavigator` change the recast mesh manager under its
mutex (the update guard) and then call `NavMeshManager::update`, which posts changed tiles to the
updater. Its threads call back into the recast mesh manager and into the mesh of an agent. The scene
asks the preloader for cells and terrain; the preloader adds items to the work queue and waits for
some. `World` hands a frame of movements to the physics scheduler, which calls back into the actors
and, for an actor that surfaces, into `World::moveObjectBy`. The engine owns world and work queue and
destroys them in this order.

## 2. Plan

In the order of what the game depends on:

1. `NavMeshUpdater` and its proofs: done.
2. `RecastMeshManager`, `NavMeshManager` and the proofs of their safety properties: done.
   `NavMeshTilesCache` and its proofs: done. To add: off-mesh connections.
3. `WorkPool`, `WorkQueue`, `CellPreloader` and their proofs: done.
4. `PhysicsScheduler` and the proofs of its safety properties: done. To add: the cache of lines of
   sight and the projectiles.
5. `SavePersistence`, `StreamFS` and the proofs of their safety properties: done.
6. `LuaManager` and its proofs: done. To add: timers, callbacks and the reloading of scripts.
7. In `NavMeshUpdater`: meshes that come and go (`mPresentTiles`). Then the resource caches.

Conventions. A module has its state as VARIABLES, one action per operation or per stretch of code
between two points where another thread can get in, parameters as CONSTANTS with a named ASSUME.
Definitions carry the source's names. Variables named *history* exist for properties only. A
definition headed *Deviation* is a plausible bug of the definition that follows it; it is used by no
action, and `PROJECT.json` pairs it with the property that it breaks. Bounds have names that begin
with `Max`, or are the sizes of constant sets.

## 3. The modules

### NavMeshUpdater (`asyncnavmeshupdater.cpp`)

`main`, `worker` and `db` say where the main thread, each updater thread and the database thread are.
`job` is the `std::list` of jobs: `JobIds` are its nodes and bound its length; a node that is erased
can be used again, which is how a stale iterator would show. `mWaiting` is the `JobQueue` (to remove,
to update by distance, delayed), `dbQueue` the queue of the database thread. One action per critical
section of `mMutex` or per stage of a job: `PostLock` (with `UpdateWaiting`), `PostTile`, `getNextJob` as
`GetNextJobTimeout`, `ResumeJob`, `DeferJob` and `StartJob` (lockTile), the stages of `processJob`, `EnqueueDbJob`, the steps of `DbWorker::run`, `UnlockTile`,
`RemoveJob`, the three waits, `stop`. Abstracted: the r-tree (nearest job first, ties in any order),
time (a delayed job is due or not, `TimePasses`), meshes (a job finds an empty tile, data or a miss).

### RecastMeshManager and NavMeshManager (`tilecachedrecastmeshmanager.cpp`, `navmeshmanager.cpp`)

`RecastMeshManager` is functions on a record, the manager's state; it has no actions. The objects and
cells of a scene cell are added and removed one after the other in the code, under the guard; as they
do not depend on each other, `AddObjects`, `RemoveObjects`, `AddStatics` and `RemoveStatics` say at once
what the sequence of calls does, each object stamped with a revision of its own.
`NavMeshManager` composes it with the scene and with threads that are what `NavMeshUpdater` shows
them to be. A thread copies the scene (`BuildMesh`), stores the mesh (`PutMesh`) and sets the tile in
separate steps, as the code does under separate locks. The main thread holds the update guard through
a change of cells, so a change is one step; posting is not. `stale` and `lost` are history: they
record the ways, named at `NavMeshFollowsSceneUnlessLost`, in which the code loses a change: `stale`
marks a cached mesh, `tainted` what a thread is about to write (`Overtaken` says when a copy is overtaken
by a change), `lost` a key of the mesh. A key leaves `lost` when a thread writes something right.

### WorkPool and WorkQueue (`workqueue.cpp`)

`WorkPool` is what the header promises: a queue, items running, items done. `WorkQueue` has the
threads, the mutexes and both condition variables; a critical section that tests and then sleeps is
several steps, with the mutex held between. `inline` is what the web build does unless
`OPENMW_WORKQUEUE_THREADED` is set: `addWorkItem` runs the item. It is chosen once, in `Init`.
`Pool == INSTANCE WorkPool WITH ...` is the refinement mapping.

### CellPreloader (`cellpreloader.cpp`, with `scene.cpp` and the end of `renderingmanager.cpp`)

The queue is an instance of `WorkPool`, so what holds here holds with the real queue. The main thread
stops inside a call where it waits for an item; `main.pc` tells these places apart. Calls come from
`Scene` in any order it allows; `DestroyWorld` and `DestroyQueue` are the end of the engine.
`preloaded` (history) is what items went through. `Awaited` is the item that the main thread waits for.

### NavMeshTilesCache (`navmeshtilescache.cpp`, and who holds its values)

`mFreeItems` and `mBusyItems` are the two lists, `mUseCount` the counts, and the two sizes are the
class's own. The users are the threads of the updater (`worker`: what a job has got or set, and which
item the local pointer points into), the tiles of meshes (`mUsedTiles`) and the main thread, which
replaces the mesh. A value that is destroyed is in `dropped` until its thread has gone through
`releaseItem`, in any order with the other values of a mesh that goes, and in two steps: `Decrement`,
which is outside the mutex, and `Splice`. When a thread
acquires an item between another's two steps, the C++ library gets a list and an iterator that do not
belong together; `raced` records that, and nothing follows.

### PhysicsScheduler (`mtphysics.cpp`, `barrier.hpp`, positions of `actor.cpp`)

`threads` is the set of physics threads, chosen in `Init` from what settings and Bullet allow; with
none, `Main` simulates. `main` is where the main thread is inside a call; between calls the game
teleports (`Teleport`), displaces (`MoveObjectBy`) and removes actors while threads simulate. A
barrier's callback runs while all threads are inside, so it is one step with the arrival of the last.
A position is the teleport it stems from and the displacements since: enough to tell whether a late
result undoes what the game did.

`waitForWorkers` is `WaitForWorkers` and what ends the wait: the last thread's report (`EndFrame`), or
nothing at all (`WakeSpuriously`), since the code waits once and without a predicate. Its callers go on
with the exclusive lock (`TakeLock`) all the same. `overtaken` is history: it says that the main thread
took that lock while a frame was unfinished. `crashed` ends the program: `afterPreStep` went through
`mSimulations` when that was null, which may follow.

### SavePersistence (`play/index.html`, saving and deleting in `statemanagerimp.cpp`)

`mem`, `idb` and `folder` say which write each file holds in memory, in IndexedDB and in the player's
folder; a page that closes loses `mem` and everything under way. `syncs` are the calls of `FS.syncfs`
under way, in the order of their transactions; the flags `syncing` and `syncAgain` are those of
`__omwSyncfs`. The steps of a sync (list the files, then copy entry by entry or commit) are those of
the IDBFS of Emscripten, read in `docs/openmw.js`, where the whole file is one line. The mirror stops
at each `await`: `MirrorFile`, `MirrorCreate`, `MirrorWrite`, `EndMirror`. `Flush` and `Loaded`
are called inside the actions of their callers. `loadMarred`, `flushFailed`, `deleted` and `unread`
are history: they name the circumstances in which a property does not promise anything. The rest of
`/userdata` (settings, screenshots) takes the same path and is not distinguished.

### StreamFS (`play/streamfs.js`)

`cache` is the `Map` in the order of its entries, `ctrl` and `data` the shared memory, `requests` what
the worker has not answered yet and `tail` the answer that it is writing. Both sides see each other's
writes one by one: `CopyByte` on one side, `WriteByte`, `WriteLength` and `Signal` on the other. The
worker is an `async` function, so it takes requests in any order up to its last `await`
(`BeginAnswer`) and writes without a break from there. `Timeout` is possible as long as no answer is
there, which is what 30 seconds without one look like. The specification is `StreamSpec`, a name of its
own because the proofs about the page extend this module and `SavePersistence`. Answers are the bytes asked for
(`play/server.py` serves ranges) or failures. `late` is history: during this request the answer to
another one was written.

### LuaManager (`mwlua/worker.cpp`, `luamanagerimp.cpp`, `luaevents.cpp`, `engine.cpp`)

`worker` is where `Worker::run` is, `main` where `Engine::frame` and `Engine::go` are, `update` where
`LuaManager::update` is, on either thread. `mMutex` says whether the worker holds it: the main thread
never keeps it past a step. Scripts (`ScriptRuns`) send events and queue actions wherever the main
thread runs Lua or the world, and in `update`. Games begin, end, are saved and are asked for at the
places of the frame where the code does so: menus, scripts of menus and `StateManager::update`.
`FrameThrows` is the `catch` of `Engine::frame`; `FrameIsAbandoned` that of the web's frame pump.
An event is its number and its game. The actor's teleport, which has a slot of its own and is applied
last, is one of the actions. `sent`, `delivered`, `saved`, `due`, `isNew` and `game` are history.

## 4. The runs

| Run | Instance | Shows |
|---|---|---|
| `navmesh_db` | 1 agent, 1 tile, 1 updater thread, database with writes, 2 list nodes | `NoPostIsForgotten`; with fairness `CallsReturn` (`wait`, `stop`), `JobsDrain`; types |
| `navmesh_threads` | 2 updater threads, database, player near and far, mesh replaced, failing generation | `JobsAreReferencedOnce`, `TilesAreOwnedOnce`, `PushedIsWaiting` |
| `scene_navmesh` | an exterior of two cells and two tiles and an interior, an object in either cell, a player who leaves, and at one place has a range with no near tile, an agent that is reset and added again | `ServedMeshShowsSceneUnlessStale`, `NavMeshFollowsSceneUnlessLost` |
| `scene_late_store` | one tile, one thread | `NavMeshFollowsScene` is violated |
| `workqueue` | 2 items, 2 workers or inline, 2 callers | places of items, wakeups, refinement of `WorkPool`, `CallsReturn` (all waits, `stop`) |
| `preloader` | 2 cells in a cache of 1, 2 places, 2 terrains, 2 threads or inline, 3 items, 3 seconds | six properties of what is loaded, by whom and for how long; nobody waits for a dropped item |
| `physics` | 2 actors, 0, 1 or 2 threads, 2 frames of up to 2 steps, 2 events, which bound the unasked wake-ups too | seven properties of frames, actors and the end |
| `saves` | 1 save of the game, 1 of the folder, 2 writes, 2 pages, 1 failing request | `UnstoredSaveIsOnItsWay`, `StoredSavesAreKept`, `FolderIsAuthoritative`, `StorageCatchesUp` |
| `lua` | with and without a worker, 2 events, 1 action, 2 games | `LuaRunsAlone`, `EventsArriveUnlessSaved`, `OnlyActionsOutliveTheirGame`; with fairness `FramesGoOn` |
| `lua_saved_events` | as `lua` | `EventsArrive` is violated |
| `tiles_cache` | 2 tiles with 2 recast meshes each, sizes 1 and 2 in a cache of 3, 2 threads, 2 meshes | `UsedDataIsKeptUnlessRaced`, `CacheFitsUnlessRaced` |
| `streaming` | 2 files of 2 chunks and 1, a cache of 2 chunks, reads of up to 3 bytes, 3 requests | `ReadsReturnTheFileUnlessLate`, `CacheHoldsWhatWasUsedLast`; with fairness `ReadsEnd` |

Why the bounds are enough. The updater's races are between two jobs of one key (two nodes, one tile),
or between jobs of one tile in the two kinds of thread; a second agent or tile adds keys that share
nothing but the queues, which the proofs cover for any number. The loss of a change takes one change,
one build and one post; two tiles are there for the object that moves between them, three updates
for the player who leaves and returns, and a place whose range has a tile that is not near because the
range is a square of tiles and what is near a circle in it (`getTilesPositions`, `shouldAddTile`). Two items and two workers suffice for a lost wakeup, and the
proofs cover any number. A preloader of two cells with a cache of one evicts at the second. Two
physics threads are where a barrier can be passed twice or an actor taken twice; two frames are where
one buffer is filled while the other is simulated; two steps where a counter must start over. Files
of a kind are independent of each other but for the sync that copies them, so one of each kind is
enough; two pages are one that stores and one that loads, and two writes are one that a flush has
listed and one that it has not. Two events are one sent before an update and one sent in it, and two
games the one that ends and the one that begins; the proofs cover any number. A cache of three units
with items of one and two evicts one item, or two, for a larger one. Three requests are one that times
out, one that its answer disturbs and one more; a read of three bytes takes two chunks.

Symmetry is used for threads, list nodes, actors, cells, terrains and meshes only in runs without liveness;
no action tells these apart.

Deadlock is checked in every run but six. In `physics` a frame bound or a destroyed scheduler ends a
behaviour, and so does a run in which a wait of the main thread ended unasked;
`SchedulerGoesOnUnlessWoken` says where it must not end, by guards and by ENABLED; in `saves` the
last page may be closed; in `lua` and `lua_saved_events` the program ends, and `FramesGoOn` says that it
does so or goes on; in `tiles_cache` and `streaming` a race or the bound on requests ends a behaviour,
and nobody there waits but a read, for which there is `ReadsEnd`.

Fairness. `FairSpec` of `NavMeshUpdater` and `WorkQueue` gives weak fairness to each thread: the
operating system runs it. Strong fairness is given where a thread takes a mutex that others take
again and again, which is the progress that implementations of `std::mutex` give. Posts,
new items and calls of the game have none: they may stop. Time passes fairly, as a clock
does. `CellPreloader`, `NavMeshTilesCache` and `PhysicsScheduler` need none: their properties are
about what is, and about who can go on. `LuaManager` has weak fairness for the steps of `update`, of
the worker and of the main thread's frame, which the system gives them; what a player or a script may
do has none. `StreamFS` has weak fairness for the thread that reads, and none for the worker: an answer
may never come.
`SavePersistence` has weak fairness for the answers of the browser to each kind of request and for the
timer, which goes off every 15 seconds while the page is there; the player and the game have none.

## 5. What the runs found

* `scene_late_store`: a mesh copied before a change and stored after `takeChangedTiles` keeps the
  version of its own copy and is served to the job posted for the change; the tile shows the old
  scene until something else changes it.
* `lua_saved_events`: events that wait when a game is saved are written and read back into the batch
  that the next update throws away before it delivers anything.

Met while modelling, and stated in the model where it ends:

* `CellPreloader`: items of cells that were loaded, evicted or expired are aborted but not waited for,
  so with threads they may still run when `RenderingManager` and its terrains are destroyed, although
  its destructor says that it lets the background threads finish (it only forgets its pointer to the
  queue, and the engine destroys the queue after the world, `engine.cpp`).
* `PhysicsScheduler`: `waitForWorkers` waits once, without a predicate. The model wakes the main thread
  unasked, and reaches three ends: it asks for the exclusive lock before the threads have the shared one,
  which the comment above the same function warns of; it raises `mFrameCounter` a second time while the
  threads report once, and then sleeps for a report that no thread owes (with one thread, two frames are
  enough); and it drops a frame (`resetSimulation`) whose steps a thread has still to simulate, which
  reads through `mSimulations`, a null pointer. `WorkersAreInWhenLockIsAskedUnlessWoken` and
  `SchedulerGoesOnUnlessWoken` therefore promise their parts up to such a wake-up of an unfinished frame
  (`IsUnasked`). What was done to actors, the jobs of a step, the two buffers and the end with one thread
  or none are right after it too: the other properties have no exception.
* `NavMeshTilesCache`: `releaseItem` decrements outside the mutex. After an acquisition in between, the
  item is spliced out of a list that it is not in, and what is in use may be evicted, which a test of
  the class (`set_should_not_replace_used_value`) says never happens.
* `StreamFS`: after a timeout, the late answer may be written over the answer of the next request,
  whose bytes are then wrong, also in the cache. The model marks such reads.
* `LuaManager`: `clear` leaves the queued actions (and the teleport), so that those of a game that
  ended are applied to the next one, although the header says that it resets the internal state. An
  exception of the rendering unwinds `Engine` and destroys the world before it joins the worker. On the
  web a frame that is abandoned in the middle of the queue of actions leaves the queue as it was.

More are listed under "hazards" and limit a property: with two or more physics threads the
scheduler's destructor can hang (a thread that is told to stop while asleep simulates once more and
waits at a barrier for one that has left), and the tile of a changed object can be lost in five ways,
named at `NavMeshFollowsSceneUnlessLost`. The last of these came up in its proof: a tile in range that is not near
is posted only for the meshes that have it, so when it changes while a thread builds it from an older
copy, for a mesh that does not have it yet, nothing is posted, and the mesh gets the old tile. A flush asked for while the page still loads, or after a load
that failed, deletes stored saves (the exceptions of `StoredSavesAreKept`). And the mirror to the
player's folder lists the directory of saves only (`NewMirror`), while the game writes its saves to a
directory per character below it: no save of the game reaches the folder, which `README.md:55` of the
repository promises.

## 6. What is proved

`NavMeshUpdaterProofs` (for any agents, tiles, threads and list nodes):

* `TypeCorrect`, `JobsReferencedOnce`: the inductive invariant is `IInv`, which joins `TypeOK`,
  `JobsAreReferencedOnce` and `JobsAreInStage`. Neither of the first two is inductive: that a thread's
  job is not also queued depends on where every other reference is, and what a step does to a job
  depends on the stage that its place implies. The lemmas go from who refers to a job (queues, threads,
  the database) to one lemma per kind of step: it moves a reference, takes one away or adds a new node.
* `TilesOwnedOnce`: from `IInv`, each step keeps the set of owners (running jobs and jobs on their
  trip through the database) equal to `mProcessingTiles`, with one owner per tile.
* `PushedWaits`: from `IInv`, each step either leaves the waiting jobs and what they are for, or adds
  or takes one job and one key together. After the queue is cleared by `stop()` it no longer holds.
* `PostsRemembered`: the invariant adds `OnlyReplacedExpire` (a job's `weak_ptr` expires only with
  its mesh). Then a key leaves `mPushed` only to a thread that reads for it (`Reads`), and a
  thread stops reading only when its job has looked at the scene or at the player's distance.

`NavMeshManagerProofs` (for any tiles, objects, cells, agents, threads and bounds; `SceneAssumption` and
`ManagerAssumption` say that tiles, objects, cells and agents are finite sets and that `None` is none of
the values it stands beside):

* `ManagerTypes`, `ServedMeshes`: the invariant is `CacheInv`. `ServedMeshShowsSceneUnlessStale` alone is not
  inductive: what a thread stores has to be right too. `SceneInv` says of the scene that a cached mesh
  whose version is its own shows its tile or the tile is marked (`CacheShows`), `CopiesInv` the same of
  the copy that a thread has made and not yet stored, unless it missed a change, and `ThreadsInv` who
  works for which key and whose mesh is still there. `Changes` is what every operation on the scene
  does: it leaves a tile in range as it was, or marks it and raises the revision.
* `NavMeshFollows`: beside `CacheInv` it needs `MeshInv`, per key. `WriteIsRight`: what a thread is about to
  write shows the scene, or the tile is marked, or a job will come that sees it (`WillFollow`), unless it is
  tainted. `TileIsRight`: a tile the mesh has shows the scene, or one of these holds, or a thread has it in
  work. `GapIsRight`: a tile that the mesh lacks and should have is awaited or in work. The hard case is
  `UpdateNavigator`, which takes the marks away and only begins to collect what to post: the obligation goes
  from the marked tile to the agents that are left to collect for, then to `toPost`, then to `pending`, and
  `post` may drop it behind a waiting job only if that job looks at the scene later, or into `lost`.

`CellPreloaderProofs` (for any cells, positions, terrains, items and sizes of the cache, whatever pairs
of positions are near):

* The theorems share the invariant `IInv`, which says where each unfinished item is held: a cell's by
  its entry unless it is aborted (`CellInv`), the sweep's and the terrain's by the one variable for it
  (`CacheInv`, `TerrainInv`). None of the properties is inductive: `ViewsAreLoadedByOneThread` and
  `OldTerrainWorkIsAborted` need that the unfinished terrain item is `mTerrainPreloadItem`, and
  `LoadedPositionsArePreloaded` that what is asked of that item was preloaded or is still to be,
  unless it is aborted, and that no positions are left then. `MainInv` keeps the queue until the
  preloader is gone. `Kept` says what every step does to the items that there are; three lemmas show it
  for steps that abort, add or change nothing, and the rest follows from it per part of the invariant.

`WorkQueueProofs` (for any items, workers and callers):

* `Typing` and `OnePlace`: each step starts an item, ends one, or leaves the places of items alone
  (`StepKinds`).
* `PoolImplemented`: `Spec => ImplementsPool`, from the same step kinds and `OnePlace`.
* `WaitersNotified`: the invariant adds `UndoneIsTested`: who is about to sleep for an item
  holds its mutex, and the item is not done.
* `ItemsHaveWorkers`, `NoSleepAfterStop`: the invariant adds `EmptyIsTested`: a worker
  about to sleep holds the mutex of a queue that is empty and not released. Then a step that adds an
  item wakes a sleeper, if there is one, and one that takes an item uses up one worker.

`PhysicsSchedulerProofs` (for any threads, actors, steps, frames and events; `PhysicsAssumption` says
that threads and actors are finite sets and that the main thread is not one of the threads):

* `NobodyIsShutOut`: nobody is shut out as long as no wait of the main thread has ended unasked. The
  invariant is `PhaseInv`, for which one count has to be right: a barrier's count
  is the number of threads that wait in its generation and have not been released (`BarrierInv`). So
  the last to come finds all others waiting (`LastArrival`), every phase ends for all threads at
  once, and nobody can meet the same barrier again before all have left it. `StepInv` says that all
  threads are in a step or none, `FrameInv` that all have finished the frame when the two frame
  counters are equal and where each thread's `lastFrame` stands then, unless a frame was overtaken.
  Everything else holds after that too: `StepInv` with the buffer of a step, because who takes the lock
  finds no one in a step (`LockFacts`), `StopInv`, what holds once the destructor runs, and `InlineInv`,
  that without threads the main thread simulates alone. `WokenInv` says that the program ends by a null
  pointer only after a frame was overtaken.
* `NoActorIsSkippedOrMovedTwice`: `JobsInv`. A job is still to be taken, has one thread at it, or is done
  once. When the last thread comes to the end of the step, nobody is at a job any more.
* `NoBufferIsShared`: `BufferInv`. Which buffer is next, which is simulated and which are empty depends on
  whether a frame was prepared and not yet handed over (`IsPending`).
* `NoTeleportIsUndone`, `NoDisplacementIsLost`: `PlaceInv`. The two properties alone are not inductive:
  that a result may be written needs that it started from where the actor is, unless the game has
  touched the actor since and left its mark (`skip`, `offset`).
* `NoActorIsLeftBehind`: `HeldInv`. Nobody can get hold of an actor that is being destroyed, and one
  thread destroys it.
* `NoDeadlock`: `NobodyWaitsInVain`, the half of `SchedulerGoesOnUnlessWoken` that says it with the guards of the code
  (`CanGoOn`). Beside `PhaseInv` it needs `WaitInv`: threads wait before a step only while steps remain
  and after the frame only when none does, so those who wait wait at one barrier, all of them would have
  filled it (`FrameGoesOn`), and a thread asleep has a frame to run. That a single thread exits is proved
  whatever the main thread did before; the rest up to a wait that ended unasked, after which it is not so. With two threads or more nothing is
  claimed about the destructor, which can hang (see the hazard at `stopWorkers`). That `CanGoOn` is
  what ENABLED says of a runner's steps, the other half, stays with TLC.
* `TypeCorrect`: the types, with unbounded counters.

`LuaManagerProofs` (for any events, actions and games, with a worker or without):

* `TypeCorrect`, `RunsAlone`: the invariant is `RunsInv`, which says who holds the lock, that the
  request stays set until `update` is over, and at which places the main thread can be meanwhile.
  `LuaRunsAlone` alone is not inductive: nothing in it keeps the main thread from going on.
* `OnlyActionsOutlive`, `EventsArriveInOrder`: the invariant is `EventInv`, one lemma per kind of step
  (an event is added, a game begins, a batch is finalized, delivered, nothing moves). That nothing is
  lost needs that the current batch holds only saved events when it is replaced (`ArrivalInv`), and
  that the new batch stays empty until the handlers are called, which is where `RunsInv` comes in.

`PageProofs`, of `SavePersistence` (for any files, pages, writes and failures; `NoneAssumption` keeps the mark of
an absent file apart from times and versions):

* `TypeCorrect`: the invariant `TypeInv` adds what the read of the folder has done so far (`ReadInv`).
* `SavesAreOnTheirWay`: syncs overlap after failures, so that the property alone is not inductive.
  `OrderInv`: there is one load at most, and of several flushes all but the last have met an error.
  `AgreeInv`: two versions of a file with the same time have the same bytes, in memory, in IndexedDB and
  in the puts under way, which is why `reconcile` may compare times only. `BoundInv`: nothing is newer
  than `now`. `CoveredInv`: for each file of memory, unless another flush is owed, a flush lists or puts
  what memory has and every later one leaves it alone, or IndexedDB has it and every flush leaves it.
* `StorageIsSafe`: `KeptInv`. What a flush has yet to put is not older than what IndexedDB has and
  not newer than memory (`StoreKept`), flushes put in order (`Before`), and a file that is stored or
  about to be (`Owed`) is missing from memory or from a listing only if the game deleted it, unless the
  listing belongs to one of the exceptions that the property names.
* `FolderIsSafe`: `MirroredInv` relates what was mirrored, the names that the mirror has read and the
  files in memory; `FolderInv` says that what was read of the folder is in memory, not older, and that
  the mirror writes nothing older than what the folder has.

`PageProofs`, of `StreamFS` (for files, chunks, caches and reads of any size, and any number of requests):

* `ReadsAreRight`: the invariant is `StreamInv`. What the shared memory holds at each place of the
  worker (`AnswerInv`) is tied to the chunk that `read` waits for (`AskedInv`), because the worker
  answers each request at most once (`Generations`) and a write for any other request makes the read
  late (`OwnAnswer`). From the copy (`CopyInv`) the bytes go to the cache and to the buffer, whose
  arithmetic (`ChunkOfPosition`, `TakeBytesKeepsBuffer`) TLC tries only for chunks of two bytes.
* `CacheIsOfLastUses`: the invariant is `LruInv`, which adds that no chunk is in the cache twice and that
  the chunk `read` waits for is not in it. Then a hit moves one place of the cache and the same place
  of the history to the end (`MovedToEnd`), and a new chunk pushes out the oldest of both (`PutAtEnd`).

`NavMeshTilesCacheProofs` (for any keys, sizes, limit, threads, tiles and meshes; `CacheAssumption` says
that threads, tiles and meshes are finite sets, without which nothing could be counted):

* `UsedDataIsKept`: the invariant is `CacheInv`. The use counts alone are not inductive: that what a job
  reads is in use after its `Value` went to a tile needs that the tile still has it (`JobInv`), hence that
  no other thread is at the tile and that the mesh stays while a job has it; and that an item leaves the
  busy list once needs that one thread at most releases it, at count zero (`ItemsInv`). `TilesCount`,
  `JobsCount` and `DropsCount` say what a step does to the three terms of `UsesOf`; a mesh that goes has
  one `Value` of a key at most, since a key has its tile (`TilesInv`).
* `CacheFits`: the part `SizesInv`. `EvictedItems` says that the shortest end of the free list that makes
  room does make it whenever `set` goes on (with `Fits`, all of it would), and that what is left of the
  list is what was not evicted; `SumOfRest` and `SumWithKey` follow the two sizes.
* Both hold as long as `raced` is false. Nothing is claimed after an item was acquired between the two
  steps of its release.

The proofs assume the modules' named assumptions on constants only, which TLC evaluates in the runs. Each
module has its own lemmas about the sequences it uses.

Only model-checked: liveness (`CallsReturn`, `JobsDrain`, `StorageCatchesUp`, `FramesGoOn`, `ReadsEnd`) and
`SchedulerGoesOnUnlessWoken` where it is stated with ENABLED, which are beyond the prover here. Every other
invariant and action property that a run checks is a theorem. That the closed forms of
`RecastMeshManager` agree with one call after the other is an argument by induction over a set, which
is not proved either.

## 7. What is not modelled

`PROJECT.json` lists every component. Of the modelled ones: off-mesh connections, doors' area ids,
infinite water, statistics, `processJobsSync` (nothing calls it), what dtNavMesh does with a tile;
what an item loads; collision boxes, projectiles, ray tests, the cache of lines of sight and the time
budgets of physics. Of the page, everything but saves: settings, the cache of game data, the mount,
workarounds for browsers, two pages open at once. That the mirror brings the folder up to date is not
checked, as it does not do so for what the game saves. Of the tiles cache, its statistics and the
database behind it. Of streaming, how a file is found and its node made, and servers that answer a
range with the whole file, whose bytes the page would take for the chunk. Of Lua, timers, callbacks,
events of the engine and of input devices, the reloading of scripts, and errors inside `update`, which
the code catches per script. `AsyncNavMeshUpdater::wait` of the web build, which returns at once,
and a save whose file cannot be written or is cut short (`saveGame` reports it, and asks for no flush).

Where the code has a flaw that the model shows, the property that stands in its way names the circumstance
(`raced`, `late`, `loadMarred`, `partial`, saved events, actions, `IsUnasked`) and says what
holds without it. These properties do not catch those flaws, which section 5 describes; they catch new ones.

The program has some 455000 lines; most of what is left is sequential, reads and writes formats, or
draws. Of the parts with threads of their own, the sound stream and the resource caches are not
modelled.

Everything sequential (rules of the game, file formats, scripts, widgets) is left to unit tests.
