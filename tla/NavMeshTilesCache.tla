-------------------------- MODULE NavMeshTilesCache --------------------------
(***************************************************************************)
(* NavMeshTilesCache (components/detournavigator/navmeshtilescache.cpp):   *)
(* the prepared data of navigation mesh tiles, in a cache of limited size, *)
(* kept while a Value refers to it.  The threads of AsyncNavMeshUpdater    *)
(* get and set data and give their Values to the tiles of navigation       *)
(* meshes; a mesh is dropped by whoever holds its last reference, the main *)
(* thread or a worker.                                                     *)
(*                                                                         *)
(* releaseItem decrements a use count outside the mutex.  When another     *)
(* thread acquires the item between that and the splice, the item is       *)
(* spliced from a list it is not in, which is undefined: raced is set and  *)
(* the behaviour ends there.                                               *)
(***************************************************************************)
EXTENDS Integers, Queues, SequencesExt, FiniteSetsExt

CONSTANTS
    Keys,           \* agent, tile and recast mesh
    Tiles,
    TileOf,         \* the tile of a key
    SizeOf,         \* the size of its item
    Workers,
    Main,           \* the main thread
    Meshes,         \* navigation meshes of the agent
    mMaxNavMeshDataSize,
    None

ASSUME CacheAssumption ==
    /\ TileOf \in [Keys -> Tiles] /\ SizeOf \in [Keys -> Nat \ {0}]
    /\ mMaxNavMeshDataSize \in Nat
    /\ Main \notin Workers /\ None \notin Keys \cup Meshes
    /\ IsFiniteSet(Tiles) /\ IsFiniteSet(Meshes) /\ IsFiniteSet(Workers)

Threads == Workers \cup {Main}

VARIABLES
    mFreeItems,     \* sequence of keys, most recently used first
    mBusyItems,     \* set of keys
    mUseCount,
    mUsedNavMeshDataSize, mFreeNavMeshDataSize,
    mUsedTiles,     \* [Meshes -> [Tiles -> the key of mCached, or None]]
    current,        \* the mesh that NavMeshManager has
    worker,         \* what its job is at, holds and reads
    dropped,        \* set: Values a thread has still to destroy, in any order
    released,       \* the key whose count a thread decremented to zero
    raced           \* history

cacheVars == <<mFreeItems, mBusyItems, mUseCount, mUsedNavMeshDataSize,
               mFreeNavMeshDataSize, raced>>
vars == <<cacheVars, mUsedTiles, current, worker, dropped, released>>

(* value: the local Value; data: the item the local pointer points into.   *)
Idle == [pc |-> "idle", key |-> None, mesh |-> None, value |-> None, data |-> None]

Init ==
    /\ mFreeItems = <<>> /\ mBusyItems = {}
    /\ mUseCount = [k \in Keys |-> 0]
    /\ mUsedNavMeshDataSize = 0 /\ mFreeNavMeshDataSize = 0
    /\ mUsedTiles = [m \in Meshes |-> [t \in Tiles |-> None]]
    /\ current \in Meshes
    /\ worker = [w \in Workers |-> Idle]
    /\ dropped = [h \in Threads |-> {}]
    /\ released = [h \in Threads |-> None]
    /\ raced = FALSE

-----------------------------------------------------------------------------
(* The cache.  Everything but the decrement is under mMutex.               *)

mValues == Elements(mFreeItems) \cup mBusyItems

(* What items take, one element per unit of size.                          *)
Units(S) == UNION {{k} \X (1..SizeOf[k]) : k \in S}
Sum(S) == Cardinality(Units(S))

Unlinked(free, k) ==
    IF k \in Elements(free) THEN RemoveAt(free, CHOOSE i \in DOMAIN free : free[i] = k) ELSE free

(* acquireItemUnsafe, when the items are free and size is their total.     *)
Acquire(k, free, size) ==
    /\ mUseCount' = [mUseCount EXCEPT ![k] = @ + 1]
    /\ IF mUseCount[k] > 0
       THEN /\ mFreeItems' = free /\ mFreeNavMeshDataSize' = size
            /\ UNCHANGED <<mBusyItems, raced>>
       ELSE /\ mBusyItems' = mBusyItems \cup {k}
            /\ mFreeItems' = Unlinked(free, k)
            /\ mFreeNavMeshDataSize' = size - SizeOf[k]
            /\ raced' = (k \notin Elements(free))

(* The least recently used items make room, as few as it takes, or all.    *)
Rest(n) == SubSeq(mFreeItems, n + 1, Len(mFreeItems))

Kept(k) ==
    LET enough(n) == mUsedNavMeshDataSize + SizeOf[k]
                        <= mMaxNavMeshDataSize + Sum(Elements(Rest(n)))
    IN  SubSeq(mFreeItems, 1, Max({0} \cup {n \in 1..Len(mFreeItems) : enough(n)}))

Evicted(k) == Elements(mFreeItems) \ Elements(Kept(k))

(* Deviation: what is free is not looked at.                               *)
FitsTheCache(k) == SizeOf[k] <= mMaxNavMeshDataSize

Fits(k) == SizeOf[k] <= mFreeNavMeshDataSize + (mMaxNavMeshDataSize - mUsedNavMeshDataSize)

(* set(): an item of the key that is there already is used instead.        *)
Insert(k) ==
    LET evicted == Sum(Evicted(k))
    IN  IF k \in mValues \ Evicted(k)
        THEN /\ mUsedNavMeshDataSize' = mUsedNavMeshDataSize - evicted
             /\ Acquire(k, Kept(k), mFreeNavMeshDataSize - evicted)
        ELSE /\ mUsedNavMeshDataSize' = mUsedNavMeshDataSize - evicted + SizeOf[k]
             /\ mFreeNavMeshDataSize' = mFreeNavMeshDataSize - evicted
             /\ mFreeItems' = Kept(k)
             /\ mBusyItems' = mBusyItems \cup {k}
             /\ mUseCount' = [mUseCount EXCEPT ![k] = 1]
             /\ UNCHANGED raced

(* ~Value: releaseItem up to the lock.                                     *)
Decrement(h) ==
    /\ released[h] = None
    /\ \E k \in dropped[h] :
         /\ mUseCount' = [mUseCount EXCEPT ![k] = @ - 1]
         /\ released' = [released EXCEPT ![h] = IF mUseCount[k] = 1 THEN k ELSE None]
         /\ dropped' = [dropped EXCEPT ![h] = @ \ {k}]
    /\ UNCHANGED <<mFreeItems, mBusyItems, mUsedNavMeshDataSize, mFreeNavMeshDataSize, raced,
                   mUsedTiles, current, worker>>

(* Deviation: the size is not counted as free.                             *)
SpliceOnly(h) ==
    /\ released[h] # None
    /\ mBusyItems' = mBusyItems \ {released[h]}
    /\ mFreeItems' = <<released[h]>> \o mFreeItems
    /\ released' = [released EXCEPT ![h] = None]
    /\ UNCHANGED <<mUseCount, mUsedNavMeshDataSize, mFreeNavMeshDataSize, raced, mUsedTiles,
                   current, worker, dropped>>

(* And after it.                                                           *)
Splice(h) ==
    /\ released[h] # None
    /\ mBusyItems' = mBusyItems \ {released[h]}
    /\ mFreeItems' = <<released[h]>> \o mFreeItems
    /\ mFreeNavMeshDataSize' = mFreeNavMeshDataSize + SizeOf[released[h]]
    /\ released' = [released EXCEPT ![h] = None]
    /\ UNCHANGED <<mUseCount, mUsedNavMeshDataSize, raced, mUsedTiles, current, worker, dropped>>

IsThrough(h) == dropped[h] = {} /\ released[h] = None

-----------------------------------------------------------------------------
(* Jobs of AsyncNavMeshUpdater                                             *)

At(w, pc) == worker[w].pc = pc /\ IsThrough(w)
Goto(w, pc) == worker' = [worker EXCEPT ![w].pc = pc]

(* Whoever looks at a mesh, the manager or a job, keeps it.                *)
IsKept(m) == m = current \/ \E w \in Workers : worker[w].mesh = m

ProcessingTiles == {TileOf[worker[w].key] : w \in {v \in Workers : worker[v].key # None}}

(* Deviation: a tile may be processed by two threads.                      *)
StartJobAnyway(w, k) ==
    /\ At(w, "idle")
    /\ \E m \in Meshes, pc \in {"get", "set", "empty"} :
         /\ IsKept(m)
         /\ worker' = [worker EXCEPT ![w] = [Idle EXCEPT !.pc = pc, !.key = k, !.mesh = m]]
    /\ UNCHANGED <<cacheVars, mUsedTiles, current, dropped, released>>

(* A job with nothing from the database looks in the cache first, one with *)
(* a result of it does not; a tile that is too far or has an empty recast  *)
(* mesh is removed.  A tile is processed by one thread at a time.          *)
StartJob(w, k) ==
    /\ At(w, "idle") /\ TileOf[k] \notin ProcessingTiles
    /\ \E m \in Meshes, pc \in {"get", "set", "empty"} :
         /\ IsKept(m)
         /\ worker' = [worker EXCEPT ![w] = [Idle EXCEPT !.pc = pc, !.key = k, !.mesh = m]]
    /\ UNCHANGED <<cacheVars, mUsedTiles, current, dropped, released>>

(* On a miss the job goes to the database, sets what it builds or, when    *)
(* the tile changed, keeps it for itself; there may be nothing to build.   *)
Get(w) ==
    LET k == worker[w].key
    IN  /\ At(w, "get")
        /\ IF k \in mValues
           THEN /\ Acquire(k, mFreeItems, mFreeNavMeshDataSize)
                /\ worker' = [worker EXCEPT ![w].pc = "update", ![w].value = k, ![w].data = k]
           ELSE /\ \E pc \in {"leave", "set", "update", "empty"} : Goto(w, pc)
                /\ UNCHANGED <<mFreeItems, mBusyItems, mUseCount, mFreeNavMeshDataSize, raced>>
        /\ UNCHANGED <<mUsedNavMeshDataSize, mUsedTiles, current, dropped, released>>

Set(w) ==
    LET k == worker[w].key
    IN  /\ At(w, "set")
        /\ IF Fits(k)
           THEN /\ Insert(k)
                /\ worker' = [worker EXCEPT ![w].pc = "update", ![w].value = k, ![w].data = k]
           ELSE Goto(w, "update") /\ UNCHANGED cacheVars
        /\ UNCHANGED <<mUsedTiles, current, dropped, released>>

(* The Value a tile had is destroyed by the thread that changes the tile.  *)
ReplaceTile(w, k) ==
    LET m == worker[w].mesh
        t == TileOf[worker[w].key]
        old == mUsedTiles[m][t]
    IN  /\ mUsedTiles' = [mUsedTiles EXCEPT ![m][t] = k]
        /\ dropped' = [dropped EXCEPT ![w] = {old} \ {None}]

(* NavMeshCacheItem::updateTile: the tile takes the Value, unless it is    *)
(* the same or cannot be added, which removes it or leaves none.           *)
UpdateTile(w) ==
    /\ At(w, "update")
    /\ \/ /\ ReplaceTile(w, worker[w].value)
          /\ worker' = [worker EXCEPT ![w].pc = "write", ![w].value = None]
       \/ ReplaceTile(w, None) /\ Goto(w, "leave")
       \/ \E pc \in {"write", "leave"} : Goto(w, pc) /\ UNCHANGED <<mUsedTiles, dropped>>
    /\ UNCHANGED <<cacheVars, current, released>>

MarkAsEmpty(w) ==
    /\ At(w, "empty")
    /\ ReplaceTile(w, None) \/ UNCHANGED <<mUsedTiles, dropped>>
    /\ Goto(w, "leave")
    /\ UNCHANGED <<cacheVars, current, released>>

(* What was generated is copied for the database, after updateTile.        *)
CopyGenerated(w) ==
    /\ At(w, "write")
    /\ Goto(w, "leave")
    /\ UNCHANGED <<cacheVars, mUsedTiles, current, dropped, released>>

(* An exception leaves from anywhere.                                      *)
Leave(w) ==
    /\ IsThrough(w) /\ worker[w].pc \in {"leave", "get", "set", "update", "empty"}
    /\ worker' = [worker EXCEPT ![w].pc = "dropMesh", ![w].value = None, ![w].data = None]
    /\ dropped' = [dropped EXCEPT ![w] = {worker[w].value} \ {None}]
    /\ UNCHANGED <<cacheVars, mUsedTiles, current, released>>

(* The Values of mesh m, which nobody refers to any more.                  *)
DropMesh(h, m) ==
    /\ dropped' = [dropped EXCEPT ![h] = {mUsedTiles[m][t] : t \in Tiles} \ {None}]
    /\ mUsedTiles' = [mUsedTiles EXCEPT ![m] = [t \in Tiles |-> None]]

LeaveMesh(w) ==
    LET m == worker[w].mesh
    IN  /\ At(w, "dropMesh")
        /\ worker' = [worker EXCEPT ![w].pc = "unlock", ![w].mesh = None]
        /\ IF m # current /\ \A v \in Workers \ {w} : worker[v].mesh # m
           THEN DropMesh(w, m)
           ELSE UNCHANGED <<mUsedTiles, dropped>>
        /\ UNCHANGED <<cacheVars, current, released>>

UnlockTile(w) ==
    /\ At(w, "unlock")
    /\ worker' = [worker EXCEPT ![w] = Idle]
    /\ UNCHANGED <<cacheVars, mUsedTiles, current, dropped, released>>

(* NavMeshManager replaces the agent's mesh.                               *)
ReplaceMesh ==
    /\ IsThrough(Main)
    /\ current' \in {m \in Meshes : ~IsKept(m)}
    /\ IF \E w \in Workers : worker[w].mesh = current
       THEN UNCHANGED <<mUsedTiles, dropped>>
       ELSE DropMesh(Main, current)
    /\ UNCHANGED <<cacheVars, worker, released>>

-----------------------------------------------------------------------------
WorkerStep(w) ==
    \/ \E k \in Keys : StartJob(w, k)
    \/ Get(w) \/ Set(w) \/ UpdateTile(w) \/ MarkAsEmpty(w) \/ CopyGenerated(w)
    \/ Leave(w) \/ LeaveMesh(w) \/ UnlockTile(w)

Next ==
    /\ ~raced
    /\ \/ \E w \in Workers : WorkerStep(w)
       \/ ReplaceMesh
       \/ \E h \in Threads : Decrement(h) \/ Splice(h)

Spec == Init /\ [][Next]_vars

-----------------------------------------------------------------------------
(* Properties                                                              *)

TypeOK ==
    /\ Elements(mFreeItems) \subseteq Keys /\ NoDuplicates(mFreeItems)
    /\ mBusyItems \subseteq Keys \ Elements(mFreeItems)
    /\ mUsedTiles \in [Meshes -> [Tiles -> Keys \cup {None}]]
    /\ current \in Meshes
    /\ \A w \in Workers : {worker[w].key, worker[w].value, worker[w].data} \subseteq Keys \cup {None}
    /\ released \in [Threads -> Keys \cup {None}]

(* The Values that refer to an item: of tiles, of jobs, being destroyed.   *)
UsesOf(k) ==
    Cardinality({p \in Meshes \X Tiles : mUsedTiles[p[1]][p[2]] = k})
    + Cardinality({w \in Workers : worker[w].value = k})
    + Cardinality({h \in Threads : k \in dropped[h]})

(* What anyone has a Value of, or reads after the Value went to a tile, is *)
(* not evicted, whatever other threads release or a mesh that is dropped;  *)
(* and what nobody uses can be evicted.  Unless an item is acquired while  *)
(* it is being released.                                                   *)
UsedDataIsKeptUnlessRaced ==
    ~raced =>
        /\ \A k \in Keys : mUseCount[k] = UsesOf(k)
        /\ mBusyItems = {k \in Keys : mUseCount[k] > 0 \/ \E h \in Threads : released[h] = k}
        /\ \A w \in Workers : worker[w].data # None => mUseCount[worker[w].data] > 0

(* The cache never grows beyond its size, and counts what it holds and     *)
(* what can be evicted to the byte: neither difference is ever negative.   *)
CacheFitsUnlessRaced ==
    ~raced =>
        /\ mUsedNavMeshDataSize = Sum(mValues) /\ mUsedNavMeshDataSize <= mMaxNavMeshDataSize
        /\ mFreeNavMeshDataSize = Sum(Elements(mFreeItems))
=============================================================================
