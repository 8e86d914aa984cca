---------------------------- MODULE NavMeshUpdater ----------------------------
(***************************************************************************)
(* The background generator of navigation mesh tiles                       *)
(* (components/detournavigator/asyncnavmeshupdater.cpp): the main thread   *)
(* posts changed tiles, updater threads pop jobs nearest to the player     *)
(* first, lock the (agent, tile) pair they work on, and hand jobs whose    *)
(* tile is not in the memory cache to the thread that owns navmesh.db.     *)
(*                                                                         *)
(* What is abstracted.  Time: a job's mProcessTime is either reached       *)
(* ("due") or not, and mLastUpdates is the set of keys updated less than   *)
(* mMinUpdateInterval ago; TimePasses moves either forward.  The r-tree of *)
(* a SpatialJobQueue is a set of jobs popped by distance.  Meshes are not  *)
(* represented: a job may find an empty tile, data, or a cache miss, and   *)
(* navTiles are the pairs the navigation mesh has a tile for afterwards.   *)
(***************************************************************************)
EXTENDS Integers, Sequences, FiniteSets, Queues

CONSTANTS
    Agents,         \* AgentBounds values that have a navigation mesh
    Replaced,       \* those whose mesh may be replaced while jobs run
    Tiles,          \* tile positions that have objects
    PlayerTiles,    \* positions the player visits
    Workers,        \* mThreads
    JobIds,         \* nodes of the std::list mJobs; a bound on its size
    Distance,       \* [Tiles \X PlayerTiles -> Nat]
    AddRadius,      \* shouldAddTile: mMaxTilesNumber as a distance
    WaitRadius,     \* mWaitUntilMinDistanceToPlayer
    HasDb,          \* mDbWorker # nullptr
    WriteToDb,      \* mSettings.mWriteToNavMeshDb
    Faults,         \* generation may throw and dtNavMesh::addTile may fail
    NoJob

Keys == Agents \X Tiles
ChangeTypes == {"add", "remove", "update"}
Stages == {"initial", "miss", "withDb", "generated"}

Job == [key : Keys, type : ChangeTypes, due : BOOLEAN, stage : Stages,
        expired : BOOLEAN]

ASSUME UpdaterAssumption ==
    /\ Distance \in [Tiles \X PlayerTiles -> Nat]
    /\ Replaced \subseteq Agents
    /\ AddRadius \in Nat /\ WaitRadius \in Nat
    /\ HasDb \in BOOLEAN /\ WriteToDb \in BOOLEAN /\ Faults \in BOOLEAN
    /\ NoJob \notin Job /\ NoJob \notin JobIds
    /\ IsFiniteSet(JobIds)

VARIABLES
    main,           \* where the main thread is: see MainPcs
    posting,        \* post(): the agent posted for and playerTileChanged
    mPlayerTile, mShouldStop,
    job,            \* [JobIds -> Job \cup {NoJob}]: the list mJobs
    mWaiting,       \* the JobQueue
    mPushed, mProcessingTiles, mLastUpdates, mPresentTiles,
    worker,         \* the updater threads
    dbQueue,        \* the DbJobQueue
    db,             \* the DbWorker thread
    navTiles,       \* keys whose tile is in the agent's navigation mesh
    unread          \* history: keys posted since a job last looked at them

vars == <<main, posting, mPlayerTile, mShouldStop, job, mWaiting, mPushed,
          mProcessingTiles, mLastUpdates, mPresentTiles, worker, dbQueue, db,
          navTiles, unread>>
mainVars == <<main, posting, mPlayerTile, mShouldStop>>
tileVars == <<mPresentTiles, navTiles>>

MainPcs == {"idle", "post", "locked", "dbUpdate", "waitJobs", "waitTiles",
            "waitRequired", "stopDb", "joinDb", "clear", "join", "stopped"}
WorkerPcs == {"idle", "loaded", "far", "initial", "withDb", "empty", "apply",
              "report", "miss", "unlock", "finish", "stopped"}
Statuses == {"none", "ignored", "present", "removed", "failed", "lost"}

mJobs == {j \in JobIds : job[j] # NoJob}
ShouldAddTile(t, p) == Distance[t, p] <= AddRadius

(* No other thread can hold mMutex across two of this module's steps.      *)
MutexFree == main # "locked"

-----------------------------------------------------------------------------
(* JobQueue and SpatialJobQueue                                            *)

JobQueues == [mRemoving : Seq(JobIds), mUpdating : SUBSET JobIds,
              mDelayed : Seq(JobIds)]

NearestJobs(S, p) ==
    {j \in S : \A i \in S :
        Distance[job[j].key[2], p] <= Distance[job[i].key[2], p]}

HasJob ==
    \/ mWaiting.mRemoving # <<>>
    \/ mWaiting.mUpdating # {}
    \/ mWaiting.mDelayed # <<>> /\ job[Head(mWaiting.mDelayed)].due

(* JobQueue::pop: each possible result with the queue it leaves.           *)
Popped ==
    IF mWaiting.mRemoving # <<>>
    THEN {[job  |-> mWaiting.mRemoving[Len(mWaiting.mRemoving)],
           rest |-> [mWaiting EXCEPT !.mRemoving = AllButLast(@)]]}
    ELSE IF mWaiting.mUpdating # {}
    THEN {[job |-> j, rest |-> [mWaiting EXCEPT !.mUpdating = @ \ {j}]] :
              j \in NearestJobs(mWaiting.mUpdating, mPlayerTile)}
    ELSE IF HasJob
    THEN {[job  |-> Head(mWaiting.mDelayed),
           rest |-> [mWaiting EXCEPT !.mDelayed = Tail(@)]]}
    ELSE {}

(* JobQueue::push                                                          *)
Pushed(q, j, r) ==
    IF ~r.due THEN [q EXCEPT !.mDelayed = Append(@, j)]
    ELSE IF r.type = "remove" THEN [q EXCEPT !.mRemoving = Append(@, j)]
    ELSE [q EXCEPT !.mUpdating = @ \cup {j}]

(* The n first jobs of mDelayed are due, the next one is not.              *)
IsDuePrefix(n) ==
    /\ \A i \in 1..n : job[mWaiting.mDelayed[i]].due
    /\ n < Len(mWaiting.mDelayed) => ~job[mWaiting.mDelayed[n + 1]].due

(* JobQueue::update: jobs of tiles that became too far are to remove, and  *)
(* delayed jobs whose time has come leave mDelayed.                        *)
UpdateWaiting ==
    \E n \in 0..Len(mWaiting.mDelayed) :
      LET due  == {mWaiting.mDelayed[i] : i \in 1..n}
          far  == {j \in mWaiting.mUpdating \cup due :
                      ~ShouldAddTile(job[j].key[2], mPlayerTile)}
      IN  /\ IsDuePrefix(n)
          /\ \E order \in Orders(far) :
               mWaiting' =
                 [mRemoving |-> mWaiting.mRemoving \o order,
                  mUpdating |-> (mWaiting.mUpdating \cup due) \ far,
                  mDelayed  |-> SubSeq(mWaiting.mDelayed, n + 1,
                                       Len(mWaiting.mDelayed))]
          /\ job' = [j \in JobIds |->
                       IF j \in far THEN [job[j] EXCEPT !.type = "remove"]
                                    ELSE job[j]]

-----------------------------------------------------------------------------
EmptyQueue == [mRemoving |-> <<>>, mUpdating |-> {}, mDelayed |-> <<>>]
IdleWorker == [pc |-> "idle", job |-> NoJob, orphan |-> FALSE, status |-> "none"]
IdleDb == [pc |-> "idle", job |-> NoJob]

Init ==
    /\ main = "idle" /\ mShouldStop = FALSE
    /\ posting \in [agent : Agents, tileChanged : {FALSE}]
    /\ mPlayerTile \in PlayerTiles
    /\ job = [j \in JobIds |-> NoJob]
    /\ mWaiting = EmptyQueue
    /\ mPushed = {} /\ mProcessingTiles = {} /\ mLastUpdates = {}
    /\ mPresentTiles = {}
    /\ worker = [w \in Workers |-> IdleWorker]
    /\ dbQueue = [mReading |-> {}, mWriting |-> <<>>, mPlayerTile |-> mPlayerTile,
                  mShouldStop |-> FALSE]
    /\ db = IdleDb
    /\ navTiles = {}
    /\ unread = {}

-----------------------------------------------------------------------------
(* The main thread: post, wait and stop                                    *)

(* The player's tile is published under its own lock, before mMutex.       *)
PostPlayerTile(a, p) ==
    /\ main = "idle"
    /\ main' = "post"
    /\ posting' = [agent |-> a, tileChanged |-> p # mPlayerTile]
    /\ mPlayerTile' = p
    /\ UNCHANGED <<mShouldStop, job, mWaiting, mPushed, mProcessingTiles,
                   mLastUpdates, tileVars, worker, dbQueue, db, unread>>

PostLock ==
    /\ main = "post"
    /\ main' = "locked"
    /\ IF posting.tileChanged THEN UpdateWaiting ELSE UNCHANGED <<mWaiting, job>>
    /\ UNCHANGED <<posting, mPlayerTile, mShouldStop, mPushed,
                   mProcessingTiles, mLastUpdates, tileVars, worker, dbQueue,
                   db, unread>>

(* Deviation: post() skips a key that has any job, also one that runs.     *)
PostTileIfNoJob(k, type) ==
    /\ main = "locked" /\ k[1] = posting.agent
    /\ unread' = unread \cup {k}
    /\ IF \E j \in mJobs : job[j].key = k
       THEN UNCHANGED <<mPushed, job, mWaiting>>
       ELSE \E j \in JobIds \ mJobs :
              LET r == [key |-> k, type |-> type, stage |-> "initial",
                        due |-> ~(type = "update" /\ k \in mLastUpdates),
                        expired |-> FALSE]
              IN /\ mPushed' = mPushed \cup {k}
                 /\ job' = [job EXCEPT ![j] = r]
                 /\ mWaiting' = Pushed(mWaiting, j, r)
    /\ UNCHANGED <<mainVars, mProcessingTiles, mLastUpdates, tileVars, worker,
                   dbQueue, db>>

(* One iteration of the loop over changedTiles, under mMutex.              *)
PostTile(k, type) ==
    /\ main = "locked" /\ k[1] = posting.agent
    /\ unread' = unread \cup {k}
    /\ IF k \in mPushed
       THEN UNCHANGED <<mPushed, job, mWaiting>>
       ELSE \E j \in JobIds \ mJobs :
              LET r == [key |-> k, type |-> type, stage |-> "initial",
                        due |-> ~(type = "update" /\ k \in mLastUpdates),
                        expired |-> FALSE]
              IN /\ mPushed' = mPushed \cup {k}
                 /\ job' = [job EXCEPT ![j] = r]
                 /\ mWaiting' = Pushed(mWaiting, j, r)
    /\ UNCHANGED <<mainVars, mProcessingTiles, mLastUpdates, tileVars, worker,
                   dbQueue, db>>

PostUnlock ==
    /\ main = "locked"
    /\ main' = IF posting.tileChanged /\ HasDb THEN "dbUpdate" ELSE "idle"
    /\ UNCHANGED <<posting, mPlayerTile, mShouldStop, job, mWaiting, mPushed,
                   mProcessingTiles, mLastUpdates, tileVars, worker, dbQueue,
                   db, unread>>

PostDbUpdate ==
    /\ main = "dbUpdate"
    /\ main' = "idle"
    /\ dbQueue' = [dbQueue EXCEPT !.mPlayerTile = mPlayerTile]
    /\ UNCHANGED <<posting, mPlayerTile, mShouldStop, job, mWaiting, mPushed,
                   mProcessingTiles, mLastUpdates, tileVars, worker, db, unread>>

(* NavMeshManager replaces the agent's mesh (new worldspace) or drops it:  *)
(* queued jobs hold an expired weak_ptr, a job being processed keeps the   *)
(* old mesh alive and goes on writing into it.  The new mesh is owed only  *)
(* what is posted for it.                                                  *)
ReplaceCacheItem(a) ==
    /\ main = "idle"
    /\ job' = [j \in JobIds |->
                 IF j \in mJobs /\ job[j].key[1] = a
                 THEN [job[j] EXCEPT !.expired = TRUE] ELSE job[j]]
    /\ worker' = [w \in Workers |->
                    IF worker[w].job # NoJob /\ job[worker[w].job].key[1] = a
                    THEN [worker[w] EXCEPT !.orphan = TRUE] ELSE worker[w]]
    /\ navTiles' = {k \in navTiles : k[1] # a}
    /\ unread' = {k \in unread : k[1] # a}
    /\ UNCHANGED <<mainVars, mWaiting, mPushed, mProcessingTiles, mLastUpdates,
                   mPresentTiles, dbQueue, db>>

(* waitUntilAllJobsDone: without a job it does not block on mDone.         *)
WaitAllJobs ==
    /\ main = "idle"
    /\ main' = IF mJobs = {} THEN "waitTiles" ELSE "waitJobs"
    /\ UNCHANGED <<posting, mPlayerTile, mShouldStop, job, mWaiting, mPushed,
                   mProcessingTiles, mLastUpdates, tileVars, worker, dbQueue,
                   db, unread>>

WaitTilesReturns ==
    /\ main = "waitTiles"
    /\ mProcessingTiles = {}
    /\ main' = "idle"
    /\ UNCHANGED <<posting, mPlayerTile, mShouldStop, job, mWaiting, mPushed,
                   mProcessingTiles, mLastUpdates, tileVars, worker, dbQueue,
                   db, unread>>

(* waitUntilJobsDoneForNotPresentTiles polls its condition every 20 ms.    *)
AbsentTileTooClose ==
    \E k \in mPushed \cup mProcessingTiles :
        k \notin mPresentTiles /\ Distance[k[2], mPlayerTile] < WaitRadius

WaitRequiredTiles ==
    /\ main = "idle"
    /\ main' = "waitRequired"
    /\ UNCHANGED <<posting, mPlayerTile, mShouldStop, job, mWaiting, mPushed,
                   mProcessingTiles, mLastUpdates, tileVars, worker, dbQueue,
                   db, unread>>

WaitRequiredReturns ==
    /\ main = "waitRequired"
    /\ mJobs = {} \/ ~AbsentTileTooClose
    /\ main' = "idle"
    /\ UNCHANGED <<posting, mPlayerTile, mShouldStop, job, mWaiting, mPushed,
                   mProcessingTiles, mLastUpdates, tileVars, worker, dbQueue,
                   db, unread>>

(* stop(): the flag, the database thread, the queue, the updater threads.  *)
Stop ==
    /\ main = "idle"
    /\ mShouldStop' = TRUE
    /\ main' = IF HasDb THEN "stopDb" ELSE "clear"
    /\ UNCHANGED <<posting, mPlayerTile, job, mWaiting, mPushed,
                   mProcessingTiles, mLastUpdates, tileVars, worker, dbQueue,
                   db, unread>>

(* Deviation: the database queue is cleared but not told to stop.          *)
StopDbSilently ==
    /\ main = "stopDb"
    /\ main' = "joinDb"
    /\ dbQueue' = [dbQueue EXCEPT !.mReading = {}, !.mWriting = <<>>]
    /\ UNCHANGED <<posting, mPlayerTile, mShouldStop, job, mWaiting, mPushed,
                   mProcessingTiles, mLastUpdates, tileVars, worker, db, unread>>

StopDb ==
    /\ main = "stopDb"
    /\ main' = "joinDb"
    /\ dbQueue' = [dbQueue EXCEPT !.mReading = {}, !.mWriting = <<>>,
                                  !.mShouldStop = TRUE]
    /\ UNCHANGED <<posting, mPlayerTile, mShouldStop, job, mWaiting, mPushed,
                   mProcessingTiles, mLastUpdates, tileVars, worker, db, unread>>

JoinDb ==
    /\ main = "joinDb"
    /\ db.pc = "stopped"
    /\ main' = "clear"
    /\ UNCHANGED <<posting, mPlayerTile, mShouldStop, job, mWaiting, mPushed,
                   mProcessingTiles, mLastUpdates, tileVars, worker, dbQueue,
                   db, unread>>

ClearWaiting ==
    /\ main = "clear"
    /\ main' = "join"
    /\ mWaiting' = EmptyQueue
    /\ UNCHANGED <<posting, mPlayerTile, mShouldStop, job, mPushed,
                   mProcessingTiles, mLastUpdates, tileVars, worker, dbQueue,
                   db, unread>>

JoinThreads ==
    /\ main = "join"
    /\ \A w \in Workers : worker[w].pc = "stopped"
    /\ main' = "stopped"
    /\ UNCHANGED <<posting, mPlayerTile, mShouldStop, job, mWaiting, mPushed,
                   mProcessingTiles, mLastUpdates, tileVars, worker, dbQueue,
                   db, unread>>

-----------------------------------------------------------------------------
(* The updater threads: getNextJob                                         *)

(* Deviation: a thread without work does not notify mDone.                 *)
GetNextJobQuietly(w) ==
    /\ worker[w].pc = "idle" /\ MutexFree /\ ~mShouldStop
    /\ ~HasJob
    /\ UNCHANGED vars

(* Nothing to do for 10 ms: the only place that notifies mDone.            *)
GetNextJobTimeout(w) ==
    /\ worker[w].pc = "idle" /\ MutexFree /\ ~mShouldStop
    /\ ~HasJob
    /\ main' = IF main = "waitJobs" /\ mJobs = {} THEN "waitTiles" ELSE main
    /\ UNCHANGED <<posting, mPlayerTile, mShouldStop, job, mWaiting, mPushed,
                   mProcessingTiles, mLastUpdates, tileVars, worker, dbQueue,
                   db, unread>>

(* A job back from the database still owns its tile.                       *)
ResumeJob(w) ==
    /\ worker[w].pc = "idle" /\ MutexFree /\ ~mShouldStop
    /\ \E n \in Popped :
         /\ job[n.job].stage = "withDb"
         /\ mWaiting' = n.rest
         /\ worker' = [worker EXCEPT ![w] =
                         [IdleWorker EXCEPT !.pc = "loaded", !.job = n.job]]
    /\ UNCHANGED <<mainVars, job, mPushed, mProcessingTiles, mLastUpdates,
                   tileVars, dbQueue, db, unread>>

(* Deviation: a job whose tile is locked is copied to mDelayed, not moved. *)
DeferCopyOfJob(w) ==
    /\ worker[w].pc = "idle" /\ MutexFree /\ ~mShouldStop
    /\ \E n \in Popped :
         LET late == [job[n.job] EXCEPT !.due = FALSE]
         IN /\ job[n.job].stage = "initial"
            /\ job[n.job].key \in mProcessingTiles
            /\ job' = [job EXCEPT ![n.job] = late]
            /\ mWaiting' = Pushed(mWaiting, n.job, late)
    /\ UNCHANGED <<mainVars, mPushed, mProcessingTiles, mLastUpdates, tileVars,
                   worker, dbQueue, db, unread>>

(* lockTile failed: the job waits for mMinUpdateInterval.                  *)
DeferJob(w) ==
    /\ worker[w].pc = "idle" /\ MutexFree /\ ~mShouldStop
    /\ \E n \in Popped :
         LET late == [job[n.job] EXCEPT !.due = FALSE]
         IN /\ job[n.job].stage = "initial"
            /\ job[n.job].key \in mProcessingTiles
            /\ job' = [job EXCEPT ![n.job] = late]
            /\ mWaiting' = Pushed(n.rest, n.job, late)
    /\ UNCHANGED <<mainVars, mPushed, mProcessingTiles, mLastUpdates, tileVars,
                   worker, dbQueue, db, unread>>

(* Deviation: the job starts without asking whether the tile is locked.    *)
StartJobUnlocked(w) ==
    /\ worker[w].pc = "idle" /\ MutexFree /\ ~mShouldStop
    /\ \E n \in Popped :
         LET k == job[n.job].key
         IN /\ job[n.job].stage = "initial"
            /\ mWaiting' = n.rest
            /\ mProcessingTiles' = mProcessingTiles \cup {k}
            /\ mLastUpdates' = IF job[n.job].type = "update"
                               THEN mLastUpdates \cup {k} ELSE mLastUpdates
            /\ mPushed' = mPushed \ {k}
            /\ worker' = [worker EXCEPT ![w] =
                            [IdleWorker EXCEPT !.pc = "loaded", !.job = n.job]]
    /\ UNCHANGED <<mainVars, job, tileVars, dbQueue, db, unread>>

(* Deviation: the key stays in mPushed while its job runs.                 *)
StartJobPushed(w) ==
    /\ worker[w].pc = "idle" /\ MutexFree /\ ~mShouldStop
    /\ \E n \in Popped :
         LET k == job[n.job].key
         IN /\ job[n.job].stage = "initial"
            /\ k \notin mProcessingTiles
            /\ mWaiting' = n.rest
            /\ mProcessingTiles' = mProcessingTiles \cup {k}
            /\ mLastUpdates' = IF job[n.job].type = "update"
                               THEN mLastUpdates \cup {k} ELSE mLastUpdates
            /\ worker' = [worker EXCEPT ![w] =
                            [IdleWorker EXCEPT !.pc = "loaded", !.job = n.job]]
    /\ UNCHANGED <<mainVars, job, mPushed, tileVars, dbQueue, db, unread>>

StartJob(w) ==
    /\ worker[w].pc = "idle" /\ MutexFree /\ ~mShouldStop
    /\ \E n \in Popped :
         LET k == job[n.job].key
         IN /\ job[n.job].stage = "initial"
            /\ k \notin mProcessingTiles
            /\ mWaiting' = n.rest
            /\ mProcessingTiles' = mProcessingTiles \cup {k}
            /\ mLastUpdates' = IF job[n.job].type = "update"
                               THEN mLastUpdates \cup {k} ELSE mLastUpdates
            /\ mPushed' = mPushed \ {k}
            /\ worker' = [worker EXCEPT ![w] =
                            [IdleWorker EXCEPT !.pc = "loaded", !.job = n.job]]
    /\ UNCHANGED <<mainVars, job, tileVars, dbQueue, db, unread>>

StopWorker(w) ==
    /\ worker[w].pc = "idle" /\ MutexFree /\ mShouldStop
    /\ worker' = [worker EXCEPT ![w].pc = "stopped"]
    /\ UNCHANGED <<mainVars, job, mWaiting, mPushed, mProcessingTiles,
                   mLastUpdates, tileVars, dbQueue, db, unread>>

-----------------------------------------------------------------------------
(* The updater threads: processJob and runJob                              *)

Goto(w, pc) == worker' = [worker EXCEPT ![w].pc = pc]
KeyOf(w) == job[worker[w].job].key
Stage(w) == job[worker[w].job].stage

(* The weak_ptr is locked and the player's tile read; what the decision is *)
(* based on may change before it is carried out.                           *)
ProcessJob(w) ==
    /\ worker[w].pc = "loaded"
    /\ \/ /\ job[worker[w].job].expired
          /\ Goto(w, "unlock")
          /\ UNCHANGED unread
       \/ /\ ~job[worker[w].job].expired
          /\ ~ShouldAddTile(KeyOf(w)[2], mPlayerTile)
          /\ Goto(w, "far")
          /\ unread' = unread \ {KeyOf(w)}
       \/ /\ ~job[worker[w].job].expired
          /\ ShouldAddTile(KeyOf(w)[2], mPlayerTile)
          /\ Goto(w, Stage(w))
          /\ UNCHANGED unread
    /\ UNCHANGED <<mainVars, job, mWaiting, mPushed, mProcessingTiles,
                   mLastUpdates, tileVars, dbQueue, db>>

(* An orphan writes into a dropped mesh.                                   *)
AddTile(w) == navTiles' = IF worker[w].orphan THEN navTiles
                          ELSE navTiles \cup {KeyOf(w)}
DropTile(w) == navTiles' = IF worker[w].orphan THEN navTiles
                           ELSE navTiles \ {KeyOf(w)}

RemoveFarTile(w) ==
    /\ worker[w].pc = "far"
    /\ job' = [job EXCEPT ![worker[w].job].type = "remove"]
    /\ DropTile(w)
    /\ Goto(w, "unlock")
    /\ UNCHANGED <<mainVars, mWaiting, mPushed, mProcessingTiles, mLastUpdates,
                   mPresentTiles, dbQueue, db, unread>>

(* processInitialJob up to updateTile: getMesh, the memory cache, and      *)
(* generation, which may throw.                                            *)
ProcessInitialJob(w) ==
    /\ worker[w].pc = "initial"
    /\ unread' = unread \ {KeyOf(w)}
    /\ \/ /\ Goto(w, "empty") /\ UNCHANGED job
       \/ /\ Goto(w, "apply") /\ UNCHANGED job
       \/ /\ job[worker[w].job].type # "update" /\ HasDb
          /\ job' = [job EXCEPT ![worker[w].job].stage = "miss"]
          /\ Goto(w, "miss")
       \/ /\ Faults /\ Goto(w, "unlock") /\ UNCHANGED job
    /\ UNCHANGED <<mainVars, mWaiting, mPushed, mProcessingTiles, mLastUpdates,
                   tileVars, dbQueue, db>>

ProcessJobWithDbResult(w) ==
    /\ worker[w].pc = "withDb"
    /\ \/ Goto(w, "empty")
       \/ Goto(w, "apply")
       \/ Faults /\ Goto(w, "unlock")
    /\ UNCHANGED <<mainVars, job, mWaiting, mPushed, mProcessingTiles,
                   mLastUpdates, tileVars, dbQueue, db, unread>>

MarkAsEmpty(w) ==
    /\ worker[w].pc = "empty"
    /\ DropTile(w)
    /\ Goto(w, "unlock")
    /\ UNCHANGED <<mainVars, job, mWaiting, mPushed, mProcessingTiles,
                   mLastUpdates, mPresentTiles, dbQueue, db, unread>>

(* NavMeshCacheItem::updateTile: the old tile or empty mark is removed     *)
(* before addTile, which may fail.                                         *)
UpdateTile(w) ==
    LET has == worker[w].orphan \/ KeyOf(w) \in navTiles
        Outcome(s) ==
            CASE s = "present" -> AddTile(w)
              [] s = "ignored" -> (has \/ Faults) /\ UNCHANGED navTiles
              [] s \in {"removed", "lost"} -> Faults /\ DropTile(w)
              [] s = "failed" -> Faults /\ (worker[w].orphan \/ ~has)
                                 /\ UNCHANGED navTiles
              [] OTHER -> FALSE
    IN  /\ worker[w].pc = "apply"
        /\ \E s \in Statuses :
             /\ Outcome(s)
             /\ worker' = [worker EXCEPT ![w].pc = "report", ![w].status = s]
        /\ UNCHANGED <<mainVars, job, mWaiting, mPushed, mProcessingTiles,
                       mLastUpdates, mPresentTiles, dbQueue, db, unread>>

(* handleUpdateNavMeshStatus, and for a job with a database result the     *)
(* decision to write the tile it generated.                                *)
HandleUpdateNavMeshStatus(w) ==
    LET s == worker[w].status
    IN  /\ worker[w].pc = "report" /\ MutexFree
        /\ mPresentTiles' =
             IF s \in {"removed", "lost"} THEN mPresentTiles \ {KeyOf(w)}
             ELSE IF s = "present" THEN mPresentTiles \cup {KeyOf(w)}
             ELSE mPresentTiles
        /\ \/ UNCHANGED job
           \/ /\ s \notin {"failed", "lost"} /\ Stage(w) = "withDb"
              /\ HasDb /\ WriteToDb /\ job[worker[w].job].type # "update"
              /\ job' = [job EXCEPT ![worker[w].job].stage = "generated"]
        /\ worker' = [worker EXCEPT ![w].pc = "unlock", ![w].status = "none"]
        /\ UNCHANGED <<mainVars, mWaiting, mPushed, mProcessingTiles,
                       mLastUpdates, navTiles, dbQueue, db, unread>>

(* Deviation: a job that came back from the database leaves its tile locked. *)
UnlockTileUnlessDb(w) ==
    /\ worker[w].pc = "unlock"
    /\ mProcessingTiles' = IF Stage(w) = "initial"
                           THEN mProcessingTiles \ {KeyOf(w)} ELSE mProcessingTiles
    /\ Goto(w, "finish")
    /\ UNCHANGED <<mainVars, job, mWaiting, mPushed, mLastUpdates, tileVars,
                   dbQueue, db, unread>>

UnlockTile(w) ==
    /\ worker[w].pc = "unlock"
    /\ mProcessingTiles' = mProcessingTiles \ {KeyOf(w)}
    /\ Goto(w, "finish")
    /\ UNCHANGED <<mainVars, job, mWaiting, mPushed, mLastUpdates, tileVars,
                   dbQueue, db, unread>>

(* Deviation: the thread keeps its reference to a job it handed over.      *)
EnqueueDbJobKept(w) ==
    /\ \/ /\ worker[w].pc = "miss"
          /\ dbQueue' = [dbQueue EXCEPT !.mReading = @ \cup {worker[w].job}]
       \/ /\ worker[w].pc = "finish" /\ Stage(w) = "generated" /\ HasDb
          /\ dbQueue' = [dbQueue EXCEPT !.mWriting = Append(@, worker[w].job)]
    /\ Goto(w, "idle")
    /\ UNCHANGED <<mainVars, job, mWaiting, mPushed, mProcessingTiles,
                   mLastUpdates, tileVars, db, unread>>

(* The tile of a job that missed the memory cache stays locked.            *)
EnqueueDbJob(w) ==
    /\ \/ /\ worker[w].pc = "miss"
          /\ dbQueue' = [dbQueue EXCEPT !.mReading = @ \cup {worker[w].job}]
       \/ /\ worker[w].pc = "finish" /\ Stage(w) = "generated" /\ HasDb
          /\ dbQueue' = [dbQueue EXCEPT !.mWriting = Append(@, worker[w].job)]
    /\ worker' = [worker EXCEPT ![w] = IdleWorker]
    /\ UNCHANGED <<mainVars, job, mWaiting, mPushed, mProcessingTiles,
                   mLastUpdates, tileVars, db, unread>>

RemoveJob(w) ==
    /\ worker[w].pc = "finish" /\ ~(Stage(w) = "generated" /\ HasDb)
    /\ MutexFree
    /\ job' = [job EXCEPT ![worker[w].job] = NoJob]
    /\ worker' = [worker EXCEPT ![w] = IdleWorker]
    /\ UNCHANGED <<mainVars, mWaiting, mPushed, mProcessingTiles, mLastUpdates,
                   tileVars, dbQueue, db, unread>>

-----------------------------------------------------------------------------
(* The database thread                                                     *)

DbPop ==
    /\ HasDb /\ db.pc = "idle" /\ ~dbQueue.mShouldStop
    /\ \/ \E j \in NearestJobs(dbQueue.mReading, dbQueue.mPlayerTile) :
            /\ dbQueue' = [dbQueue EXCEPT !.mReading = @ \ {j}]
            /\ db' = [pc |-> "busy", job |-> j]
       \/ /\ dbQueue.mReading = {} /\ dbQueue.mWriting # <<>>
          /\ dbQueue' = [dbQueue EXCEPT !.mWriting = Tail(@)]
          /\ db' = [pc |-> "busy", job |-> Head(dbQueue.mWriting)]
    /\ UNCHANGED <<mainVars, job, mWaiting, mPushed, mProcessingTiles,
                   mLastUpdates, tileVars, worker, unread>>

(* Whatever processReadingJob found or threw, the job goes back.           *)
DbReadDone ==
    /\ db.pc = "busy" /\ job[db.job].stage = "miss" /\ MutexFree
    /\ LET r == [job[db.job] EXCEPT !.stage = "withDb"]
       IN /\ job' = [job EXCEPT ![db.job] = r]
          /\ mWaiting' = Pushed(mWaiting, db.job, r)
    /\ db' = IdleDb
    /\ UNCHANGED <<mainVars, mPushed, mProcessingTiles, mLastUpdates, tileVars,
                   worker, dbQueue, unread>>

DbWriteDone ==
    /\ db.pc = "busy" /\ job[db.job].stage = "generated" /\ MutexFree
    /\ job' = [job EXCEPT ![db.job] = NoJob]
    /\ db' = IdleDb
    /\ UNCHANGED <<mainVars, mWaiting, mPushed, mProcessingTiles, mLastUpdates,
                   tileVars, worker, dbQueue, unread>>

DbStopped ==
    /\ HasDb /\ db.pc = "idle" /\ dbQueue.mShouldStop
    /\ db' = [IdleDb EXCEPT !.pc = "stopped"]
    /\ UNCHANGED <<mainVars, job, mWaiting, mPushed, mProcessingTiles,
                   mLastUpdates, tileVars, worker, dbQueue, unread>>

-----------------------------------------------------------------------------
(* mMinUpdateInterval elapses for a delayed job or for a recent update     *)
(* (which cleanupLastUpdates then forgets).                                *)
JobBecomesDue(j) ==
    /\ job[j] # NoJob /\ ~job[j].due
    /\ job' = [job EXCEPT ![j].due = TRUE]
    /\ UNCHANGED <<mainVars, mWaiting, mPushed, mProcessingTiles, mLastUpdates,
                   tileVars, worker, dbQueue, db, unread>>

CleanupLastUpdates(k) ==
    /\ MutexFree
    /\ k \in mLastUpdates
    /\ mLastUpdates' = mLastUpdates \ {k}
    /\ UNCHANGED <<mainVars, job, mWaiting, mPushed, mProcessingTiles, tileVars,
                   worker, dbQueue, db, unread>>

(* Nothing is left to do once every thread has been joined.                *)
Terminated == main = "stopped" /\ UNCHANGED vars

MainStep ==
    \/ \E a \in Agents, p \in PlayerTiles : PostPlayerTile(a, p)
    \/ PostLock \/ PostUnlock \/ PostDbUpdate
    \/ \E k \in Keys, type \in ChangeTypes : PostTile(k, type)
    \/ \E a \in Replaced : ReplaceCacheItem(a)
    \/ WaitAllJobs \/ WaitTilesReturns \/ WaitRequiredTiles \/ WaitRequiredReturns
    \/ Stop \/ StopDb \/ JoinDb \/ ClearWaiting \/ JoinThreads

WorkerStep(w) ==
    \/ GetNextJobTimeout(w) \/ ResumeJob(w) \/ DeferJob(w) \/ StartJob(w)
    \/ StopWorker(w) \/ ProcessJob(w) \/ RemoveFarTile(w)
    \/ ProcessInitialJob(w) \/ ProcessJobWithDbResult(w) \/ MarkAsEmpty(w)
    \/ UpdateTile(w) \/ HandleUpdateNavMeshStatus(w) \/ UnlockTile(w)
    \/ EnqueueDbJob(w) \/ RemoveJob(w)

DbStep == DbPop \/ DbReadDone \/ DbWriteDone \/ DbStopped

TimePasses == \/ \E j \in JobIds : JobBecomesDue(j)
              \/ \E k \in Keys : CleanupLastUpdates(k)

Next == \/ MainStep
        \/ \E w \in Workers : WorkerStep(w)
        \/ DbStep
        \/ TimePasses
        \/ Terminated

Spec == Init /\ [][Next]_vars
-----------------------------------------------------------------------------
(* Fairness: the threads are scheduled and clocks advance; the main thread *)
(* finishes the calls it makes but need not make another.                  *)
Fairness ==
    /\ \A w \in Workers : WF_vars(WorkerStep(w))
    /\ WF_vars(DbStep)
    /\ \A j \in JobIds : WF_vars(JobBecomesDue(j))
    /\ WF_vars(PostLock \/ PostUnlock \/ PostDbUpdate \/ WaitTilesReturns
               \/ WaitRequiredReturns \/ StopDb \/ JoinDb \/ ClearWaiting
               \/ JoinThreads)

FairSpec == Spec /\ Fairness

-----------------------------------------------------------------------------
(* Invariants                                                              *)

QueueJobs(q) == Elements(q.mRemoving) \cup q.mUpdating \cup Elements(q.mDelayed)
QueueHasNoDuplicates(q) ==
    /\ NoDuplicates(q.mRemoving) /\ NoDuplicates(q.mDelayed)
    /\ Elements(q.mRemoving) \cap q.mUpdating = {}
    /\ Elements(q.mRemoving) \cap Elements(q.mDelayed) = {}
    /\ q.mUpdating \cap Elements(q.mDelayed) = {}

WaitingJobs == QueueJobs(mWaiting)
DbQueueJobs == dbQueue.mReading \cup Elements(dbQueue.mWriting)
HeldJobs == {worker[w].job : w \in Workers} \ {NoJob}
DbHeldJobs == {db.job} \ {NoJob}

WorkerStates == [pc : WorkerPcs, job : JobIds \cup {NoJob}, orphan : BOOLEAN,
                 status : Statuses]
DbQueues == [mReading : SUBSET JobIds, mWriting : Seq(JobIds),
             mPlayerTile : PlayerTiles, mShouldStop : BOOLEAN]
DbStates == [pc : {"idle", "busy", "stopped"}, job : JobIds \cup {NoJob}]

(* Every variable stays in the set of values the code's types allow, and   *)
(* a thread holds a job exactly while it is processing one.                *)
TypeOK ==
    /\ main \in MainPcs
    /\ posting \in [agent : Agents, tileChanged : BOOLEAN]
    /\ mPlayerTile \in PlayerTiles
    /\ mShouldStop \in BOOLEAN
    /\ job \in [JobIds -> Job \cup {NoJob}]
    /\ mWaiting \in JobQueues
    /\ mPushed \subseteq Keys /\ mProcessingTiles \subseteq Keys
    /\ mLastUpdates \subseteq Keys /\ mPresentTiles \subseteq Keys
    /\ worker \in [Workers -> WorkerStates]
    /\ \A w \in Workers : worker[w].job = NoJob <=> worker[w].pc \in {"idle", "stopped"}
    /\ dbQueue \in DbQueues
    /\ db \in DbStates
    /\ db.job = NoJob <=> db.pc # "busy"
    /\ navTiles \subseteq Keys
    /\ unread \subseteq Keys

(* Every reference to a job (in a queue, in the hands of a thread) is to a *)
(* job still in mJobs, and no job is referenced twice: no thread ever uses *)
(* an erased list node and no job is processed by two threads.             *)
JobsAreReferencedOnce ==
    /\ WaitingJobs \cup DbQueueJobs \cup HeldJobs \cup DbHeldJobs \subseteq mJobs
    /\ QueueHasNoDuplicates(mWaiting)
    /\ NoDuplicates(dbQueue.mWriting)
    /\ dbQueue.mReading \cap Elements(dbQueue.mWriting) = {}
    /\ WaitingJobs \cap DbQueueJobs = {}
    /\ (WaitingJobs \cup DbQueueJobs) \cap (HeldJobs \cup DbHeldJobs) = {}
    /\ HeldJobs \cap DbHeldJobs = {}
    /\ \A w1, w2 \in Workers :
         worker[w1].job = worker[w2].job /\ worker[w1].job # NoJob => w1 = w2

(* The jobs that own the tile they are for.                                *)
Processing(w) == worker[w].pc \notin {"idle", "stopped", "finish"}
Finishing(j) == \E w \in Workers : worker[w].job = j /\ worker[w].pc = "finish"
Owns(j) ==
    \/ \E w \in Workers : worker[w].job = j /\ Processing(w)
    \/ job[j].stage \in {"miss", "withDb"} /\ ~Finishing(j)

Owners == {j \in mJobs : Owns(j)}

(* mProcessingTiles locks a tile exactly for as long as one job owns it,   *)
(* also across the trip through the database.                              *)
TilesAreOwnedOnce ==
    /\ \A i, j \in Owners : job[i].key = job[j].key => i = j
    /\ mProcessingTiles = {job[j].key : j \in Owners}

(* mPushed is the set of keys with a job that no thread has popped yet,    *)
(* and there is one such job for each: post() never loses a key to a job   *)
(* that is already running.                                                *)
PushedIsWaiting ==
    main \notin {"join", "stopped"} =>
        LET fresh == {j \in WaitingJobs : job[j].stage = "initial"}
        IN  /\ mPushed = {job[j].key : j \in fresh}
            /\ \A i, j \in fresh : job[i].key = job[j].key => i = j

(* After a post, some job for that key has not looked at the scene yet, or *)
(* has looked at it since: no posted change is forgotten, as long as the   *)
(* agent's mesh is not replaced.  When it is, a job that waits for the old *)
(* mesh swallows a post for the new one: see NavMeshManager's "lost".      *)
Reads(w, k) ==
    /\ worker[w].pc \in {"loaded", "initial"} /\ Stage(w) = "initial"
    /\ KeyOf(w) = k /\ ~worker[w].orphan

NoPostIsForgotten ==
    main \notin {"join", "stopped"} =>
        \A k \in unread :
            k[1] \in Replaced \/ k \in mPushed \/ \E w \in Workers : Reads(w, k)

-----------------------------------------------------------------------------
(* Liveness                                                                *)

(* Both forms of wait() return: the idle threads' timeouts are enough to   *)
(* notify mDone, and no deferred or database job keeps mJobs from emptying.*)
WaitReturns == main \in {"waitJobs", "waitRequired"} ~> main = "idle"

(* stop() joins every thread, whatever is queued.                          *)
StopReturns == main \in {"stopDb", "clear"} ~> main = "stopped"

(* The main thread never gets stuck in the updater.                        *)
CallsReturn == WaitReturns /\ StopReturns

(* Once the main thread stops posting, every job is eventually removed.    *)
JobsDrain == <>[](main = "idle") => <>[](mJobs = {})
=============================================================================
