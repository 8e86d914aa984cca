-------------------------- MODULE PhysicsScheduler --------------------------
(***************************************************************************)
(* MWPhysics::PhysicsTaskScheduler (apps/openmw/mwphysics/mtphysics.cpp)   *)
(* with the three Misc::Barrier it meets at, the movements it is given by  *)
(* PhysicsSystem::stepSimulation, and the positions an Actor keeps for it. *)
(*                                                                         *)
(* The main thread hands a frame of movements to the threads, goes on with *)
(* the game, and takes the results when it comes back with the next frame. *)
(* Meanwhile the game moves and removes actors.  Without threads the main  *)
(* thread simulates the frame itself.                                      *)
(*                                                                         *)
(* A barrier's callback and an exclusive section of mSimulationMutex are   *)
(* one step each: no thread is in the simulation meanwhile, and what the   *)
(* game does to an actor is under that actor's mutex.  A position is what  *)
(* a game can tell about it: the teleport it stems from, and how many      *)
(* displacements it has had since.  Collision boxes, lines of sight and    *)
(* projectiles are left out.                                               *)
(***************************************************************************)
EXTENDS Integers, Queues

CONSTANTS
    Actors,
    ThreadChoices,      \* the mThreads a build and its settings can give
    Main, NoActor,
    MaxSteps,           \* bound of the steps of a frame
    MaxFrames,          \* bound of the calls of stepSimulation
    MaxEvents           \* bound of what the game does to actors, and of
                        \* wake-ups that nobody asked for

Threads == UNION ThreadChoices

ASSUME PhysicsAssumption ==
    /\ IsFiniteSet(Threads) /\ IsFiniteSet(Actors) /\ Main \notin Threads
    /\ NoActor \notin Actors
    /\ {MaxSteps, MaxFrames, MaxEvents} \subseteq Nat

VARIABLES
    threads,            \* mThreads
    mFrameCounter, mWorkersFrameCounter, mShouldStop,
    barrier,            \* [Barriers -> [count, generation]]
    mRemainingSteps, mNumJobs, mNextJob,
    mSimulations,       \* index of the movements simulated, 0 for nullptr
    mSimulationsCounter,
    movements,          \* PhysicsSystem::mSimulations, two buffers
    mActors, mCollisionObjects,
    actor,              \* [Actors -> [position, previous, simulation, offset, skip]]
    world,              \* [Actors -> the position the game knows]
    main,               \* [pc, call]
    runner,             \* [Threads \cup {Main} -> [pc, lastFrame, seen, job, held]]
    crashed,            \* the program has read through nullptr and ended
    overtaken,          \* history: the main thread took the lock of an unfinished frame
    moved,              \* history: times each job of this step was taken
    frames, events, teleports, moves    \* history

syncVars == <<threads, mFrameCounter, mWorkersFrameCounter, mShouldStop, overtaken, crashed>>
stepVars == <<mRemainingSteps, mNumJobs, mNextJob, moved>>
bufferVars == <<mSimulations, mSimulationsCounter, movements, frames>>
bodyVars == <<mActors, mCollisionObjects>>
placeVars == <<actor, world, teleports, moves>>
workVars == <<barrier, stepVars, bufferVars>>
actorVars == <<bodyVars, placeVars, events>>
vars == <<syncVars, workVars, actorVars, main, runner>>

Barriers == {"PreStep", "PostStep", "PostSim"}
mNumThreads == Cardinality(threads)
Runners == IF threads = {} THEN {Main} ELSE threads

(* Threads at these hold mSimulationMutex, shared; those at "move" hold    *)
(* mCollisionWorldMutex, shared or as the only thread.                     *)
SimulationPcs == {"steps", "PreStep", "jobs", "move", "drop", "destroy",
                  "PostStep", "PostSim"}
RunnerPcs == SimulationPcs \cup {"idle", "asleep", "enter", "exited"}
MainPcs == {"idle", "wait", "asleep", "lock", "simulate", "wake", "move", "clear",
            "stop", "join", "done"}

IsAt(t, pc) == runner[t].pc = pc
HoldSimulation == {t \in threads : runner[t].pc \in SimulationPcs}

(* Deviation: a reference is dropped before the lock is released.          *)
HoldUntilDropped == {t \in Runners : runner[t].pc \in {"move", "drop", "destroy"}}

HoldCollisionWorld == {t \in Runners : IsAt(t, "move")}
Goto(t, pc) == runner' = [runner EXCEPT ![t].pc = pc]
MainGoto(pc) == main' = [main EXCEPT !.pc = pc]

References(a) == {t \in Runners : runner[t].held = a /\ ~IsAt(t, "destroy")}
IsAlive(a) == a \in mActors \/ References(a) # {}

Place(base, n) == [base |-> base, moves |-> n]
Displaced(p, n) == [p EXCEPT !.moves = @ + n]

Init ==
    /\ threads \in ThreadChoices
    /\ mFrameCounter = 0 /\ mWorkersFrameCounter = 0 /\ mShouldStop = FALSE
    /\ overtaken = FALSE /\ crashed = FALSE
    /\ barrier = [b \in Barriers |-> [count |-> 0, generation |-> 0]]
    /\ mRemainingSteps = 0 /\ mNumJobs = 0 /\ mNextJob = 0
    /\ mSimulations = 0 /\ mSimulationsCounter = 0
    /\ movements = [i \in 1..2 |-> <<>>]
    /\ mActors = Actors /\ mCollisionObjects = Actors
    /\ actor = [a \in Actors |->
                  [position |-> Place(0, 0), previous |-> Place(0, 0),
                   simulation |-> Place(0, 0), offset |-> 0, skip |-> FALSE]]
    /\ world = [a \in Actors |-> Place(0, 0)]
    /\ main = [pc |-> "idle", call |-> "none"]
    /\ runner = [t \in Threads \cup {Main} |->
                   [pc |-> "idle", lastFrame |-> 0, seen |-> 0, job |-> 0,
                    held |-> NoActor]]
    /\ moved = <<>> /\ frames = 0 /\ events = 0
    /\ teleports = [a \in Actors |-> 0] /\ moves = [a \in Actors |-> 0]

-----------------------------------------------------------------------------
(* Actor: positions, under mPositionMutex                                  *)

(* Actor::applyOffsetChange.                                               *)
WithOffset(r) ==
    [r EXCEPT !.position = Displaced(@, r.offset),
              !.previous = Displaced(@, r.offset),
              !.simulation = Displaced(@, r.offset),
              !.offset = 0]

(* Deviation: the result of the simulation overwrites a teleport.          *)
SetPositionAnyway(r, p) ==
    IF r.offset # 0 THEN WithOffset(r)
    ELSE [r EXCEPT !.previous = r.position, !.position = p]

(* Deviation: it overwrites a displacement.                                *)
SetPositionAfterOffset(r, p) ==
    IF r.skip THEN WithOffset(r)
    ELSE [WithOffset(r) EXCEPT !.previous = WithOffset(r).position, !.position = p]

(* Actor::setPosition: what the game did meanwhile wins over the result p. *)
SetPosition(r, p) ==
    IF r.offset # 0 \/ r.skip THEN WithOffset(r)
    ELSE [r EXCEPT !.previous = r.position, !.position = p]

(* Actor::updatePosition: the actor is where the game says.                *)
TakenFromWorld(p) ==
    [position |-> p, previous |-> p, simulation |-> p, offset |-> 0, skip |-> TRUE]

-----------------------------------------------------------------------------
(* The game, on the main thread, between two calls of the scheduler        *)

(* PhysicsSystem::updatePosition, by World::moveObject.                    *)
Teleport(a) ==
    /\ main.pc = "idle" /\ a \in mActors
    /\ events < MaxEvents /\ events' = events + 1
    /\ LET p == Place(teleports[a] + 1, 0) IN
         /\ world' = [world EXCEPT ![a] = p]
         /\ actor' = [actor EXCEPT ![a] = TakenFromWorld(p)]
    /\ teleports' = [teleports EXCEPT ![a] = @ + 1]
    /\ moves' = [moves EXCEPT ![a] = 0]
    /\ UNCHANGED <<syncVars, workVars, bodyVars, main, runner>>

(* Actor::adjustPosition, by World::moveObjectBy.                          *)
MoveObjectBy(a) ==
    /\ main.pc = "idle" /\ a \in mActors
    /\ events < MaxEvents /\ events' = events + 1
    /\ actor' = [actor EXCEPT ![a].offset = @ + 1]
    /\ world' = [world EXCEPT ![a] = Displaced(@, 1)]
    /\ moves' = [moves EXCEPT ![a] = @ + 1]
    /\ UNCHANGED <<syncVars, workVars, bodyVars, main, runner, teleports>>

(* PhysicsSystem::remove: the actor lives on while a thread moves it;      *)
(* ~Actor takes mCollisionWorldMutex.                                      *)
RemoveActor(a) ==
    /\ main.pc = "idle" /\ a \in mActors
    /\ events < MaxEvents /\ events' = events + 1
    /\ mActors' = mActors \ {a}
    /\ IF References(a) # {} THEN UNCHANGED mCollisionObjects
       ELSE /\ HoldCollisionWorld = {}
            /\ mCollisionObjects' = mCollisionObjects \ {a}
    /\ UNCHANGED <<syncVars, workVars, placeVars, main, runner>>

(* PhysicsSystem::prepareSimulation fills one buffer while the threads may *)
(* simulate the other.  Only active actors are moved, in any order.        *)
Prepared(i, order) ==
    [movements EXCEPT ![i] = @ \o
       [j \in DOMAIN order |-> [actor |-> order[j], position |-> actor[order[j]].position]]]

(* Deviation: there is one buffer.                                         *)
OneBuffer == 1

Filled == mSimulationsCounter + 1

StepSimulation ==
    /\ main.pc = "idle" /\ frames < MaxFrames
    /\ frames' = frames + 1
    /\ \/ /\ \E active \in SUBSET mActors : \E order \in Orders(active) :
               movements' = Prepared(Filled, order)
          /\ mSimulationsCounter' = (mSimulationsCounter + 1) % 2
          /\ main' = [pc |-> "wait", call |-> "apply"]
       \/ /\ main' = [pc |-> "wait", call |-> "reset"]
          /\ UNCHANGED <<movements, mSimulationsCounter>>
    /\ UNCHANGED <<syncVars, barrier, stepVars, actorVars, mSimulations,
                   runner>>

(* ~PhysicsSystem.                                                         *)
Destroy ==
    /\ main.pc = "idle"
    /\ main' = [pc |-> "wait", call |-> "release"]
    /\ UNCHANGED <<syncVars, workVars, actorVars, runner>>

(* PhysicsSystem::moveActors: the game takes the positions simulated.      *)
MoveActors ==
    /\ main.pc = "move"
    /\ world' = [a \in Actors |-> IF a \in mActors THEN actor[a].simulation ELSE world[a]]
    /\ MainGoto("idle")
    /\ UNCHANGED <<syncVars, workVars, bodyVars, actor, runner, teleports,
                   moves, events>>

-----------------------------------------------------------------------------
(* The scheduler, on the main thread                                       *)

IsUnfinished == threads # {} /\ mFrameCounter # mWorkersFrameCounter

(* WorkersSync::waitForWorkers.                                            *)
WaitForWorkers ==
    /\ main.pc = "wait"
    /\ MainGoto(IF IsUnfinished THEN "asleep" ELSE "lock")
    /\ UNCHANGED <<syncVars, workVars, actorVars, runner>>

(* It waits with an if, where a while is needed: when the condition        *)
(* variable wakes up unasked, the main thread goes on.  The threads' waits *)
(* have predicates, and such a wake-up changes nothing there.              *)
WakeSpuriously ==
    /\ main.pc = "asleep"
    /\ events < MaxEvents /\ events' = events + 1
    /\ MainGoto("lock")
    /\ UNCHANGED <<syncVars, workVars, bodyVars, placeVars, runner>>

IsWokenEarly == main.pc = "lock" /\ IsUnfinished

(* mSimulationMutex, exclusive, for one of the calls that wait before it.  *)
TakeLock(call) ==
    /\ main.pc = "lock" /\ main.call = call /\ HoldSimulation = {}
    /\ overtaken' = (overtaken \/ IsWokenEarly)
    /\ UNCHANGED <<threads, mFrameCounter, mWorkersFrameCounter, mShouldStop, crashed>>

(* syncWithMainThread: actors take the result, unless they were teleported *)
(* meanwhile.  The position shown is between the last two.                 *)
Synced(r, p) == IF r.skip THEN [r EXCEPT !.skip = FALSE] ELSE [r EXCEPT !.simulation = p]
Simulated(i) == {movements[i][j].actor : j \in DOMAIN movements[i]}

Finished == IF threads = {} \/ mSimulations = 0 THEN {} ELSE Simulated(mSimulations) \cap mActors
NextBuffer == IF mSimulationsCounter = 0 THEN 2 ELSE 1

(* What prepareWork does to an actor: the last frame's result, its place   *)
(* for the next frame, and the lift to the surface if it is under water.   *)
AtFrameStart(a, shown, lifted) ==
    LET synced == IF a \in Finished THEN Synced(actor[a], actor[a][shown[a]]) ELSE actor[a]
        placed == IF a \in Simulated(NextBuffer) THEN WithOffset(synced) ELSE synced
    IN IF a \in lifted THEN WithOffset([placed EXCEPT !.offset = 1]) ELSE placed

(* The exclusive section of prepareWork.  The lift is a moveObjectBy.      *)
PrepareWork ==
    /\ TakeLock("apply")
    /\ \E shown \in [Finished -> {"position", "previous"}],
          lifted \in SUBSET Simulated(NextBuffer) :
         /\ events + Cardinality(lifted) <= MaxEvents
         /\ events' = events + Cardinality(lifted)
         /\ actor' = [a \in Actors |-> AtFrameStart(a, shown, lifted)]
         /\ moves' = [a \in Actors |-> IF a \in lifted THEN moves[a] + 1 ELSE moves[a]]
         /\ world' = [a \in Actors |-> IF a \in lifted THEN Displaced(world[a], 1) ELSE world[a]]
         /\ movements' = [i \in 1..2 |->
              IF i = NextBuffer
              THEN [j \in DOMAIN movements[i] |->
                      LET a == movements[i][j].actor
                      IN [movements[i][j] EXCEPT !.position = AtFrameStart(a, shown, lifted).position]]
              ELSE IF i = mSimulations THEN <<>> ELSE movements[i]]
    /\ mSimulations' = NextBuffer
    /\ mNumJobs' = Len(movements[NextBuffer]) /\ mNextJob' = 0 /\ moved' = <<>>
    /\ mRemainingSteps' \in 0..MaxSteps
    /\ IF threads # {} THEN MainGoto("wake") /\ UNCHANGED runner
       ELSE MainGoto("simulate") /\ Goto(Main, "steps")
    /\ UNCHANGED <<barrier, bodyVars, mSimulationsCounter, teleports, frames>>

(* Without threads prepareWork simulates and syncs before it returns.      *)
SyncInline ==
    /\ main.pc = "simulate" /\ IsAt(Main, "idle")
    /\ \E shown \in [mActors -> {"position", "previous"}] :
         actor' = [a \in Actors |->
                     IF a \in Simulated(mSimulations) \cap mActors
                     THEN Synced(actor[a], actor[a][shown[a]]) ELSE actor[a]]
    /\ movements' = [movements EXCEPT ![mSimulations] = <<>>]
    /\ mSimulations' = 0
    /\ MainGoto("move")
    /\ UNCHANGED <<syncVars, barrier, stepVars, bodyVars, runner,
                   mSimulationsCounter, world, teleports, moves, events,
                   frames>>

WakeUpWorkers ==
    /\ main.pc = "wake"
    /\ mFrameCounter' = mFrameCounter + 1
    /\ MainGoto("move")
    /\ UNCHANGED <<threads, mWorkersFrameCounter, mShouldStop, overtaken, crashed,
                   workVars, actorVars, runner>>

MovementsCleared ==
    /\ movements' = [i \in 1..2 |-> IF i = mSimulations THEN <<>> ELSE movements[i]]
    /\ mSimulations' = 0
    /\ UNCHANGED <<stepVars, mSimulationsCounter>>

(* resetSimulation: the frame is dropped, actors are where the game says.  *)
ResetSimulation ==
    /\ TakeLock("reset")
    /\ MovementsCleared
    /\ actor' = [a \in Actors |-> IF a \in mActors THEN TakenFromWorld(world[a])
                                  ELSE actor[a]]
    /\ moves' = [a \in Actors |-> IF a \in mActors THEN world[a].moves ELSE moves[a]]
    /\ MainGoto("move")
    /\ UNCHANGED <<barrier, bodyVars, world, teleports, events, runner, frames>>

ReleaseSharedStates ==
    /\ TakeLock("release")
    /\ MovementsCleared
    /\ MainGoto("clear")
    /\ UNCHANGED <<barrier, actorVars, runner, frames>>

(* The rest of ~PhysicsSystem destroys the actors, then the scheduler.     *)
ClearActors ==
    /\ main.pc = "clear"
    /\ mActors' = {}
    /\ mCollisionObjects' = mCollisionObjects \ {a \in mActors : References(a) = {}}
    /\ main' = [pc |-> "wait", call |-> "destroy"]
    /\ UNCHANGED <<syncVars, workVars, placeVars, events, runner>>

(* ~PhysicsTaskScheduler.                                                  *)
ZeroWork ==
    /\ TakeLock("destroy")
    /\ mNumJobs' = 0 /\ mRemainingSteps' = 0
    /\ MainGoto("stop")
    /\ UNCHANGED <<barrier, bufferVars, actorVars, mNextJob, moved, runner>>

StopWorkers ==
    /\ main.pc = "stop"
    /\ mShouldStop' = TRUE
    /\ MainGoto("join")
    /\ UNCHANGED <<threads, mFrameCounter, mWorkersFrameCounter, overtaken, crashed,
                   workVars, actorVars, runner>>

Join ==
    /\ main.pc = "join" /\ \A t \in threads : IsAt(t, "exited")
    /\ MainGoto("done")
    /\ UNCHANGED <<syncVars, workVars, actorVars, runner>>

-----------------------------------------------------------------------------
(* WorkersSync::runWorker                                                  *)

(* The loop's test and the wait's first look, under mHasJobMutex: only the *)
(* loop's test ends the thread.                                            *)
RunWorker(t) ==
    /\ t \in threads /\ IsAt(t, "idle")
    /\ runner' = [runner EXCEPT ![t].pc =
                    IF mShouldStop THEN "exited" ELSE "asleep"]
    /\ UNCHANGED <<syncVars, workVars, actorVars, main>>

(* Deviation: a thread asleep is not told to stop.                         *)
HasFrame(t) == mFrameCounter # runner[t].lastFrame

HasJob(t) == mShouldStop \/ mFrameCounter # runner[t].lastFrame

(* mHasJob.wait with its predicate; stop and frame are both announced to   *)
(* all.  A thread told to stop here runs a frame once more.                *)
Wake(t) ==
    /\ t \in threads /\ IsAt(t, "asleep") /\ HasJob(t)
    /\ runner' = [runner EXCEPT ![t].pc = "enter", ![t].lastFrame = mFrameCounter]
    /\ UNCHANGED <<syncVars, workVars, actorVars, main>>

(* worker(): mSimulationMutex, shared.                                     *)
Enter(t) ==
    /\ t \in threads /\ IsAt(t, "enter")
    /\ Goto(t, "steps")
    /\ UNCHANGED <<syncVars, workVars, actorVars, main>>

-----------------------------------------------------------------------------
(* doSimulation, on every runner                                           *)

Inside(t) == t \in Runners /\ (t = Main => main.pc = "simulate")
(* After the last barrier a thread releases mSimulationMutex.              *)
After(b) ==
    CASE b = "PreStep" -> "jobs" [] b = "PostStep" -> "steps" [] OTHER -> "idle"

IsLast(b) == barrier[b].count + 1 = mNumThreads \/ mNumThreads = 0

(* Barrier::wait up to its wait: the last to come runs the callback.       *)
Arrive(t, b) ==
    IF IsLast(b)
    THEN /\ barrier' = [barrier EXCEPT ![b] = [count |-> 0, generation |-> @.generation + 1]]
         /\ Goto(t, After(b))
    ELSE /\ barrier' = [barrier EXCEPT ![b].count = @ + 1]
         /\ runner' = [runner EXCEPT ![t].pc = b, ![t].seen = barrier[b].generation]

Pass(t) ==
    /\ Inside(t) /\ runner[t].pc \in Barriers
    /\ barrier[runner[t].pc].generation # runner[t].seen
    /\ runner' = [runner EXCEPT ![t].pc = After(runner[t].pc), ![t].seen = 0]
    /\ UNCHANGED <<syncVars, workVars, actorVars, main>>

(* The last one goes through *mSimulations.                                *)
ReadsNullptr == IsLast("PreStep") /\ mSimulations = 0

(* afterPreStep has collision boxes updated and actors unstuck: data.      *)
BeginStep(t) ==
    /\ Inside(t) /\ IsAt(t, "steps") /\ mRemainingSteps > 0
    /\ ~ReadsNullptr
    /\ Arrive(t, "PreStep")
    /\ moved' = IF IsLast("PreStep") THEN [j \in 1..mNumJobs |-> 0] ELSE moved
    /\ UNCHANGED <<syncVars, bufferVars, actorVars, mRemainingSteps, mNumJobs,
                   mNextJob, main>>

(* Nothing is done after it.                                               *)
Crash(t) ==
    /\ Inside(t) /\ IsAt(t, "steps") /\ mRemainingSteps > 0
    /\ ReadsNullptr
    /\ crashed' = TRUE
    /\ UNCHANGED <<threads, mFrameCounter, mWorkersFrameCounter, mShouldStop, overtaken,
                   workVars, actorVars, main, runner>>

(* Deviation: the first thread to come reports the end of the frame.       *)
FirstReports == mFrameCounter > mWorkersFrameCounter

LastReports == threads # {} /\ IsLast("PostSim")

(* afterPostSim: workIsDone, which wakes the main thread.                  *)
EndFrame(t) ==
    /\ Inside(t) /\ IsAt(t, "steps") /\ mRemainingSteps = 0
    /\ Arrive(t, "PostSim")
    /\ IF LastReports
       THEN /\ mWorkersFrameCounter' = mWorkersFrameCounter + 1
            /\ main' = IF main.pc = "asleep" THEN [main EXCEPT !.pc = "lock"] ELSE main
       ELSE UNCHANGED <<mWorkersFrameCounter, main>>
    /\ UNCHANGED <<threads, mFrameCounter, mShouldStop, overtaken, crashed, stepVars,
                   bufferVars, actorVars>>

(* mNextJob.fetch_add gives the runner a job; SimulationImpl::lock keeps   *)
(* the actor alive while it moves it, if it still is.                      *)
FetchJob(t) ==
    /\ Inside(t) /\ IsAt(t, "jobs") /\ mNextJob < mNumJobs
    /\ mNextJob' = mNextJob + 1
    /\ LET a == movements[mSimulations][mNextJob + 1].actor IN
         IF IsAlive(a)
         THEN /\ runner' = [runner EXCEPT ![t].pc = "move", ![t].job = mNextJob + 1,
                                          ![t].held = a]
              /\ UNCHANGED moved
         ELSE /\ moved' = [moved EXCEPT ![mNextJob + 1] = @ + 1]
              /\ UNCHANGED runner
    /\ UNCHANGED <<syncVars, barrier, bufferVars, actorVars, mRemainingSteps,
                   mNumJobs, main>>

(* Visitors::Move under mCollisionWorldMutex.                              *)
Move(t) ==
    /\ Inside(t) /\ IsAt(t, "move")
    /\ moved' = [moved EXCEPT ![runner[t].job] = @ + 1]
    /\ Goto(t, "drop")
    /\ UNCHANGED <<syncVars, barrier, bufferVars, actorVars, mRemainingSteps,
                   mNumJobs, mNextJob, main>>

(* Deviation: an actor dropped last by a thread stays in the world.        *)
NeverLast(t) == FALSE

IsLastReference(t) ==
    runner[t].held \notin mActors /\ References(runner[t].held) = {t}

(* After the lock is released the reference is dropped, by ~shared_ptr.    *)
Dropped(t) == runner' = [runner EXCEPT ![t].pc = "jobs", ![t].job = 0, ![t].held = NoActor]

Drop(t) ==
    /\ Inside(t) /\ IsAt(t, "drop")
    /\ IF IsLastReference(t) THEN Goto(t, "destroy") ELSE Dropped(t)
    /\ UNCHANGED <<syncVars, workVars, actorVars, main>>

(* ~Actor: removeCollisionObject.                                          *)
DestroyActor(t) ==
    /\ Inside(t) /\ IsAt(t, "destroy") /\ HoldCollisionWorld = {}
    /\ mCollisionObjects' = mCollisionObjects \ {runner[t].held}
    /\ Dropped(t)
    /\ UNCHANGED <<syncVars, workVars, placeVars, mActors, events, main>>

(* updateActorsPositions: the result becomes the actor's position, or the  *)
(* actor's position the place to go on from.                               *)
PositionsUpdated ==
    LET simulated == movements[mSimulations]
        updated(m) == SetPosition(actor[m.actor], m.position)
    IN /\ actor' = [a \in Actors |->
            IF IsAlive(a) /\ a \in Simulated(mSimulations)
            THEN updated(CHOOSE m \in Elements(simulated) : m.actor = a) ELSE actor[a]]
       /\ movements' = [movements EXCEPT ![mSimulations] =
            [j \in DOMAIN simulated |->
               IF IsAlive(simulated[j].actor)
               THEN [simulated[j] EXCEPT !.position = updated(simulated[j]).position]
               ELSE simulated[j]]]

(* Deviation: mNextJob goes on in the next step.                           *)
GoOn == UNCHANGED mNextJob

StartOver == mNextJob' = 0

(* No job left: fetch_add counts on, and afterPostStep starts it over.     *)
EndStep(t) ==
    /\ Inside(t) /\ IsAt(t, "jobs") /\ mNextJob >= mNumJobs
    /\ Arrive(t, "PostStep")
    /\ IF IsLast("PostStep")
       THEN /\ mRemainingSteps' = mRemainingSteps - 1
            /\ PositionsUpdated
            /\ StartOver /\ moved' = <<>>
       ELSE /\ mNextJob' = mNextJob + 1
            /\ UNCHANGED <<mRemainingSteps, movements, actor, moved>>
    /\ UNCHANGED <<syncVars, bodyVars, mNumJobs, mSimulations,
                   mSimulationsCounter, world, teleports, moves, events, main,
                   frames>>

-----------------------------------------------------------------------------
Game ==
    \/ \E a \in Actors : Teleport(a) \/ MoveObjectBy(a) \/ RemoveActor(a)
    \/ StepSimulation \/ Destroy

(* What the main thread goes on with by itself.                            *)
MainStep ==
    \/ WaitForWorkers \/ WakeSpuriously \/ PrepareWork \/ SyncInline \/ WakeUpWorkers
    \/ MoveActors \/ ResetSimulation \/ ReleaseSharedStates \/ ClearActors
    \/ ZeroWork \/ StopWorkers \/ Join

RunnerStep(t) ==
    \/ RunWorker(t) \/ Wake(t) \/ Enter(t)
    \/ BeginStep(t) \/ Crash(t) \/ EndFrame(t) \/ Pass(t)
    \/ FetchJob(t) \/ Move(t) \/ Drop(t) \/ DestroyActor(t) \/ EndStep(t)

Next ==
    \/ ~crashed /\ Game
    \/ ~crashed /\ MainStep
    \/ \E t \in Threads \cup {Main} : ~crashed /\ RunnerStep(t)

Spec == Init /\ [][Next]_vars

-----------------------------------------------------------------------------
(* Properties                                                              *)

Places == [base : 0..MaxEvents, moves : 0..MaxEvents]
MovementsType == [actor : Actors, position : Places]
ActorType == [position : Places, previous : Places, simulation : Places,
              offset : 0..MaxEvents, skip : BOOLEAN]

TypeOK ==
    /\ threads \in ThreadChoices
    /\ mFrameCounter \in 0..MaxFrames /\ mShouldStop \in BOOLEAN
    /\ overtaken \in BOOLEAN /\ crashed \in BOOLEAN
    /\ mWorkersFrameCounter \in 0..MaxFrames + 1
    /\ \A b \in Barriers : barrier[b].count \in 0..mNumThreads /\ barrier[b].generation \in Nat
    /\ mRemainingSteps \in 0..MaxSteps /\ mNumJobs \in 0..Cardinality(Actors)
    /\ mNextJob \in 0..mNumJobs + mNumThreads
    /\ mSimulations \in 0..2 /\ mSimulationsCounter \in 0..1
    /\ \A i \in 1..2 : movements[i] \in Seq(MovementsType)
    /\ mActors \subseteq Actors /\ mCollisionObjects \subseteq Actors
    /\ actor \in [Actors -> ActorType] /\ world \in [Actors -> Places]
    /\ main \in [pc : MainPcs, call : {"none", "apply", "reset", "release", "destroy"}]
    /\ runner \in [Threads \cup {Main} ->
                     [pc : RunnerPcs, lastFrame : 0..MaxFrames, seen : Nat,
                      job : 0..Cardinality(Actors), held : Actors \cup {NoActor}]]
    /\ \A j \in DOMAIN moved : moved[j] \in Nat

(* The main thread was woken before the frame was over, and has asked for  *)
(* the lock or had it.                                                     *)
IsUnasked == overtaken \/ IsWokenEarly

(* mtphysics.cpp, above waitForWorkers: unless its wait ended unasked, the *)
(* main thread asks for the exclusive lock only when no thread has still   *)
(* to ask for the shared one to finish the frame: the others would wait    *)
(* for it at a barrier, with the lock the main thread waits for.           *)
HasToEnter(t) ==
    \/ IsAt(t, "enter")
    \/ runner[t].pc \in {"idle", "asleep"} /\ runner[t].lastFrame # mFrameCounter

WorkersAreInWhenLockIsAskedUnlessWoken ==
    main.pc = "lock" /\ ~IsUnasked => \A t \in threads : ~HasToEnter(t)

(* A step of the simulation ends when every job was taken by one thread:   *)
(* no actor is moved twice, none is left where it was.                     *)
EveryActorMovesOncePerStep ==
    [][main' = main /\ mRemainingSteps' # mRemainingSteps =>
         \A j \in 1..mNumJobs : moved[j] = 1]_vars

(* The assertions of prepareSimulation and applyQueuedMovements: the main  *)
(* thread fills a buffer that is empty and that no thread simulates.       *)
BufferFilledIsFree ==
    [][StepSimulation /\ main'.call = "apply" =>
         movements[Filled] = <<>> /\ mSimulations # Filled]_vars

(* A teleport of the game is never undone by a frame that began before it. *)
TeleportsAreKept ==
    \A a \in mActors :
        {world[a].base, actor[a].position.base, actor[a].previous.base,
         actor[a].simulation.base} = {teleports[a]}

(* A displacement is applied once to each position the actor keeps, by the *)
(* main thread or by the physics threads, or is still to be applied.       *)
DisplacementsCountOnce ==
    \A a \in mActors :
        {actor[a].position.moves, actor[a].previous.moves, actor[a].simulation.moves}
          = {moves[a] - actor[a].offset}

(* The collision world holds the actors that live, whoever drops them last.*)
WorldHoldsLivingActors ==
    \A a \in Actors : a \in mCollisionObjects <=>
        a \in mActors \/ \E t \in Runners : runner[t].held = a

(* Where a runner does not wait: for a frame, for others at a barrier, for *)
(* mCollisionWorldMutex.                                                   *)
CanGoOn(t) ==
    \/ /\ t \in threads
       /\ runner[t].pc \in {"idle", "enter"} \/ (IsAt(t, "asleep") /\ HasJob(t))
    \/ /\ Inside(t)
       /\ \/ runner[t].pc \in {"steps", "jobs", "move", "drop"}
          \/ \E b \in Barriers : IsAt(t, b) /\ barrier[b].generation # runner[t].seen
          \/ IsAt(t, "destroy") /\ HoldCollisionWorld = {}

(* With one thread or none the scheduler can be destroyed: no thread is    *)
(* waited for that cannot go on and exit.  And as long as no wait of the   *)
(* main thread has ended unasked, a frame handed to the threads is         *)
(* finished: until it is, one of them can go on.  The main thread sleeps   *)
(* only until then, and gets its lock.  No thread simulates a frame that   *)
(* is gone.                                                                *)
NobodyWaitsInVain ==
    LET someone == \E t \in threads : CanGoOn(t)
    IN  /\ main.pc = "join" /\ mNumThreads <= 1 =>
             (\A t \in threads : IsAt(t, "exited")) \/ someone
        /\ ~IsUnasked =>
             /\ mFrameCounter > mWorkersFrameCounter \/ main.pc = "asleep" => someone
             /\ main.pc = "lock" => HoldSimulation = {} \/ someone
             /\ ~crashed

(* And can go on means that a step is enabled.                             *)
SchedulerGoesOnUnlessWoken ==
    /\ NobodyWaitsInVain
    /\ \A t \in Threads \cup {Main} : CanGoOn(t) <=> ENABLED RunnerStep(t)
=============================================================================
