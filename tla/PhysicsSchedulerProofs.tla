----------------------- MODULE PhysicsSchedulerProofs -----------------------
(* Proofs, for any threads, actors and steps: the main thread and the      *)
(* physics threads take turns and never wait in vain, every actor is moved *)
(* once per step and what the game does to it meanwhile is kept.           *)
EXTENDS PhysicsScheduler, FiniteSetTheorems, SequenceTheorems, TLAPS

-----------------------------------------------------------------------------
(* Types                                                                   *)

Calls == {"none", "apply", "reset", "release", "destroy"}
RunnerType == [pc : RunnerPcs, lastFrame : Nat, seen : Nat, job : Nat,
               held : Actors \cup {NoActor}]

ControlInv ==
    /\ threads \in ThreadChoices
    /\ mFrameCounter \in Nat /\ mWorkersFrameCounter \in Nat /\ mShouldStop \in BOOLEAN
    /\ barrier \in [Barriers -> [count : Nat, generation : Nat]]
    /\ mRemainingSteps \in Nat /\ mNumJobs \in Nat /\ mNextJob \in Nat
    /\ mSimulations \in 0..2 /\ mSimulationsCounter \in 0..1
    /\ main \in [pc : MainPcs, call : Calls]
    /\ runner \in [Threads \cup {Main} -> RunnerType]

Spots == [base : Nat, moves : Nat]
Movement == [actor : Actors, position : Spots]
ActorState == [position : Spots, previous : Spots, simulation : Spots,
               offset : Nat, skip : BOOLEAN]

DataInv ==
    /\ movements \in [1..2 -> Seq(Movement)]
    /\ mActors \subseteq Actors /\ mCollisionObjects \subseteq Actors
    /\ actor \in [Actors -> ActorState] /\ world \in [Actors -> Spots]
    /\ teleports \in [Actors -> Nat] /\ moves \in [Actors -> Nat]

LEMMA ThreadFacts ==
    ASSUME ControlInv
    PROVE  /\ threads \subseteq Threads /\ IsFiniteSet(threads) /\ Main \notin threads
           /\ mNumThreads \in Nat /\ (mNumThreads = 0 <=> threads = {})
           /\ Runners \subseteq Threads \cup {Main}
           /\ \A t \in Runners : threads # {} => t \in threads
           /\ \A t \in Runners : threads = {} => t = Main
           /\ threads \subseteq Runners
<1>1. threads \subseteq Threads
  BY DEF ControlInv, Threads
<1>2. IsFiniteSet(threads) /\ Main \notin threads
  BY <1>1, FS_Subset, PhysicsAssumption
<1>3. mNumThreads \in Nat /\ (mNumThreads = 0 <=> threads = {})
  BY <1>2, FS_CardinalityType, FS_EmptySet DEF mNumThreads
<1> QED BY <1>1, <1>2, <1>3 DEF Runners

(* What a step does to the runner that takes it, and to no other.          *)
LEMMA GotoFacts ==
    ASSUME ControlInv, NEW t \in Threads \cup {Main}, NEW pc \in RunnerPcs, Goto(t, pc)
    PROVE  /\ runner' \in [Threads \cup {Main} -> RunnerType]
           /\ \A u \in (Threads \cup {Main}) \ {t} : runner'[u] = runner[u]
           /\ runner'[t].pc = pc /\ runner'[t].lastFrame = runner[t].lastFrame
           /\ runner'[t].seen = runner[t].seen /\ runner'[t].job = runner[t].job
           /\ runner'[t].held = runner[t].held
BY DEF ControlInv, Goto, RunnerType

LEMMA DroppedFacts ==
    ASSUME ControlInv, NEW t \in Threads \cup {Main}, Dropped(t)
    PROVE  /\ runner' \in [Threads \cup {Main} -> RunnerType]
           /\ \A u \in (Threads \cup {Main}) \ {t} : runner'[u] = runner[u]
           /\ runner'[t].pc = "jobs" /\ runner'[t].lastFrame = runner[t].lastFrame
           /\ runner'[t].seen = runner[t].seen /\ runner'[t].held = NoActor
BY DEF ControlInv, Dropped, RunnerType, RunnerPcs, SimulationPcs

LEMMA AfterPcs == \A b \in Barriers : After(b) \in {"jobs", "steps", "idle"} /\ After(b) \in RunnerPcs /\ b \in RunnerPcs
BY DEF Barriers, After, RunnerPcs, SimulationPcs

LEMMA ArriveFacts ==
    ASSUME ControlInv, NEW t \in Threads \cup {Main}, NEW b \in Barriers, Arrive(t, b)
    PROVE  /\ runner' \in [Threads \cup {Main} -> RunnerType]
           /\ barrier' \in [Barriers -> [count : Nat, generation : Nat]]
           /\ \A u \in (Threads \cup {Main}) \ {t} : runner'[u] = runner[u]
           /\ runner'[t].pc = IF IsLast(b) THEN After(b) ELSE b
           /\ runner'[t].lastFrame = runner[t].lastFrame
           /\ runner'[t].held = runner[t].held
           /\ ~IsLast(b) => runner'[t].seen = barrier[b].generation
           /\ \A c \in Barriers \ {b} : barrier'[c] = barrier[c]
           /\ barrier'[b].count = IF IsLast(b) THEN 0 ELSE barrier[b].count + 1
           /\ barrier'[b].generation = IF IsLast(b) THEN barrier[b].generation + 1
                                       ELSE barrier[b].generation
<1>1. CASE IsLast(b)
  <2>1. Goto(t, After(b))
        /\ barrier' = [barrier EXCEPT ![b] = [count |-> 0, generation |-> @.generation + 1]]
    BY <1>1 DEF Arrive
  <2>2. /\ barrier' \in [Barriers -> [count : Nat, generation : Nat]]
        /\ \A c \in Barriers \ {b} : barrier'[c] = barrier[c]
        /\ barrier'[b].count = 0 /\ barrier'[b].generation = barrier[b].generation + 1
    BY <2>1 DEF ControlInv
  <2> QED BY <1>1, <2>1, <2>2, GotoFacts, AfterPcs
<1>2. CASE ~IsLast(b)
  <2>1. /\ barrier' = [barrier EXCEPT ![b].count = @ + 1]
        /\ runner' = [runner EXCEPT ![t].pc = b, ![t].seen = barrier[b].generation]
    BY <1>2 DEF Arrive
  <2>2. /\ barrier' \in [Barriers -> [count : Nat, generation : Nat]]
        /\ \A c \in Barriers \ {b} : barrier'[c] = barrier[c]
        /\ barrier'[b].count = barrier[b].count + 1 /\ barrier'[b].generation = barrier[b].generation
    BY <2>1 DEF ControlInv
  <2>3. barrier[b].generation \in Nat /\ b \in RunnerPcs
    BY AfterPcs DEF ControlInv
  <2>4. /\ runner' \in [Threads \cup {Main} -> RunnerType]
        /\ \A u \in (Threads \cup {Main}) \ {t} : runner'[u] = runner[u]
        /\ runner'[t].pc = b /\ runner'[t].lastFrame = runner[t].lastFrame
        /\ runner'[t].held = runner[t].held /\ runner'[t].seen = barrier[b].generation
    BY <2>1, <2>3 DEF ControlInv, RunnerType
  <2> QED BY <1>2, <2>2, <2>4
<1> QED BY <1>1, <1>2

LEMMA PassFacts ==
    ASSUME ControlInv, NEW t \in Threads \cup {Main}, Pass(t)
    PROVE  /\ runner' \in [Threads \cup {Main} -> RunnerType]
           /\ \A u \in (Threads \cup {Main}) \ {t} : runner'[u] = runner[u]
           /\ runner[t].pc \in Barriers /\ runner'[t].pc = After(runner[t].pc)
           /\ runner'[t].lastFrame = runner[t].lastFrame /\ runner'[t].held = runner[t].held
<1>1. /\ runner[t].pc \in Barriers
      /\ runner' = [runner EXCEPT ![t].pc = After(runner[t].pc), ![t].seen = 0]
  BY DEF Pass
<1>2. After(runner[t].pc) \in RunnerPcs
  BY <1>1, AfterPcs
<1> QED BY <1>1, <1>2 DEF ControlInv, RunnerType

-----------------------------------------------------------------------------
(* The inductive invariant                                                 *)

Waiting(b) == {t \in threads : IsAt(t, b) /\ runner[t].seen = barrier[b].generation}
Released(t, b) == IsAt(t, b) /\ runner[t].seen # barrier[b].generation

(* A barrier counts who waits for it, and is never full.                   *)
BarrierInv ==
    \A b \in Barriers :
        /\ barrier[b].count = Cardinality(Waiting(b))
        /\ threads # {} => barrier[b].count < mNumThreads
        /\ \A t \in threads : IsAt(t, b) => runner[t].seen <= barrier[b].generation

(* Out of the frame: before a thread has taken it, and once it is over.    *)
IsOut(t) == runner[t].pc \in {"idle", "asleep"} \/ Released(t, "PostSim")
FrameIsDone == mFrameCounter = mWorkersFrameCounter

(* A frame is over for all threads at once, and the main thread starts the *)
(* next one only then, unless it has overtaken one.                        *)
FrameInv ==
    ~overtaken /\ ~mShouldStop =>
      /\ FrameIsDone \/ mFrameCounter = mWorkersFrameCounter + 1
      /\ \A t \in threads :
           /\ ~IsAt(t, "exited") /\ (FrameIsDone => IsOut(t))
           /\ runner[t].lastFrame = IF ~FrameIsDone /\ IsOut(t) THEN mFrameCounter - 1
                                    ELSE mFrameCounter
      /\ main.pc \in {"wake", "stop"} => FrameIsDone
      /\ threads # {} /\ (~FrameIsDone \/ main.pc = "wake") => mSimulations # 0
      /\ FrameIsDone /\ main.pc \notin {"wake", "simulate"} => mRemainingSteps = 0
      /\ threads = {} => FrameIsDone

(* What the destructors leave behind.                                      *)
StopInv ==
    /\ mShouldStop => main.pc \in {"join", "done"}
    /\ main.pc \in {"stop", "join", "done"} =>
         /\ mRemainingSteps = 0
         /\ \A t \in threads : IsOut(t) \/ runner[t].pc \in {"exited", "enter", "steps", "PostSim"}
    /\ main.pc = "clear" \/ main.call = "destroy" => mSimulations = 0
    /\ main.pc \in {"clear", "stop", "join", "done"} => main.call \in {"release", "destroy"}
    /\ main.pc \in {"stop", "join", "done"} => main.call = "destroy"
    /\ main.pc = "clear" => main.call = "release"
    /\ main.pc \in {"wait", "asleep", "lock"} => main.call # "none"
    /\ main.pc \in {"simulate", "wake"} => main.call = "apply"
    /\ main.pc = "wake" => threads # {}

(* Without threads the main thread simulates, without waiting.             *)
InlineInv ==
    /\ threads # {} \/ main.pc # "simulate" => IsAt(Main, "idle")
    /\ threads = {} => runner[Main].pc \in {"idle", "steps", "jobs", "move", "drop", "destroy"}
    /\ main.pc = "simulate" =>
         threads = {} /\ mSimulations # 0 /\ (IsAt(Main, "idle") => mRemainingSteps = 0)
    /\ threads = {} /\ main.pc # "simulate" => mRemainingSteps = 0 /\ mSimulations = 0

(* All runners are in a step, or none.                                     *)
InStep(t) ==
    \/ runner[t].pc \in {"jobs", "move", "drop", "destroy"}
    \/ Released(t, "PreStep")
    \/ IsAt(t, "PostStep") /\ ~Released(t, "PostStep")
StepInv ==
    /\ \A t \in Runners : InStep(t) =>
         mRemainingSteps > 0 /\ mSimulations # 0 /\ \A u \in Runners : InStep(u)
    /\ (\A t \in Runners : ~InStep(t)) => mNextJob = 0

(* The program reads through nullptr only after a frame was overtaken.     *)
WokenInv == overtaken \in BOOLEAN /\ crashed \in BOOLEAN /\ (crashed => overtaken)

(* A job is still to be taken, has one runner at it, or is done once.      *)
Movers(j) == {t \in Runners : IsAt(t, "move") /\ runner[t].job = j}
JobsInv ==
    /\ \A t \in Runners : IsAt(t, "move") => runner[t].job \in 1..mNumJobs /\ runner[t].job <= mNextJob
    /\ \A t, u \in Runners :
         IsAt(t, "move") /\ IsAt(u, "move") /\ runner[t].job = runner[u].job => t = u
    /\ \A t \in Runners : InStep(t) =>
         /\ moved \in [1..mNumJobs -> Nat]
         /\ \A j \in 1..mNumJobs :
              moved[j] = IF j <= mNextJob /\ Movers(j) = {} THEN 1 ELSE 0

(* The buffer that is filled next is empty, and no thread reads it.        *)
IsPending == main.call = "apply" /\ main.pc \in {"wait", "asleep", "lock"}
BufferInv ==
    /\ mSimulations \in {0, IF IsPending THEN Filled ELSE NextBuffer}
    /\ \A i \in 1..2 : movements[i] # <<>> => i = mSimulations \/ (IsPending /\ i = NextBuffer)
    /\ mSimulations # 0 => mNumJobs = Len(movements[mSimulations])

(* An actor that is being destroyed has one runner that destroys it.       *)
HeldInv ==
    /\ \A t \in Runners : runner[t].held # NoActor <=> runner[t].pc \in {"move", "drop", "destroy"}
    /\ \A a \in Actors : \A t \in Runners : IsAt(t, "destroy") /\ runner[t].held = a => ~IsAlive(a)
    /\ \A t, u \in Runners :
         IsAt(t, "destroy") /\ IsAt(u, "destroy") /\ runner[t].held = runner[u].held => t = u
    /\ WorldHoldsLivingActors

(* After the given teleport and displacements, each applied or put off.    *)
IsPlaced(r, base, n) ==
    \A f \in {"position", "previous", "simulation"} :
        r[f].base = base /\ r[f].moves = n - r.offset

(* The result that is simulated for an actor goes on from where the actor  *)
(* is, unless the game has moved it since.                                 *)
PlaceInv ==
    \A a \in mActors :
        /\ world[a].base = teleports[a]
        /\ IsPlaced(actor[a], teleports[a], moves[a])
        /\ mSimulations # 0 /\ ~actor[a].skip /\ actor[a].offset = 0 =>
             \A j \in DOMAIN movements[mSimulations] :
                 movements[mSimulations][j].actor = a =>
                     movements[mSimulations][j].position = Place(teleports[a], moves[a])

PhaseInv == ControlInv /\ BarrierInv /\ FrameInv /\ StopInv /\ InlineInv /\ StepInv /\ WokenInv
IInv == PhaseInv /\ DataInv /\ JobsInv /\ BufferInv /\ HeldInv /\ PlaceInv

-----------------------------------------------------------------------------
(* In a step                                                               *)

(* Who is in a step has a buffer to simulate, and so has everyone.         *)
LEMMA InStepFacts ==
    ASSUME PhaseInv, NEW t \in Runners, InStep(t)
    PROVE  /\ mSimulations \in 1..2 /\ mRemainingSteps > 0 /\ \A u \in Runners : InStep(u)
           /\ ~mShouldStop /\ main.pc \notin {"stop", "join", "done"}
           /\ threads # {} => /\ t \in HoldSimulation /\ (~overtaken => ~FrameIsDone)
           /\ threads = {} => main.pc = "simulate"
<1>1. mRemainingSteps > 0 /\ mSimulations # 0 /\ \A u \in Runners : InStep(u)
  BY DEF PhaseInv, StepInv
<1>2. main.pc \notin {"stop", "join", "done"} /\ ~mShouldStop /\ mSimulations \in 1..2
  BY <1>1 DEF PhaseInv, StopInv, ControlInv
<1>3. threads = {} => main.pc = "simulate"
  BY <1>1, ThreadFacts DEF PhaseInv, InlineInv
<1>4. ASSUME threads # {} PROVE t \in HoldSimulation /\ (~overtaken => ~FrameIsDone)
  <2>1. t \in threads /\ t \in Threads \cup {Main} /\ ~IsOut(t) /\ t \in HoldSimulation
    BY <1>4, ThreadFacts DEF PhaseInv, InStep, IsOut, IsAt, Released, HoldSimulation, SimulationPcs
  <2> QED BY <1>2, <2>1 DEF PhaseInv, FrameInv
<1> QED BY <1>1, <1>2, <1>3, <1>4

(* Who takes the lock finds no one in a step.                              *)
LEMMA LockFacts ==
    ASSUME PhaseInv, NEW call, TakeLock(call)
    PROVE  /\ main.pc = "lock" /\ main.call = call /\ HoldSimulation = {}
           /\ UNCHANGED <<threads, mFrameCounter, mWorkersFrameCounter, mShouldStop, crashed>>
           /\ overtaken' \in BOOLEAN /\ (overtaken => overtaken')
           /\ \A t \in Runners : ~InStep(t)
           /\ mNextJob = 0 /\ ~mShouldStop
           /\ ~overtaken' => ~overtaken /\ FrameIsDone
<1>1. /\ main.pc = "lock" /\ main.call = call /\ HoldSimulation = {}
      /\ UNCHANGED <<threads, mFrameCounter, mWorkersFrameCounter, mShouldStop, crashed>>
      /\ overtaken' = (overtaken \/ IsWokenEarly)
  BY DEF TakeLock
<1>2. \A t \in Runners : ~InStep(t)
  BY <1>1, InStepFacts
<1>3. mNextJob = 0 /\ ~mShouldStop
  BY <1>1, <1>2 DEF PhaseInv, StepInv, StopInv
<1>4. ~overtaken' => ~overtaken /\ FrameIsDone
  BY <1>1, <1>3 DEF PhaseInv, FrameInv, FrameIsDone, IsWokenEarly, IsUnfinished
<1> QED BY <1>1, <1>2, <1>3, <1>4 DEF PhaseInv, WokenInv

LEMMA MappedSeq ==
    ASSUME NEW S, NEW T, NEW s \in Seq(S), NEW f \in [DOMAIN s -> T]
    PROVE  f \in Seq(T) /\ Len(f) = Len(s) /\ DOMAIN f = DOMAIN s
OBVIOUS

(* The jobs of a step are the movements of its buffer.                     *)
LEMMA JobFacts ==
    ASSUME PhaseInv, DataInv, BufferInv, NEW t \in Runners, InStep(t), NEW j \in 1..mNumJobs
    PROVE  /\ j \in DOMAIN movements[mSimulations]
           /\ movements[mSimulations][j] \in Movement /\ movements[mSimulations][j].actor \in Actors
<1>1. mSimulations \in 1..2
  BY InStepFacts
<1>2. movements[mSimulations] \in Seq(Movement) /\ mNumJobs = Len(movements[mSimulations])
  BY <1>1 DEF DataInv, BufferInv
<1>3. j \in DOMAIN movements[mSimulations]
  BY <1>2
<1>4. movements[mSimulations][j] \in Movement
  BY <1>2, <1>3
<1> QED BY <1>3, <1>4 DEF Movement

LEMMA FetchFacts ==
    ASSUME PhaseInv, DataInv, BufferInv, NEW t \in Runners, t \in Threads \cup {Main}, FetchJob(t)
    PROVE  LET a == movements[mSimulations][mNextJob + 1].actor IN
           /\ InStep(t) /\ mNextJob + 1 \in 1..mNumJobs /\ a \in Actors
           /\ runner' \in [Threads \cup {Main} -> RunnerType]
           /\ \A u \in (Threads \cup {Main}) \ {t} : runner'[u] = runner[u]
           /\ runner'[t].lastFrame = runner[t].lastFrame
           /\ IF IsAlive(a)
              THEN /\ runner'[t].pc = "move" /\ runner'[t].job = mNextJob + 1
                   /\ runner'[t].held = a
              ELSE runner' = runner
<1> DEFINE a == movements[mSimulations][mNextJob + 1].actor
<1>1. InStep(t) /\ mNextJob + 1 \in 1..mNumJobs
  BY DEF FetchJob, InStep, IsAt, PhaseInv, ControlInv
<1>2. a \in Actors
  BY <1>1, JobFacts
<1>3. /\ runner \in [Threads \cup {Main} -> RunnerType] /\ mNextJob + 1 \in Nat
      /\ "move" \in RunnerPcs
  BY <1>1 DEF PhaseInv, ControlInv, RunnerPcs, SimulationPcs
<1>4. CASE IsAlive(a)
  <2>1. runner' = [runner EXCEPT ![t].pc = "move", ![t].job = mNextJob + 1, ![t].held = a]
    BY <1>4 DEF FetchJob
  <2> HIDE DEF a
  <2>2. /\ runner' \in [Threads \cup {Main} -> RunnerType]
        /\ \A u \in (Threads \cup {Main}) \ {t} : runner'[u] = runner[u]
        /\ runner'[t].lastFrame = runner[t].lastFrame
        /\ runner'[t].pc = "move" /\ runner'[t].job = mNextJob + 1
        /\ runner'[t].held = a
    BY <1>2, <1>3, <2>1 DEF RunnerType
  <2> QED BY <1>1, <1>2, <1>4, <2>2 DEF a
<1>5. CASE ~IsAlive(a)
  <2>1. runner' = runner
    BY <1>5 DEF FetchJob
  <2> QED BY <1>1, <1>2, <1>3, <1>5, <2>1
<1> QED BY <1>4, <1>5

(* Waking up and leaving the loop.                                         *)
LEMMA LoopFacts ==
    ASSUME ControlInv, NEW t \in Threads \cup {Main}, RunWorker(t) \/ Wake(t)
    PROVE  /\ runner' \in [Threads \cup {Main} -> RunnerType]
           /\ \A u \in (Threads \cup {Main}) \ {t} : runner'[u] = runner[u]
           /\ RunWorker(t) => /\ runner'[t].pc = IF mShouldStop THEN "exited" ELSE "asleep"
                              /\ runner'[t].lastFrame = runner[t].lastFrame
           /\ Wake(t) => runner'[t].pc = "enter" /\ runner'[t].lastFrame = mFrameCounter
           /\ runner'[t].seen = runner[t].seen /\ runner'[t].job = runner[t].job
           /\ runner'[t].held = runner[t].held
<1>1. CASE RunWorker(t)
  <2>1. ~Wake(t)
    BY <1>1 DEF RunWorker, Wake, IsAt
  <2> QED BY <1>1, <2>1 DEF RunWorker, ControlInv, RunnerType, RunnerPcs
<1>2. CASE Wake(t)
  <2>1. ~RunWorker(t)
    BY <1>2 DEF RunWorker, Wake, IsAt
  <2> QED BY <1>2, <2>1 DEF Wake, ControlInv, RunnerType, RunnerPcs
<1> QED BY <1>1, <1>2

(* The steps of a runner, by what they do to the barriers.                 *)
AwayStep(t) ==
    RunWorker(t) \/ Wake(t) \/ Enter(t) \/ FetchJob(t) \/ Move(t) \/ Drop(t) \/ DestroyActor(t)

RunnerMoves(t) == AwayStep(t) \/ BeginStep(t) \/ EndFrame(t) \/ Pass(t) \/ EndStep(t)

(* The end of the program changes nothing else.                            *)
stateVars == <<threads, mFrameCounter, mWorkersFrameCounter, mShouldStop, overtaken,
               workVars, actorVars, main, runner>>

LEMMA StepKinds ==
    ASSUME [Next]_vars
    PROVE  \/ Game \/ MainStep \/ UNCHANGED stateVars
           \/ \E t \in Threads \cup {Main} : RunnerMoves(t)
BY DEF Next, RunnerStep, RunnerMoves, AwayStep, Crash, stateVars, vars, syncVars

(* What leaves the runners, the barriers and the counters alone.           *)
syncAndRunners == <<threads, barrier, mFrameCounter, mWorkersFrameCounter, mShouldStop, runner>>

LEMMA GameFacts ==
    ASSUME Game
    PROVE  /\ UNCHANGED <<syncAndRunners, stepVars, mSimulations, overtaken>>
           /\ main.pc = "idle"
           /\ \/ main' = main /\ UNCHANGED <<movements, mSimulationsCounter>>
              \/ /\ StepSimulation /\ main' = [pc |-> "wait", call |-> "apply"]
                 /\ mSimulationsCounter' = (mSimulationsCounter + 1) % 2
              \/ /\ main' = [pc |-> "wait", call |-> "reset"] \/ main' = [pc |-> "wait", call |-> "release"]
                 /\ UNCHANGED <<movements, mSimulationsCounter>>
BY DEF Game, Teleport, MoveObjectBy, RemoveActor, StepSimulation, Destroy, syncAndRunners,
       syncVars, workVars, actorVars, stepVars, bufferVars

(* prepareWork as far as the runners are concerned.                        *)
LEMMA PrepareFacts ==
    ASSUME PrepareWork
    PROVE  /\ main.pc = "lock" /\ main.call = "apply" /\ HoldSimulation = {}
           /\ mSimulations' = NextBuffer /\ mNumJobs' = Len(movements[NextBuffer])
           /\ mNextJob' = 0 /\ mRemainingSteps' \in 0..MaxSteps
           /\ TakeLock("apply")
           /\ UNCHANGED <<threads, mFrameCounter, mWorkersFrameCounter, mShouldStop>>
           /\ UNCHANGED <<barrier, mSimulationsCounter, bodyVars, teleports>>
           /\ IF threads # {} THEN main' = [main EXCEPT !.pc = "wake"] /\ runner' = runner
              ELSE main' = [main EXCEPT !.pc = "simulate"] /\ Goto(Main, "steps")
BY DEF PrepareWork, MainGoto, TakeLock

LEMMA ControlStep ==
    ASSUME PhaseInv, DataInv, BufferInv, [Next]_vars
    PROVE  ControlInv'
<1> USE DEF PhaseInv
<1>1. CASE Game
  <2>1. /\ UNCHANGED <<threads, barrier, mFrameCounter, mWorkersFrameCounter, mShouldStop, runner>>
        /\ UNCHANGED <<mRemainingSteps, mNumJobs, mNextJob, mSimulations>>
        /\ main' \in {main} \cup [pc : {"wait"}, call : {"apply", "reset", "release"}]
        /\ mSimulationsCounter' \in {mSimulationsCounter, (mSimulationsCounter + 1) % 2}
    BY <1>1, GameFacts DEF syncAndRunners, stepVars
  <2>2. mSimulationsCounter' \in 0..1
    BY <2>1 DEF ControlInv
  <2>3. main' \in [pc : MainPcs, call : Calls]
    BY <2>1 DEF ControlInv, MainPcs, Calls
  <2> QED BY <2>1, <2>2, <2>3 DEF ControlInv
<1>2. CASE MainStep
  <2> USE DEF syncVars, workVars, stepVars, bufferVars, MainGoto, ControlInv, MainPcs, Calls
  <2>1. CASE WaitForWorkers \/ WakeSpuriously \/ MoveActors \/ Join \/ ClearActors
    BY <2>1 DEF WaitForWorkers, WakeSpuriously, MoveActors, Join, ClearActors
  <2>2. CASE PrepareWork
    <3>1. /\ mSimulations' \in 1..2 /\ mSimulations' \in 0..2 /\ mNumJobs' = Len(movements[mSimulations'])
          /\ mRemainingSteps' \in Nat /\ mNextJob' = 0
          /\ UNCHANGED <<threads, mFrameCounter, mWorkersFrameCounter, mShouldStop>>
          /\ UNCHANGED <<barrier, mSimulationsCounter>>
          /\ main' \in [pc : MainPcs, call : Calls]
          /\ runner' = runner \/ Goto(Main, "steps")
      BY <2>2, PrepareFacts, PhysicsAssumption DEF NextBuffer
    <3>2. mNumJobs' \in Nat
      BY <3>1 DEF DataInv
    <3>3. runner' \in [Threads \cup {Main} -> RunnerType]
      BY <3>1, GotoFacts DEF RunnerPcs, SimulationPcs
    <3> QED BY <3>1, <3>2, <3>3
  <2>3. CASE SyncInline \/ ResetSimulation \/ ReleaseSharedStates
    BY <2>3 DEF SyncInline, ResetSimulation, ReleaseSharedStates, MovementsCleared, TakeLock
  <2>4. CASE WakeUpWorkers
    BY <2>4 DEF WakeUpWorkers
  <2>5. CASE ZeroWork
    BY <2>5 DEF ZeroWork, TakeLock
  <2>6. CASE StopWorkers
    BY <2>6 DEF StopWorkers
  <2> QED BY <1>2, <2>1, <2>2, <2>3, <2>4, <2>5, <2>6 DEF MainStep
<1>3. ASSUME NEW t \in Threads \cup {Main}, RunnerMoves(t) PROVE ControlInv'
  <2> USE DEF syncVars, workVars, stepVars, bufferVars
  <2>1. CASE RunWorker(t) \/ Wake(t)
    BY <2>1, LoopFacts DEF ControlInv, RunWorker, Wake
  <2>2. CASE Enter(t)
    BY <2>2, GotoFacts DEF ControlInv, Enter, RunnerPcs, SimulationPcs
  <2>3. CASE BeginStep(t)
    BY <2>3, ArriveFacts DEF ControlInv, BeginStep, Barriers
  <2>4. CASE EndFrame(t)
    <3>1. Arrive(t, "PostSim") /\ UNCHANGED <<threads, mFrameCounter, mShouldStop, stepVars, bufferVars>>
          /\ mWorkersFrameCounter' \in {mWorkersFrameCounter, mWorkersFrameCounter + 1}
          /\ main' \in {main, [main EXCEPT !.pc = "lock"]}
      BY <2>4 DEF EndFrame
    <3> QED BY <3>1, ArriveFacts DEF ControlInv, Barriers, MainPcs
  <2>5. CASE Pass(t)
    BY <2>5, PassFacts DEF ControlInv, Pass
  <2>6. CASE FetchJob(t)
    <3>1. t \in Runners
      BY <2>6 DEF FetchJob, Inside
    <3>2. /\ UNCHANGED <<syncVars, barrier, bufferVars, mRemainingSteps, mNumJobs, main>>
          /\ mNextJob' = mNextJob + 1
      BY <2>6 DEF FetchJob
    <3>3. runner' \in [Threads \cup {Main} -> RunnerType]
      BY <2>6, <3>1, FetchFacts
    <3> QED BY <3>2, <3>3 DEF ControlInv
  <2>7. CASE Move(t)
    BY <2>7, GotoFacts DEF ControlInv, Move, RunnerPcs, SimulationPcs
  <2>8. CASE Drop(t)
    BY <2>8, GotoFacts, DroppedFacts DEF ControlInv, Drop, RunnerPcs, SimulationPcs
  <2>9. CASE DestroyActor(t)
    BY <2>9, DroppedFacts DEF ControlInv, DestroyActor
  <2>10. CASE EndStep(t)
    <3>1. /\ Arrive(t, "PostStep") /\ InStep(t) /\ t \in Runners
          /\ mRemainingSteps' \in {mRemainingSteps, mRemainingSteps - 1}
          /\ mNextJob' \in {0, mNextJob + 1}
          /\ UNCHANGED <<syncVars, mNumJobs, mSimulations, mSimulationsCounter, main>>
      BY <2>10 DEF EndStep, StartOver, Inside, InStep, IsAt
    <3>2. mRemainingSteps > 0
      BY <3>1, InStepFacts
    <3> QED BY <3>1, <3>2, ArriveFacts DEF ControlInv, Barriers
  <2> QED BY <1>3, <2>1, <2>2, <2>3, <2>4, <2>5, <2>6, <2>7, <2>8, <2>9, <2>10 DEF RunnerMoves, AwayStep
<1>4. CASE UNCHANGED stateVars
  BY <1>4 DEF stateVars, workVars, stepVars, bufferVars, ControlInv
<1> QED BY <1>1, <1>2, <1>3, <1>4, StepKinds

-----------------------------------------------------------------------------
(* Barriers                                                                *)

(* Who has not come is missing from the count.                             *)
LEMMA LastArrival ==
    ASSUME ControlInv, BarrierInv, NEW b \in Barriers, NEW t \in threads, ~IsAt(t, b)
    PROVE  IsLast(b) <=> \A u \in threads \ {t} : u \in Waiting(b)
<1> DEFINE W == Waiting(b)
<1>1. W \in SUBSET threads /\ t \notin W /\ IsFiniteSet(threads) /\ mNumThreads \in Nat /\ mNumThreads # 0
  BY ThreadFacts DEF Waiting
<1>2. IsFiniteSet(W) /\ W \cup {t} \in SUBSET threads
  BY <1>1, FS_Subset
<1>3. Cardinality(W \cup {t}) = Cardinality(W) + 1 /\ Cardinality(W) \in Nat
  BY <1>1, <1>2, FS_AddElement, FS_CardinalityType
<1>4. IsLast(b) <=> Cardinality(W \cup {t}) = Cardinality(threads)
  BY <1>1, <1>3 DEF IsLast, BarrierInv, mNumThreads
<1>5. Cardinality(W \cup {t}) = Cardinality(threads) <=> W \cup {t} = threads
  BY <1>1, <1>2, FS_Subset
<1> QED BY <1>1, <1>4, <1>5

(* A runner that comes to a barrier as the last one releases the others;   *)
(* nothing changes for who is at another barrier.                          *)
LEMMA Arrival ==
    ASSUME ControlInv, BarrierInv, UNCHANGED threads,
           NEW t \in Runners, NEW b \in Barriers, runner[t].pc \notin Barriers, Arrive(t, b)
    PROVE  /\ BarrierInv'
           /\ \A u \in Runners \ {t} : runner'[u] = runner[u]
           /\ \A u \in Runners \ {t}, c \in Barriers : c # b \/ ~IsLast(b) =>
                (Released(u, c)' <=> Released(u, c))
           /\ IsLast(b) => /\ runner'[t].pc = After(b)
                           /\ \A u \in Runners \ {t} : IsAt(u, b) /\ ~Released(u, b) /\ Released(u, b)'
           /\ ~IsLast(b) => /\ threads # {} /\ runner'[t].pc = b /\ ~Released(t, b)'
                            /\ \E u \in Runners \ {t} : ~IsAt(u, b) \/ Released(u, b)
<1> USE DEF IsAt
<1>1. /\ t \in Threads \cup {Main} /\ Runners \subseteq Threads \cup {Main}
      /\ threads \subseteq Runners /\ threads \subseteq Threads
      /\ mNumThreads \in Nat /\ (mNumThreads = 0 <=> threads = {})
      /\ threads # {} => t \in threads
      /\ threads = {} => Runners = {t}
      /\ threads # {} => Runners = threads
  BY ThreadFacts DEF Runners
<1>2. /\ runner' \in [Threads \cup {Main} -> RunnerType]
      /\ barrier' \in [Barriers -> [count : Nat, generation : Nat]]
      /\ \A u \in (Threads \cup {Main}) \ {t} : runner'[u] = runner[u]
      /\ runner'[t].pc = IF IsLast(b) THEN After(b) ELSE b
      /\ ~IsLast(b) => runner'[t].seen = barrier[b].generation
      /\ \A c \in Barriers \ {b} : barrier'[c] = barrier[c]
      /\ barrier'[b].count = IF IsLast(b) THEN 0 ELSE barrier[b].count + 1
      /\ barrier'[b].generation = IF IsLast(b) THEN barrier[b].generation + 1
                                  ELSE barrier[b].generation
  BY <1>1, ArriveFacts
<1>3. /\ barrier[b].generation \in Nat /\ barrier[b].count \in Nat
      /\ \A u \in Runners : runner[u].seen \in Nat
  BY <1>1 DEF ControlInv, RunnerType
<1>4. After(b) \notin Barriers
  BY DEF After, Barriers
<1>5. IsLast(b) => \A u \in threads \ {t} : u \in Waiting(b)
  BY <1>1, LastArrival
<1>6. ~IsLast(b) => threads # {} /\ \E u \in threads \ {t} : u \notin Waiting(b)
  BY <1>1, LastArrival DEF IsLast
<1>7. \A u \in Runners \ {t} : runner'[u] = runner[u]
  BY <1>1, <1>2
<1>8. ASSUME NEW u \in Runners \ {t}, NEW c \in Barriers, c # b \/ ~IsLast(b)
      PROVE  Released(u, c)' <=> Released(u, c)
  BY <1>2, <1>7, <1>8 DEF Released
<1>9. ASSUME IsLast(b), NEW u \in Runners \ {t}
      PROVE  IsAt(u, b) /\ ~Released(u, b) /\ Released(u, b)'
  <2>1. u \in threads /\ u \in Waiting(b)
    BY <1>1, <1>5, <1>9
  <2> QED BY <1>2, <1>3, <1>7, <1>9, <2>1 DEF Released, Waiting
<1>10. ASSUME ~IsLast(b)
       PROVE  /\ threads # {} /\ runner'[t].pc = b /\ ~Released(t, b)'
              /\ \E u \in Runners \ {t} : ~IsAt(u, b) \/ Released(u, b)
  <2>1. PICK u \in threads \ {t} : u \notin Waiting(b)
    BY <1>6, <1>10
  <2> QED BY <1>1, <1>2, <1>6, <1>10, <2>1 DEF Released, Waiting
<1>11. ASSUME NEW c \in Barriers
       PROVE  /\ barrier'[c].count = Cardinality(Waiting(c)')
              /\ threads' # {} => barrier'[c].count < mNumThreads'
              /\ \A u \in threads' : IsAt(u, c)' => runner'[u].seen <= barrier'[c].generation
  <2>1. mNumThreads' = mNumThreads
    BY DEF mNumThreads
  <2>2. CASE c # b
    <3>1. Waiting(c)' = Waiting(c)
      BY <1>1, <1>2, <1>4, <1>7, <2>2 DEF Waiting
    <3> QED BY <1>1, <1>2, <1>4, <1>7, <2>1, <2>2, <3>1 DEF BarrierInv
  <2>3. CASE c = b /\ IsLast(b)
    <3>1. Waiting(b)' = {}
      <4>1. ASSUME NEW u \in Waiting(b)' PROVE FALSE
        <5>1. u \in threads /\ runner'[u].pc = b /\ runner'[u].seen = barrier[b].generation + 1
          BY <1>2, <2>3 DEF Waiting
        <5>2. u # t
          BY <1>2, <1>4, <2>3, <5>1
        <5> QED BY <1>1, <1>3, <1>5, <1>7, <2>3, <5>1, <5>2 DEF Waiting
      <4> QED BY <4>1
    <3>2. \A u \in threads : IsAt(u, b)' => runner'[u].seen <= barrier'[b].generation
      BY <1>1, <1>2, <1>3, <1>4, <1>7, <2>3 DEF BarrierInv
    <3> QED BY <1>1, <1>2, <2>1, <2>3, <3>1, <3>2, FS_EmptySet
  <2>4. CASE c = b /\ ~IsLast(b)
    <3>1. t \in threads
      BY <1>1, <1>6, <2>4
    <3>2. Waiting(b)' = Waiting(b) \cup {t}
      BY <1>1, <1>2, <1>7, <2>4, <3>1 DEF Waiting
    <3>3. t \notin Waiting(b) /\ IsFiniteSet(Waiting(b))
      BY ThreadFacts, FS_Subset DEF Waiting
    <3>4. Cardinality(Waiting(b)') = barrier[b].count + 1
      BY <3>2, <3>3, FS_AddElement DEF BarrierInv
    <3>5. barrier[b].count + 1 < mNumThreads
      BY <1>1, <1>3, <2>4, <3>1 DEF BarrierInv, IsLast
    <3>6. \A u \in threads : IsAt(u, b)' => runner'[u].seen <= barrier'[b].generation
      BY <1>1, <1>2, <1>3, <1>7, <2>4 DEF BarrierInv
    <3> QED BY <1>2, <2>1, <2>4, <3>4, <3>5, <3>6
  <2> QED BY <2>2, <2>3, <2>4
<1>12. BarrierInv'
  BY <1>11 DEF BarrierInv
<1> QED BY <1>2, <1>7, <1>8, <1>9, <1>10, <1>12

(* What a runner does away from the barriers, and leaving one, does not    *)
(* change who waits.                                                       *)
LEMMA AwayFromBarriers ==
    ASSUME ControlInv, BarrierInv, UNCHANGED <<threads, barrier>>,
           NEW t \in Threads \cup {Main},
           \A u \in (Threads \cup {Main}) \ {t} : runner'[u] = runner[u],
           \A b \in Barriers : IsAt(t, b) => Released(t, b),
           runner'[t].pc \notin Barriers
    PROVE  BarrierInv'
<1>1. threads \subseteq Threads
  BY ThreadFacts
<1>2. ASSUME NEW b \in Barriers
      PROVE  /\ Waiting(b)' = Waiting(b)
             /\ \A u \in threads : IsAt(u, b)' => IsAt(u, b) /\ runner'[u] = runner[u]
  BY <1>1, <1>2 DEF Waiting, IsAt, Released
<1>3. mNumThreads' = mNumThreads
  BY DEF mNumThreads
<1> QED BY <1>1, <1>2, <1>3 DEF BarrierInv

LEMMA StillBarriers ==
    ASSUME BarrierInv, UNCHANGED <<threads, barrier, runner>>
    PROVE  BarrierInv'
<1>1. \A b \in Barriers : Waiting(b)' = Waiting(b)
  BY DEF Waiting, IsAt
<1> QED BY <1>1 DEF BarrierInv, mNumThreads, IsAt

(* What the main thread does to the runners and the barriers: it starts    *)
(* itself when there are no threads.                                       *)
LEMMA MainFacts ==
    ASSUME ControlInv, Game \/ MainStep \/ UNCHANGED stateVars
    PROVE  /\ UNCHANGED <<threads, barrier>>
           /\ \/ runner' = runner
              \/ PrepareWork /\ threads = {} /\ Goto(Main, "steps")
BY GameFacts, PrepareFacts DEF MainStep, syncAndRunners, WaitForWorkers, WakeSpuriously, SyncInline,
   WakeUpWorkers, MoveActors, ResetSimulation, ReleaseSharedStates, ClearActors, ZeroWork, StopWorkers,
   Join, TakeLock, stateVars, syncVars, workVars

LEMMA AwayFacts ==
    ASSUME PhaseInv, DataInv, BufferInv, NEW t \in Threads \cup {Main}, AwayStep(t)
    PROVE  /\ t \in Runners /\ UNCHANGED <<threads, barrier, mFrameCounter, mWorkersFrameCounter, mShouldStop, overtaken,
                              mRemainingSteps, mNumJobs, mSimulations, mSimulationsCounter, movements, main>>
           /\ runner[t].pc \notin Barriers /\ runner'[t].pc \notin Barriers
           /\ \A u \in (Threads \cup {Main}) \ {t} : runner'[u] = runner[u]
           /\ (InStep(t)' <=> InStep(t)) /\ (~InStep(t) => UNCHANGED <<mNextJob, moved>>)
           /\ ~InStep(t) => runner'[t].pc \in {"exited", "asleep", "enter", "steps"}
           /\ InStep(t) => runner'[t].pc \in {"jobs", "move", "drop", "destroy"}
           /\ ~mShouldStop => runner'[t].pc # "exited"
           /\ Wake(t) => IsOut(t) /\ ~IsOut(t)' /\ runner'[t].lastFrame = mFrameCounter
           /\ ~Wake(t) => /\ ~mShouldStop => (IsOut(t)' <=> IsOut(t))
                          /\ runner'[t].lastFrame = runner[t].lastFrame
<1> USE DEF IsAt, InStep, Barriers, IsOut, Released, syncVars, workVars, stepVars, bufferVars
<1>1. t \in Runners
  BY DEF AwayStep, RunWorker, Wake, Enter, FetchJob, Move, Drop, DestroyActor, Runners, Inside
<1>2. CASE RunWorker(t) \/ Wake(t)
  BY <1>1, <1>2, LoopFacts DEF RunWorker, Wake, PhaseInv
<1>3. CASE Enter(t)
  BY <1>1, <1>3, GotoFacts DEF Enter, PhaseInv, RunnerPcs, SimulationPcs, Wake
<1>4. CASE FetchJob(t)
  <2>1. /\ UNCHANGED <<syncVars, barrier, bufferVars, mRemainingSteps, mNumJobs, main>>
        /\ runner[t].pc = "jobs"
    BY <1>4 DEF FetchJob
  <2>2. /\ \A u \in (Threads \cup {Main}) \ {t} : runner'[u] = runner[u]
        /\ runner'[t].pc \in {"move", "jobs"} /\ runner'[t].lastFrame = runner[t].lastFrame
    BY <1>1, <1>4, <2>1, FetchFacts
  <2>3. ~Wake(t)
    BY <2>1 DEF Wake
  <2> QED BY <1>1, <2>1, <2>2, <2>3
<1>5. CASE Move(t)
  BY <1>1, <1>5, GotoFacts DEF Move, PhaseInv, RunnerPcs, SimulationPcs, Wake
<1>6. CASE Drop(t) \/ DestroyActor(t)
  BY <1>1, <1>6, GotoFacts, DroppedFacts DEF Drop, DestroyActor, PhaseInv, RunnerPcs, SimulationPcs, Wake
<1> QED BY <1>2, <1>3, <1>4, <1>5, <1>6 DEF AwayStep

(* The arrivals, with the callback that the last one runs.                 *)
LEMMA ArrivalKinds ==
    ASSUME ControlInv, NEW t \in Threads \cup {Main}, BeginStep(t) \/ EndFrame(t) \/ EndStep(t)
    PROVE  /\ t \in Runners /\ runner[t].pc \notin Barriers /\ UNCHANGED threads
           /\ BeginStep(t) => IsAt(t, "steps") /\ Arrive(t, "PreStep") /\ mRemainingSteps > 0
           /\ EndFrame(t) => IsAt(t, "steps") /\ Arrive(t, "PostSim") /\ mRemainingSteps = 0
           /\ EndStep(t) => IsAt(t, "jobs") /\ Arrive(t, "PostStep") /\ mNextJob >= mNumJobs
BY DEF BeginStep, EndFrame, EndStep, Inside, IsAt, Barriers, syncVars

LEMMA BarrierStep ==
    ASSUME PhaseInv, DataInv, BufferInv, [Next]_vars
    PROVE  BarrierInv'
<1> USE DEF PhaseInv
<1>1. CASE Game \/ MainStep \/ UNCHANGED stateVars
  <2>1. CASE UNCHANGED <<threads, barrier, runner>>
    BY <2>1, StillBarriers
  <2>2. CASE UNCHANGED <<threads, barrier>> /\ PrepareWork /\ threads = {} /\ Goto(Main, "steps")
    <3>1. /\ \A u \in (Threads \cup {Main}) \ {Main} : runner'[u] = runner[u]
          /\ runner'[Main].pc = "steps" /\ runner[Main].pc = "idle"
      BY <2>2, GotoFacts, PrepareFacts DEF RunnerPcs, SimulationPcs, InlineInv, IsAt
    <3> QED BY <2>2, <3>1, AwayFromBarriers DEF IsAt, Barriers
  <2> QED BY <1>1, <2>1, <2>2, MainFacts
<1>2. ASSUME NEW t \in Threads \cup {Main}, RunnerMoves(t) PROVE BarrierInv'
  <2>1. CASE AwayStep(t)
    BY <2>1, AwayFacts, AwayFromBarriers DEF IsAt
  <2>2. CASE BeginStep(t) \/ EndFrame(t) \/ EndStep(t)
    BY <2>2, ArrivalKinds, Arrival DEF Barriers
  <2>3. CASE Pass(t)
    <3>1. UNCHANGED <<threads, barrier>> /\ Released(t, runner[t].pc)
      BY <2>3 DEF Pass, Released, IsAt, syncVars, workVars
    <3>2. runner'[t].pc \notin Barriers
      BY <2>3, PassFacts DEF After, Barriers
    <3> QED BY <2>3, <3>1, <3>2, PassFacts, AwayFromBarriers DEF IsAt
  <2> QED BY <1>2, <2>1, <2>2, <2>3 DEF RunnerMoves
<1> QED BY <1>1, <1>2, StepKinds

-----------------------------------------------------------------------------
(* Phases                                                                  *)

(* How the arrivals move the runners from phase to phase.                  *)
LEMMA ArrivalPhases ==
    ASSUME PhaseInv, NEW t \in Threads \cup {Main}, BeginStep(t) \/ EndFrame(t) \/ EndStep(t)
    PROVE  /\ \A u \in Threads \cup {Main} : runner'[u].lastFrame = runner[u].lastFrame
           /\ \A u \in Runners \ {t} : runner'[u] = runner[u]
           /\ runner'[t].pc \in {"PreStep", "PostStep", "PostSim", "jobs", "steps", "idle"}
           /\ BeginStep(t) => /\ ~InStep(t) /\ \A u \in Runners : IsOut(u)' <=> IsOut(u)
                              /\ runner'[t].pc \in {"PreStep", "jobs"}
                              /\ IF IsLast("PreStep") THEN \A u \in Runners : InStep(u)'
                                 ELSE \A u \in Runners : InStep(u)' <=> InStep(u)
           /\ EndFrame(t) => /\ ~InStep(t) /\ ~IsOut(t) /\ \A u \in Runners : InStep(u)' <=> InStep(u)
                             /\ runner'[t].pc \in {"PostSim", "idle"}
                             /\ IF IsLast("PostSim") THEN \A u \in Runners : IsOut(u)' /\ ~IsOut(u)
                                ELSE \A u \in Runners : IsOut(u)' <=> IsOut(u)
           /\ EndStep(t) => /\ InStep(t) /\ \A u \in Runners : IsOut(u)' <=> IsOut(u)
                            /\ IF IsLast("PostStep") THEN \A u \in Runners : ~InStep(u)' /\ ~IsAt(u, "move")
                               ELSE \A u \in Runners : InStep(u)' <=> InStep(u)
           /\ threads = {} => runner'[t].pc \in {"jobs", "steps", "idle"}
<1>1. PICK b \in Barriers :
      /\ t \in Runners /\ Arrive(t, b) /\ runner[t].pc \notin Barriers
      /\ UNCHANGED threads
      /\ BeginStep(t) => IsAt(t, "steps") /\ b = "PreStep"
      /\ EndFrame(t) => IsAt(t, "steps") /\ b = "PostSim"
      /\ EndStep(t) => IsAt(t, "jobs") /\ b = "PostStep"
  BY ArrivalKinds DEF PhaseInv, Barriers, IsAt
<1>2. /\ \A u \in Runners \ {t} : runner'[u] = runner[u]
      /\ \A u \in Runners \ {t}, c \in Barriers : c # b \/ ~IsLast(b) =>
           (Released(u, c)' <=> Released(u, c))
      /\ IsLast(b) => /\ runner'[t].pc = After(b)
                      /\ \A u \in Runners \ {t} : IsAt(u, b) /\ ~Released(u, b) /\ Released(u, b)'
      /\ ~IsLast(b) => threads # {} /\ runner'[t].pc = b /\ ~Released(t, b)'
  BY <1>1, Arrival DEF PhaseInv
<1>3. \A u \in Threads \cup {Main} : runner'[u].lastFrame = runner[u].lastFrame
  BY <1>1, ArriveFacts DEF PhaseInv
<1>4. \A u \in Runners : IsAt(u, "PreStep")' <=> runner'[u].pc = "PreStep"
  BY DEF IsAt
<1> USE DEF IsAt, Released, Barriers, After
<1>5. CASE BeginStep(t)
  <2>1. ~EndFrame(t) /\ ~EndStep(t)
    BY <1>1, <1>5 DEF BeginStep, EndFrame
  <2>2. ~InStep(t) /\ ~IsOut(t) /\ ~IsOut(t)'
    BY <1>1, <1>2, <1>5 DEF InStep, IsOut
  <2>3. \A u \in Runners \ {t} : IsOut(u)' <=> IsOut(u)
    BY <1>1, <1>2, <1>5 DEF IsOut
  <2>4. IsLast("PreStep") => \A u \in Runners : InStep(u)'
    BY <1>1, <1>2, <1>5 DEF InStep
  <2>5. ~IsLast("PreStep") => ~InStep(t)' /\ \A u \in Runners \ {t} : InStep(u)' <=> InStep(u)
    BY <1>1, <1>2, <1>5 DEF InStep
  <2> QED BY <1>1, <1>2, <1>3, <1>5, <2>1, <2>2, <2>3, <2>4, <2>5
<1>6. CASE EndFrame(t)
  <2>1. ~BeginStep(t) /\ ~EndStep(t)
    BY <1>1, <1>6 DEF BeginStep, EndFrame
  <2>2. ~InStep(t) /\ ~InStep(t)' /\ ~IsOut(t)
    BY <1>1, <1>2, <1>6 DEF InStep, IsOut
  <2>3. \A u \in Runners \ {t} : InStep(u)' <=> InStep(u)
    BY <1>1, <1>2, <1>6 DEF InStep
  <2>4. IsLast("PostSim") => \A u \in Runners : IsOut(u)' /\ ~IsOut(u)
    BY <1>1, <1>2, <1>6 DEF IsOut
  <2>5. ~IsLast("PostSim") => ~IsOut(t)' /\ \A u \in Runners \ {t} : IsOut(u)' <=> IsOut(u)
    BY <1>1, <1>2, <1>6 DEF IsOut
  <2> QED BY <1>1, <1>2, <1>3, <1>6, <2>1, <2>2, <2>3, <2>4, <2>5
<1>7. CASE EndStep(t)
  <2>1. ~BeginStep(t) /\ ~EndFrame(t)
    BY <1>1, <1>7
  <2>2. InStep(t) /\ ~IsOut(t) /\ ~IsOut(t)' /\ ~IsAt(t, "move")
    BY <1>1, <1>2, <1>7 DEF InStep, IsOut
  <2>3. \A u \in Runners \ {t} : IsOut(u)' <=> IsOut(u)
    BY <1>1, <1>2, <1>7 DEF IsOut
  <2>4. IsLast("PostStep") => \A u \in Runners : ~InStep(u)' /\ ~IsAt(u, "move")
    BY <1>1, <1>2, <1>7, <2>2 DEF InStep
  <2>5. ~IsLast("PostStep") => InStep(t)' /\ \A u \in Runners \ {t} : InStep(u)' <=> InStep(u)
    BY <1>1, <1>2, <1>7 DEF InStep
  <2> QED BY <1>1, <1>2, <1>3, <1>7, <2>1, <2>2, <2>3, <2>4, <2>5
<1> QED BY <1>5, <1>6, <1>7

LEMMA PassPhases ==
    ASSUME PhaseInv, NEW t \in Threads \cup {Main}, Pass(t)
    PROVE  /\ t \in threads
           /\ \A u \in Threads \cup {Main} : runner'[u].lastFrame = runner[u].lastFrame
           /\ \A u \in (Threads \cup {Main}) \ {t} : runner'[u] = runner[u]
           /\ runner'[t].pc \in {"jobs", "steps", "idle"}
           /\ runner'[t].pc = "jobs" => InStep(t)
           /\ \A u \in Threads \cup {Main} : (IsOut(u)' <=> IsOut(u)) /\ (InStep(u)' <=> InStep(u))
<1>1. /\ runner[t].pc \in Barriers /\ Released(t, runner[t].pc) /\ t \in Runners
      /\ barrier' = barrier /\ runner'[t].pc = After(runner[t].pc)
      /\ \A u \in (Threads \cup {Main}) \ {t} : runner'[u] = runner[u]
      /\ runner'[t].lastFrame = runner[t].lastFrame
  BY PassFacts DEF PhaseInv, Pass, Inside, Released, IsAt, workVars
<1>2. t \in threads
  BY <1>1, ThreadFacts DEF PhaseInv, InlineInv, Barriers, IsAt
<1> USE DEF IsAt, IsOut, InStep, Released
<1>3. \A u \in (Threads \cup {Main}) \ {t} : (IsOut(u)' <=> IsOut(u)) /\ (InStep(u)' <=> InStep(u))
  BY <1>1
<1>4. (IsOut(t)' <=> IsOut(t)) /\ (InStep(t)' <=> InStep(t)) /\ (runner'[t].pc = "jobs" => InStep(t))
      /\ runner'[t].pc \in {"jobs", "steps", "idle"}
  BY <1>1 DEF Barriers, After
<1> QED BY <1>1, <1>2, <1>3, <1>4

LEMMA StillPhases ==
    ASSUME UNCHANGED <<threads, barrier, runner>>
    PROVE  /\ \A u \in Threads \cup {Main} : (IsOut(u)' <=> IsOut(u)) /\ (InStep(u)' <=> InStep(u))
           /\ Runners' = Runners
BY DEF IsOut, InStep, Released, IsAt, Runners

(* The main thread alone: which of its places leads to which, and what it  *)
(* does to the frame.                                                      *)
LockMoves ==
    /\ main'.call = main.call /\ mSimulations' = 0
    /\ \/ TakeLock("reset") /\ main'.pc = "move"
       \/ TakeLock("release") /\ main'.pc = "clear"

MainMoves ==
    /\ UNCHANGED <<mFrameCounter, mWorkersFrameCounter, mShouldStop, mRemainingSteps, mNextJob, runner>>
    /\ \/ LockMoves
       \/ /\ overtaken' = overtaken
          /\ \/ UNCHANGED <<main, mSimulations>>
             \/ /\ main.pc = "idle" /\ mSimulations' = mSimulations
                /\ main'.pc = "wait" /\ main'.call \in {"apply", "reset", "release"}
             \/ /\ main.pc = "wait" /\ main'.call = main.call /\ mSimulations' = mSimulations
                /\ main'.pc = IF threads = {} \/ FrameIsDone THEN "lock" ELSE "asleep"
             \/ /\ main.pc = "asleep" /\ main'.pc = "lock" /\ main'.call = main.call
                /\ mSimulations' = mSimulations
             \/ /\ main.pc = "move" /\ main'.pc = "idle" /\ main'.call = main.call
                /\ mSimulations' = mSimulations
             \/ /\ main.pc = "join" /\ main'.pc = "done" /\ main'.call = main.call
                /\ mSimulations' = mSimulations
             \/ /\ main.pc = "simulate" /\ IsAt(Main, "idle") /\ main'.call = main.call
                /\ main'.pc = "move" /\ mSimulations' = 0
             \/ /\ main.pc = "clear" /\ mSimulations' = mSimulations
                /\ main'.pc = "wait" /\ main'.call = "destroy"

LEMMA MainKinds ==
    ASSUME PhaseInv, Game \/ MainStep \/ UNCHANGED stateVars
    PROVE  MainMoves \/ WakeUpWorkers \/ StopWorkers \/ ZeroWork \/ PrepareWork
<1> USE DEF MainMoves, PhaseInv, ControlInv, syncVars, workVars, stepVars, bufferVars, MainGoto
<1>1. CASE Game
  BY <1>1, GameFacts DEF syncAndRunners
<1>2. CASE UNCHANGED stateVars
  BY <1>2 DEF stateVars
<1>3. CASE MainStep
  <2>1. CASE WaitForWorkers \/ WakeSpuriously
    BY <2>1 DEF WaitForWorkers, WakeSpuriously, FrameIsDone, IsUnfinished
  <2>2. CASE SyncInline
    BY <2>2 DEF SyncInline
  <2>3. CASE MoveActors
    BY <2>3 DEF MoveActors
  <2>4. CASE ResetSimulation \/ ReleaseSharedStates
    BY <2>4 DEF ResetSimulation, ReleaseSharedStates, MovementsCleared, TakeLock, LockMoves
  <2>5. CASE ClearActors
    BY <2>5 DEF ClearActors
  <2>6. CASE Join
    BY <2>6 DEF Join
  <2> QED BY <1>3, <2>1, <2>2, <2>3, <2>4, <2>5, <2>6 DEF MainStep
<1> QED BY <1>1, <1>2, <1>3

LEMMA MainPhases ==
    ASSUME PhaseInv, Game \/ MainStep \/ UNCHANGED stateVars
    PROVE  FrameInv' /\ StopInv' /\ InlineInv' /\ StepInv'
<1> USE DEF PhaseInv
<1>0. /\ UNCHANGED <<threads, barrier>> /\ overtaken \in BOOLEAN /\ main \in [pc : MainPcs, call : Calls]
      /\ mFrameCounter \in Nat /\ mWorkersFrameCounter \in Nat
      /\ threads \subseteq Threads /\ Runners \subseteq Threads \cup {Main}
  BY MainFacts, ThreadFacts DEF ControlInv, WokenInv
<1>1. CASE MainMoves
  <2>1. CASE LockMoves
    <3>1. /\ main.pc = "lock" /\ HoldSimulation = {} /\ ~mShouldStop
          /\ \A t \in Runners : ~InStep(t)
          /\ ~overtaken' => ~overtaken /\ FrameIsDone
      BY <2>1, LockFacts DEF LockMoves
    <3>2. /\ main'.call = main.call /\ mSimulations' = 0
          /\ \/ main.call = "reset" /\ main'.pc = "move"
             \/ main.call = "release" /\ main'.pc = "clear"
      BY <2>1 DEF LockMoves, TakeLock
    <3>3. FrameInv'
      BY <1>0, <1>1, <3>1, <3>2, StillPhases DEF MainMoves, FrameInv, FrameIsDone, IsAt
    <3>4. StopInv' /\ InlineInv' /\ StepInv'
      BY <1>0, <1>1, <3>1, <3>2, StillPhases DEF MainMoves, StopInv, InlineInv, StepInv, IsAt
    <3> QED BY <3>3, <3>4
  <2>2. CASE ~LockMoves
    <3>1. FrameInv'
      BY <1>0, <1>1, <2>2, StillPhases DEF MainMoves, FrameInv, FrameIsDone, IsAt, StopInv, InlineInv
    <3>2. StopInv'
      BY <1>0, <1>1, <2>2, StillPhases DEF MainMoves, StopInv, InlineInv
    <3>3. InlineInv'
      BY <1>0, <1>1, <2>2, StillPhases DEF MainMoves, InlineInv, IsAt
    <3>4. StepInv'
      BY <1>0, <1>1, <2>2, StillPhases, InStepFacts DEF MainMoves, StepInv, InlineInv, InStep, IsAt, Released, Runners
    <3> QED BY <3>1, <3>2, <3>3, <3>4
  <2> QED BY <2>1, <2>2
<1>2. CASE WakeUpWorkers
  <2>1. /\ main.pc = "wake" /\ mFrameCounter' = mFrameCounter + 1 /\ main' = [main EXCEPT !.pc = "move"]
        /\ UNCHANGED <<mWorkersFrameCounter, mShouldStop, overtaken, mRemainingSteps, mNextJob, mSimulations, runner>>
    BY <1>2 DEF WakeUpWorkers, MainGoto, workVars, stepVars, bufferVars
  <2>2. /\ main'.pc = "move" /\ main'.call = "apply" /\ ~mShouldStop /\ threads # {}
        /\ ~overtaken => FrameIsDone /\ mSimulations # 0
    BY <1>0, <2>1 DEF StopInv, FrameInv
  <2>3. FrameInv'
    <3> SUFFICES ASSUME ~overtaken PROVE FrameInv'
      BY <2>1 DEF FrameInv
    <3>1. FrameIsDone /\ mSimulations # 0 /\ \A t \in threads :
            ~IsAt(t, "exited") /\ IsOut(t) /\ runner[t].lastFrame = mFrameCounter
      BY <2>2 DEF FrameInv
    <3>2. \A t \in threads : ~IsAt(t, "exited")' /\ IsOut(t)' /\ runner'[t].lastFrame = mFrameCounter
      BY <1>0, <2>1, <3>1, StillPhases DEF IsAt
    <3>3. mFrameCounter' = mWorkersFrameCounter + 1 /\ ~FrameIsDone' /\ mFrameCounter' - 1 = mFrameCounter
      BY <1>0, <2>1, <3>1 DEF FrameIsDone
    <3> QED BY <1>0, <2>1, <2>2, <3>1, <3>2, <3>3 DEF FrameInv
  <2>4. StopInv' /\ InlineInv' /\ StepInv'
    BY <1>0, <2>1, <2>2, StillPhases DEF StopInv, InlineInv, StepInv, IsAt
  <2> QED BY <2>3, <2>4
<1>3. CASE StopWorkers
  <2>1. /\ main.pc = "stop" /\ mShouldStop' = TRUE /\ main' = [main EXCEPT !.pc = "join"]
        /\ UNCHANGED <<mFrameCounter, mWorkersFrameCounter, overtaken, mRemainingSteps, mNextJob, mSimulations, runner>>
    BY <1>3 DEF StopWorkers, MainGoto, workVars, stepVars, bufferVars
  <2>2. main'.pc = "join" /\ main'.call = main.call
    BY <1>0, <2>1
  <2>3. \A t \in threads : IsOut(t)' <=> IsOut(t)
    BY <1>0, <2>1, StillPhases
  <2>4. FrameInv' /\ StopInv'
    BY <1>0, <2>1, <2>2, <2>3 DEF FrameInv, StopInv
  <2>5. InlineInv' /\ StepInv'
    BY <1>0, <2>1, <2>2, StillPhases DEF InlineInv, StepInv, IsAt
  <2> QED BY <2>4, <2>5
<1>4. CASE ZeroWork \/ PrepareWork
  <2>1. TakeLock("destroy") \/ TakeLock("apply")
    BY <1>4, PrepareFacts DEF ZeroWork
  <2>2. /\ main.pc = "lock" /\ main.call \in {"destroy", "apply"} /\ ~mShouldStop
        /\ HoldSimulation = {} /\ \A t \in Runners : ~InStep(t)
        /\ ~overtaken' => ~overtaken /\ FrameIsDone
    BY <2>1, LockFacts
  <2>3. mNextJob = 0
    BY <2>2 DEF StepInv
  <2>4. CASE ZeroWork
    <3>1. /\ mRemainingSteps' = 0 /\ main' = [main EXCEPT !.pc = "stop"] /\ main.call = "destroy"
          /\ UNCHANGED <<mFrameCounter, mWorkersFrameCounter, mShouldStop, mNextJob, mSimulations, runner>>
      BY <2>4 DEF ZeroWork, TakeLock, MainGoto, bufferVars
    <3>2. main'.pc = "stop" /\ main'.call = main.call
      BY <1>0, <3>1
    <3>3. \A t \in threads : IsOut(t) \/ runner[t].pc \in {"exited", "enter"}
      BY <1>0, <2>2 DEF HoldSimulation, IsOut, SimulationPcs, ControlInv, RunnerType, RunnerPcs
    <3>4. FrameInv'
      BY <1>0, <2>2, <3>1, <3>2, StillPhases DEF FrameInv, FrameIsDone, IsAt
    <3>5. StopInv'
      BY <1>0, <2>2, <3>1, <3>2, <3>3, StillPhases DEF StopInv
    <3>6. InlineInv' /\ StepInv'
      BY <1>0, <2>2, <2>3, <3>1, <3>2, StillPhases DEF InlineInv, StepInv, IsAt
    <3> QED BY <3>4, <3>5, <3>6
  <2>5. CASE PrepareWork /\ threads # {}
    <3>1. /\ mRemainingSteps' \in Nat /\ main' = [main EXCEPT !.pc = "wake"] /\ main.call = "apply"
          /\ UNCHANGED <<mFrameCounter, mWorkersFrameCounter, mShouldStop, runner>>
          /\ mNextJob' = 0 /\ mSimulations' # 0
      BY <2>5, PrepareFacts, PhysicsAssumption DEF NextBuffer
    <3>2. main'.pc = "wake" /\ main'.call = main.call
      BY <1>0, <3>1
    <3>3. FrameInv' /\ StopInv'
      BY <1>0, <2>2, <2>5, <3>1, <3>2, StillPhases DEF FrameInv, FrameIsDone, StopInv, IsAt
    <3>4. InlineInv' /\ StepInv'
      BY <1>0, <2>2, <2>3, <2>5, <3>1, <3>2, StillPhases DEF InlineInv, StepInv, IsAt
    <3> QED BY <3>3, <3>4
  <2>6. CASE PrepareWork /\ threads = {}
    <3>1. /\ mRemainingSteps' \in Nat /\ main' = [main EXCEPT !.pc = "simulate"] /\ main.call = "apply"
          /\ UNCHANGED <<mFrameCounter, mWorkersFrameCounter, mShouldStop>> /\ Goto(Main, "steps")
          /\ mNextJob' = 0 /\ mSimulations' # 0
      BY <2>6, PrepareFacts, PhysicsAssumption DEF NextBuffer
    <3>2. main'.pc = "simulate" /\ main'.call = main.call
      BY <1>0, <3>1
    <3>3. runner'[Main].pc = "steps"
      BY <3>1, GotoFacts DEF RunnerPcs, SimulationPcs
    <3>4. FrameInv' /\ StopInv' /\ InlineInv'
      BY <1>0, <2>2, <2>6, <3>1, <3>2, <3>3 DEF FrameInv, FrameIsDone, StopInv, InlineInv, IsAt
    <3>5. Runners' = {Main} /\ ~InStep(Main)'
      BY <1>0, <2>6, <3>3 DEF Runners, InStep, Released, IsAt
    <3>6. StepInv'
      BY <3>1, <3>5 DEF StepInv
    <3> QED BY <3>4, <3>6
  <2> QED BY <1>4, <2>4, <2>5, <2>6
<1> QED BY <1>1, <1>2, <1>3, <1>4, MainKinds

LEMMA AwayPhases ==
    ASSUME PhaseInv, DataInv, BufferInv, NEW t \in Threads \cup {Main}, AwayStep(t)
    PROVE  FrameInv' /\ StopInv' /\ InlineInv' /\ StepInv'
<1>1. /\ t \in Runners /\ UNCHANGED <<threads, barrier, mFrameCounter, mWorkersFrameCounter, mShouldStop, overtaken,
                              mRemainingSteps, mNumJobs, mSimulations, mSimulationsCounter, movements, main>>
      /\ \A u \in (Threads \cup {Main}) \ {t} : runner'[u] = runner[u]
      /\ (InStep(t)' <=> InStep(t)) /\ (~InStep(t) => UNCHANGED <<mNextJob, moved>>)
      /\ ~InStep(t) => runner'[t].pc \in {"exited", "asleep", "enter", "steps"}
      /\ InStep(t) => runner'[t].pc \in {"jobs", "move", "drop", "destroy"}
      /\ ~mShouldStop => runner'[t].pc # "exited"
      /\ Wake(t) => IsOut(t) /\ ~IsOut(t)' /\ runner'[t].lastFrame = mFrameCounter
      /\ ~Wake(t) => /\ ~mShouldStop => (IsOut(t)' <=> IsOut(t))
                     /\ runner'[t].lastFrame = runner[t].lastFrame
  BY AwayFacts
<1>2. /\ threads \subseteq Threads /\ Runners \subseteq Threads \cup {Main}
      /\ threads # {} => Runners = threads
      /\ threads = {} => Runners = {Main}
      /\ Runners' = Runners /\ Main \notin threads
  BY <1>1, ThreadFacts DEF PhaseInv, Runners
<1>3. \A u \in Runners \ {t} : (IsOut(u)' <=> IsOut(u)) /\ (InStep(u)' <=> InStep(u))
  BY <1>1, <1>2 DEF IsOut, InStep, Released, IsAt
<1>4. Wake(t) => mShouldStop \/ mFrameCounter # runner[t].lastFrame
  BY DEF Wake, HasJob
<1>5. InStep(t) => ~mShouldStop /\ main.pc \notin {"stop", "join", "done"}
  BY <1>1, InStepFacts
<1>6. FrameInv'
  <2> SUFFICES ASSUME ~overtaken, ~mShouldStop PROVE FrameInv'
    BY <1>1 DEF FrameInv
  <2>1. ASSUME NEW u \in threads
        PROVE  /\ ~IsAt(u, "exited")' /\ (FrameIsDone => IsOut(u)')
               /\ runner'[u].lastFrame = IF ~FrameIsDone /\ IsOut(u)' THEN mFrameCounter - 1
                                         ELSE mFrameCounter
    <3>1. CASE u # t
      BY <1>1, <1>2, <1>3, <3>1 DEF PhaseInv, FrameInv, IsAt
    <3>2. CASE u = t
      BY <1>1, <1>2, <1>4, <3>2 DEF PhaseInv, FrameInv, IsAt
    <3> QED BY <3>1, <3>2
  <2> QED BY <1>1, <2>1 DEF PhaseInv, FrameInv, FrameIsDone
<1>7. StopInv'
  <2>1. ASSUME main.pc \in {"stop", "join", "done"}, NEW u \in threads
        PROVE  IsOut(u)' \/ runner'[u].pc \in {"exited", "enter", "steps", "PostSim"}
    <3>1. CASE u # t
      BY <1>1, <1>2, <1>3, <2>1, <3>1 DEF PhaseInv, StopInv
    <3>2. CASE u = t
      BY <1>1, <1>5, <2>1, <3>2 DEF IsOut, IsAt
    <3> QED BY <3>1, <3>2
  <2> QED BY <1>1, <2>1 DEF PhaseInv, StopInv
<1>8. InlineInv'
  <2>1. CASE threads # {}
    BY <1>1, <1>2, <2>1 DEF PhaseInv, InlineInv, IsAt
  <2>2. CASE threads = {}
    <3>1. t = Main /\ ~RunWorker(t) /\ ~Wake(t) /\ ~Enter(t)
      BY <1>1, <1>2, <2>2 DEF RunWorker, Wake, Enter
    <3>2. InStep(t)
      BY <3>1 DEF AwayStep, FetchJob, Move, Drop, DestroyActor, InStep, IsAt
    <3>3. main.pc = "simulate"
      BY <1>1, <2>2, <3>2, InStepFacts
    <3> QED BY <1>1, <2>2, <3>1, <3>2, <3>3 DEF PhaseInv, InlineInv, IsAt
  <2> QED BY <2>1, <2>2
<1>9. StepInv'
  BY <1>1, <1>2, <1>3 DEF PhaseInv, StepInv
<1> QED BY <1>6, <1>7, <1>8, <1>9

LEMMA PassKeepsPhases ==
    ASSUME PhaseInv, NEW t \in Threads \cup {Main}, Pass(t)
    PROVE  FrameInv' /\ StopInv' /\ InlineInv' /\ StepInv'
<1>1. /\ t \in threads
      /\ \A u \in Threads \cup {Main} : runner'[u].lastFrame = runner[u].lastFrame
      /\ \A u \in (Threads \cup {Main}) \ {t} : runner'[u] = runner[u]
      /\ runner'[t].pc \in {"jobs", "steps", "idle"}
      /\ runner'[t].pc = "jobs" => InStep(t)
      /\ \A u \in Threads \cup {Main} : (IsOut(u)' <=> IsOut(u)) /\ (InStep(u)' <=> InStep(u))
  BY PassPhases
<1>2. UNCHANGED <<threads, mFrameCounter, mWorkersFrameCounter, mShouldStop, overtaken, mRemainingSteps,
                  mNextJob, mSimulations, main>>
  BY DEF Pass, syncVars, workVars, stepVars, bufferVars
<1>3. /\ threads \subseteq Threads /\ Runners = threads /\ Runners' = threads /\ Main \notin threads
  BY <1>1, <1>2, ThreadFacts DEF PhaseInv, Runners
<1>4. FrameInv'
  <2>1. \A u \in threads : IsAt(u, "exited")' => IsAt(u, "exited")
    BY <1>1, <1>3 DEF IsAt
  <2> QED BY <1>1, <1>2, <1>3, <2>1 DEF PhaseInv, FrameInv, FrameIsDone
<1>5. StopInv'
  <2>1. ASSUME main.pc \in {"stop", "join", "done"}, NEW u \in threads
        PROVE  IsOut(u)' \/ runner'[u].pc \in {"exited", "enter", "steps", "PostSim"}
    <3>1. CASE u # t
      BY <1>1, <1>3, <2>1, <3>1 DEF PhaseInv, StopInv
    <3>2. CASE u = t
      <4>1. runner'[t].pc # "jobs"
        BY <1>1, <1>3, <2>1, InStepFacts
      <4> QED BY <1>1, <3>2, <4>1 DEF IsOut, IsAt
    <3> QED BY <3>1, <3>2
  <2> QED BY <1>2, <2>1 DEF PhaseInv, StopInv
<1>6. InlineInv'
  BY <1>1, <1>2, <1>3 DEF PhaseInv, InlineInv, IsAt
<1>7. StepInv'
  BY <1>1, <1>2, <1>3 DEF PhaseInv, StepInv
<1> QED BY <1>4, <1>5, <1>6, <1>7

LEMMA ArrivalKeepsPhases ==
    ASSUME PhaseInv, NEW t \in Threads \cup {Main}, BeginStep(t) \/ EndFrame(t) \/ EndStep(t)
    PROVE  FrameInv' /\ StopInv' /\ InlineInv' /\ StepInv'
<1>1. /\ t \in Runners /\ UNCHANGED threads
      /\ \A u \in Threads \cup {Main} : runner'[u].lastFrame = runner[u].lastFrame
      /\ \A u \in Runners \ {t} : runner'[u] = runner[u]
      /\ runner'[t].pc \in {"PreStep", "PostStep", "PostSim", "jobs", "steps", "idle"}
      /\ threads = {} => runner'[t].pc \in {"jobs", "steps", "idle"}
  BY ArrivalPhases, ArrivalKinds DEF PhaseInv
<1>2. /\ threads \subseteq Threads /\ Runners \subseteq Threads \cup {Main}
      /\ threads # {} => Runners = threads
      /\ threads = {} => Runners = {Main} /\ t = Main
      /\ Runners' = Runners /\ Main \notin threads /\ threads \subseteq Runners
  BY <1>1, ThreadFacts DEF PhaseInv, Runners
<1>3. /\ main \in [pc : MainPcs, call : Calls] /\ mRemainingSteps \in Nat
      /\ mFrameCounter \in Nat /\ mWorkersFrameCounter \in Nat
      /\ t = Main => main.pc = "simulate"
  BY DEF PhaseInv, ControlInv, BeginStep, EndFrame, EndStep, Inside
<1>4. threads # {} => UNCHANGED runner[Main]
  BY <1>1, <1>2, ArrivalKinds, ArriveFacts DEF PhaseInv, Barriers
<1>5. CASE BeginStep(t)
  <2>1. /\ UNCHANGED <<mFrameCounter, mWorkersFrameCounter, mShouldStop, overtaken, mRemainingSteps,
                       mNextJob, mSimulations, main>>
        /\ mRemainingSteps > 0 /\ (IsLast("PreStep") => mSimulations # 0)
    BY <1>5 DEF BeginStep, ReadsNullptr, syncVars, bufferVars
  <2>2. /\ ~InStep(t) /\ \A u \in Runners : IsOut(u)' <=> IsOut(u)
        /\ runner'[t].pc \in {"PreStep", "jobs"}
        /\ IF IsLast("PreStep") THEN \A u \in Runners : InStep(u)'
           ELSE \A u \in Runners : InStep(u)' <=> InStep(u)
    BY <1>5, ArrivalPhases
  <2>3. ~mShouldStop /\ main.pc \notin {"stop", "join", "done"}
    BY <1>3, <2>1 DEF PhaseInv, StopInv
  <2>4. FrameInv'
    BY <1>1, <1>2, <2>1, <2>2 DEF PhaseInv, FrameInv, FrameIsDone, IsAt
  <2>5. StopInv'
    BY <1>1, <2>1, <2>3 DEF PhaseInv, StopInv
  <2>6. InlineInv'
    BY <1>1, <1>2, <1>3, <1>4, <2>1, <2>2 DEF PhaseInv, InlineInv, IsAt
  <2>7. StepInv'
    BY <1>1, <1>2, <2>1, <2>2 DEF PhaseInv, StepInv
  <2> QED BY <2>4, <2>5, <2>6, <2>7
<1>6. CASE EndFrame(t)
  <2>1. /\ UNCHANGED <<mFrameCounter, mShouldStop, overtaken, mRemainingSteps, mNextJob, mSimulations>>
        /\ mRemainingSteps = 0
        /\ IF threads # {} /\ IsLast("PostSim")
           THEN /\ mWorkersFrameCounter' = mWorkersFrameCounter + 1
                /\ main' = main \/ (main.pc = "asleep" /\ main' = [main EXCEPT !.pc = "lock"])
           ELSE UNCHANGED <<mWorkersFrameCounter, main>>
    BY <1>6 DEF EndFrame, LastReports, stepVars, bufferVars
  <2>2. /\ ~InStep(t) /\ ~IsOut(t) /\ \A u \in Runners : InStep(u)' <=> InStep(u)
        /\ runner'[t].pc \in {"PostSim", "idle"}
        /\ IF IsLast("PostSim") THEN \A u \in Runners : IsOut(u)' /\ ~IsOut(u)
           ELSE \A u \in Runners : IsOut(u)' <=> IsOut(u)
    BY <1>6, ArrivalPhases
  <2>3. \/ main' = main
        \/ /\ main.pc = "asleep" /\ main'.pc = "lock" /\ main'.call = main.call
           /\ threads # {} /\ IsLast("PostSim")
    BY <1>3, <2>1
  <2>4. FrameInv'
    <3> SUFFICES ASSUME ~overtaken, ~mShouldStop PROVE FrameInv'
      BY <2>1 DEF FrameInv
    <3>1. \A u \in threads : ~IsAt(u, "exited")'
      BY <1>1, <1>2 DEF PhaseInv, FrameInv, IsAt
    <3>2. CASE threads # {} /\ IsLast("PostSim")
      <4>1. ~FrameIsDone /\ FrameIsDone'
        BY <1>1, <1>2, <1>3, <2>1, <2>2, <3>2 DEF PhaseInv, FrameInv, FrameIsDone
      <4>2. \A u \in threads : runner'[u].lastFrame = mFrameCounter'
        BY <1>1, <1>2, <2>1, <2>2, <3>2, <4>1 DEF PhaseInv, FrameInv
      <4> QED BY <1>1, <1>2, <2>1, <2>2, <2>3, <3>1, <3>2, <4>1, <4>2 DEF PhaseInv, FrameInv
    <3>3. CASE ~(threads # {} /\ IsLast("PostSim"))
      BY <1>1, <1>2, <2>1, <2>2, <2>3, <3>1, <3>3 DEF PhaseInv, FrameInv, FrameIsDone
    <3> QED BY <3>2, <3>3
  <2>5. StopInv'
    <3>1. ASSUME main.pc \in {"stop", "join", "done"}, NEW u \in threads
          PROVE  IsOut(u)' \/ runner'[u].pc \in {"exited", "enter", "steps", "PostSim"}
      <4>1. CASE u # t
        BY <1>1, <1>2, <2>2, <3>1, <4>1 DEF PhaseInv, StopInv
      <4>2. CASE u = t
        BY <2>2, <4>2 DEF IsOut
      <4> QED BY <4>1, <4>2
    <3> QED BY <1>1, <2>1, <2>3, <3>1 DEF PhaseInv, StopInv
  <2>6. InlineInv'
    BY <1>1, <1>2, <1>3, <1>4, <2>1, <2>2, <2>3 DEF PhaseInv, InlineInv, IsAt
  <2>7. StepInv'
    BY <1>1, <1>2, <2>1, <2>2 DEF PhaseInv, StepInv
  <2> QED BY <2>4, <2>5, <2>6, <2>7
<1>7. CASE EndStep(t)
  <2>1. /\ UNCHANGED <<mFrameCounter, mWorkersFrameCounter, mShouldStop, overtaken, mSimulations, main>>
        /\ IF IsLast("PostStep") THEN mNextJob' = 0 /\ mRemainingSteps' = mRemainingSteps - 1
           ELSE mRemainingSteps' = mRemainingSteps
    BY <1>7 DEF EndStep, StartOver, syncVars
  <2>2. /\ InStep(t) /\ \A u \in Runners : IsOut(u)' <=> IsOut(u)
        /\ IF IsLast("PostStep") THEN \A u \in Runners : ~InStep(u)'
           ELSE \A u \in Runners : InStep(u)' <=> InStep(u)
    BY <1>7, ArrivalPhases
  <2>3. /\ ~mShouldStop /\ main.pc \notin {"stop", "join", "done"}
        /\ threads # {} /\ ~overtaken => ~FrameIsDone
        /\ threads = {} => main.pc = "simulate"
        /\ mRemainingSteps > 0 /\ \A u \in Runners : InStep(u)
        /\ mSimulations # 0
    BY <1>1, <2>2, InStepFacts
  <2>4. FrameInv'
    BY <1>1, <1>2, <2>1, <2>2, <2>3 DEF PhaseInv, FrameInv, FrameIsDone, IsAt
  <2>5. StopInv'
    BY <1>1, <2>1, <2>3 DEF PhaseInv, StopInv
  <2>6. InlineInv'
    <3>1. threads = {} => runner'[t].pc = "steps"
      BY <1>1, <1>7, ArrivalKinds, Arrival DEF PhaseInv, Barriers, After
    <3> QED BY <1>1, <1>2, <1>3, <1>4, <2>1, <2>3, <3>1 DEF PhaseInv, InlineInv, IsAt
  <2>7. StepInv'
    BY <1>1, <1>2, <2>1, <2>2, <2>3 DEF PhaseInv, StepInv
  <2> QED BY <2>4, <2>5, <2>6, <2>7
<1> QED BY <1>5, <1>6, <1>7

(* The lock of an unfinished frame has to be taken before the program can  *)
(* end: the buffer is there as long as the frame is not done.              *)
LEMMA WokenStep ==
    ASSUME PhaseInv, [Next]_vars
    PROVE  WokenInv'
<1> USE DEF PhaseInv
<1>1. CASE \E t \in Threads \cup {Main} : Crash(t)
  <2>1. PICK t \in Threads \cup {Main} : Crash(t)
    BY <1>1
  <2>2. /\ t \in Runners /\ (t = Main => main.pc = "simulate") /\ IsAt(t, "steps")
        /\ mRemainingSteps > 0 /\ mSimulations = 0 /\ overtaken' = overtaken /\ crashed' = TRUE
    BY <2>1 DEF Crash, Inside, ReadsNullptr
  <2>3. ASSUME ~overtaken PROVE FALSE
    <3>1. main.pc \notin {"stop", "join", "done"} /\ ~mShouldStop
      BY <2>2 DEF StopInv
    <3>2. threads # {} /\ t \in threads
      BY <2>2, ThreadFacts DEF InlineInv
    <3>3. ~IsOut(t)
      BY <2>2 DEF IsOut, IsAt, Released
    <3> QED BY <2>2, <2>3, <3>1, <3>2, <3>3 DEF FrameInv
  <2> QED BY <2>2, <2>3 DEF WokenInv
<1>2. CASE ~\E t \in Threads \cup {Main} : Crash(t)
  <2>1. crashed' = crashed /\ (overtaken' = overtaken \/ \E call : TakeLock(call))
    BY <1>2 DEF Next, Game, MainStep, RunnerStep, Teleport, MoveObjectBy, RemoveActor, StepSimulation,
         Destroy, WaitForWorkers, WakeSpuriously, PrepareWork, SyncInline, WakeUpWorkers, MoveActors,
         ResetSimulation, ReleaseSharedStates, ClearActors, ZeroWork, StopWorkers, Join, TakeLock,
         RunWorker, Wake, Enter, BeginStep, EndFrame, Pass, FetchJob, Move, Drop, DestroyActor, EndStep,
         vars, syncVars
  <2> QED BY <2>1, LockFacts DEF WokenInv
<1> QED BY <1>1, <1>2

LEMMA PhaseStep ==
    ASSUME PhaseInv, DataInv, BufferInv, [Next]_vars
    PROVE  PhaseInv'
<1>1. ControlInv' /\ BarrierInv'
  BY ControlStep, BarrierStep
<1>2. CASE Game \/ MainStep \/ UNCHANGED stateVars
  BY <1>1, <1>2, MainPhases, WokenStep DEF PhaseInv
<1>3. ASSUME NEW t \in Threads \cup {Main}, RunnerMoves(t) PROVE PhaseInv'
  BY <1>1, <1>3, AwayPhases, PassKeepsPhases, ArrivalKeepsPhases, WokenStep DEF PhaseInv, RunnerMoves
<1> QED BY <1>2, <1>3, StepKinds

-----------------------------------------------------------------------------
(* Places                                                                  *)

LEMMA PlacedFields ==
    ASSUME NEW r, NEW base, NEW n
    PROVE  IsPlaced(r, base, n) <=>
             /\ r.position.base = base /\ r.position.moves = n - r.offset
             /\ r.previous.base = base /\ r.previous.moves = n - r.offset
             /\ r.simulation.base = base /\ r.simulation.moves = n - r.offset
BY DEF IsPlaced

LEMMA WithOffsetFacts ==
    ASSUME NEW r \in ActorState
    PROVE  /\ WithOffset(r) \in ActorState /\ WithOffset(r).offset = 0
           /\ WithOffset(r).skip = r.skip
           /\ \A base \in Nat, n \in Nat : IsPlaced(r, base, n) => IsPlaced(WithOffset(r), base, n)
<1>1. r.offset \in Nat /\ r.position \in Spots /\ r.previous \in Spots /\ r.simulation \in Spots
  BY DEF ActorState
<1>2. ASSUME NEW p \in Spots
      PROVE  /\ Displaced(p, r.offset) \in Spots /\ Displaced(p, r.offset).base = p.base
             /\ Displaced(p, r.offset).moves = p.moves + r.offset /\ p.moves \in Nat
  BY <1>1 DEF Displaced, Spots
<1>3. /\ WithOffset(r) \in ActorState /\ WithOffset(r).offset = 0 /\ WithOffset(r).skip = r.skip
      /\ WithOffset(r).position = Displaced(r.position, r.offset)
      /\ WithOffset(r).previous = Displaced(r.previous, r.offset)
      /\ WithOffset(r).simulation = Displaced(r.simulation, r.offset)
  BY <1>1, <1>2 DEF WithOffset, ActorState
<1>4. ASSUME NEW base \in Nat, NEW n \in Nat, IsPlaced(r, base, n)
      PROVE  IsPlaced(WithOffset(r), base, n)
  BY <1>1, <1>2, <1>3, <1>4, PlacedFields
<1> QED BY <1>3, <1>4

LEMMA SyncedFacts ==
    ASSUME NEW r \in ActorState, NEW f \in {"position", "previous"}
    PROVE  /\ Synced(r, r[f]) \in ActorState
           /\ Synced(r, r[f]).offset = r.offset /\ Synced(r, r[f]).position = r.position
           /\ \A base \in Nat, n \in Nat : IsPlaced(r, base, n) => IsPlaced(Synced(r, r[f]), base, n)
<1>1. r[f] \in Spots
  BY DEF ActorState
<1> QED BY <1>1 DEF Synced, IsPlaced, ActorState

LEMMA SetPositionFacts ==
    ASSUME NEW r \in ActorState, NEW p \in Spots
    PROVE  /\ SetPosition(r, p) \in ActorState /\ SetPosition(r, p).offset = 0
           /\ \A base \in Nat, n \in Nat :
                IsPlaced(r, base, n) /\ (~r.skip /\ r.offset = 0 => p = Place(base, n)) =>
                  IsPlaced(SetPosition(r, p), base, n) /\ SetPosition(r, p).position = Place(base, n)
<1>1. CASE r.offset # 0 \/ r.skip
  <2>1. SetPosition(r, p) = WithOffset(r)
    BY <1>1 DEF SetPosition
  <2>2. ASSUME NEW base \in Nat, NEW n \in Nat, IsPlaced(r, base, n)
        PROVE  WithOffset(r).position = Place(base, n)
    BY <2>2 DEF WithOffset, Displaced, IsPlaced, ActorState, Spots, Place
  <2> QED BY <2>1, <2>2, WithOffsetFacts
<1>2. CASE r.offset = 0 /\ ~r.skip
  <2>1. SetPosition(r, p) = [r EXCEPT !.previous = r.position, !.position = p]
    BY <1>2 DEF SetPosition
  <2>2. ASSUME NEW base \in Nat, NEW n \in Nat, IsPlaced(r, base, n), p = Place(base, n)
        PROVE  IsPlaced(SetPosition(r, p), base, n)
    <3>1. /\ SetPosition(r, p).position = p /\ SetPosition(r, p).previous = r.position
          /\ SetPosition(r, p).simulation = r.simulation /\ SetPosition(r, p).offset = 0
      BY <1>2, <2>1 DEF ActorState
    <3>2. p.base = base /\ p.moves = n
      BY <2>2 DEF Place
    <3> QED BY <1>2, <2>2, <3>1, <3>2, PlacedFields
  <2> QED BY <1>2, <2>1, <2>2 DEF ActorState, Spots
<1> QED BY <1>1, <1>2 DEF ActorState

LEMMA LiftFacts ==
    ASSUME NEW r \in ActorState, r.offset = 0
    PROVE  LET s == [r EXCEPT !.offset = 1]
           IN  /\ s \in ActorState
               /\ \A base \in Nat, n \in Nat : IsPlaced(r, base, n) => IsPlaced(s, base, n + 1)
BY DEF ActorState, Spots, IsPlaced

(* What is placed without an offset is at one place.                       *)
LEMMA PlacedHere ==
    ASSUME NEW r \in ActorState, NEW base \in Nat, NEW n \in Nat, IsPlaced(r, base, n), r.offset = 0
    PROVE  r.position = Place(base, n)
BY DEF IsPlaced, ActorState, Spots, Place

LEMMA FrameStartFacts ==
    ASSUME DataInv, NEW a \in Actors, NEW shown \in [Finished -> {"position", "previous"}],
           NEW lifted \in SUBSET Simulated(NextBuffer)
    PROVE  LET s == AtFrameStart(a, shown, lifted)
               n == IF a \in lifted THEN moves[a] + 1 ELSE moves[a]
           IN  /\ s \in ActorState /\ s.position \in Spots
               /\ a \in Simulated(NextBuffer) => s.offset = 0
               /\ IsPlaced(actor[a], teleports[a], moves[a]) => IsPlaced(s, teleports[a], n)
<1> DEFINE synced == IF a \in Finished THEN Synced(actor[a], actor[a][shown[a]]) ELSE actor[a]
           placed == IF a \in Simulated(NextBuffer) THEN WithOffset(synced) ELSE synced
           s == IF a \in lifted THEN WithOffset([placed EXCEPT !.offset = 1]) ELSE placed
           P(r) == IsPlaced(actor[a], teleports[a], moves[a]) => IsPlaced(r, teleports[a], moves[a])
<1>1. actor[a] \in ActorState /\ teleports[a] \in Nat /\ moves[a] \in Nat
  BY DEF DataInv
<1>2. synced \in ActorState /\ P(synced)
  <2>1. CASE a \in Finished
    <3>1. shown[a] \in {"position", "previous"}
      BY <2>1
    <3> QED BY <1>1, <2>1, <3>1, SyncedFacts
  <2> QED BY <1>1, <2>1
<1> HIDE DEF synced
<1>3. placed \in ActorState /\ P(placed) /\ (a \in Simulated(NextBuffer) => placed.offset = 0)
  BY <1>1, <1>2, WithOffsetFacts
<1> HIDE DEF placed
<1>4. CASE a \in lifted
  <2> DEFINE up == [placed EXCEPT !.offset = 1]
  <2>1. placed.offset = 0
    BY <1>3, <1>4
  <2>2. /\ up \in ActorState
        /\ IsPlaced(actor[a], teleports[a], moves[a]) => IsPlaced(up, teleports[a], moves[a] + 1)
    BY <1>1, <1>3, <2>1, LiftFacts
  <2> HIDE DEF up
  <2>3. /\ WithOffset(up) \in ActorState /\ WithOffset(up).offset = 0
        /\ IsPlaced(actor[a], teleports[a], moves[a]) => IsPlaced(WithOffset(up), teleports[a], moves[a] + 1)
    BY <1>1, <2>2, WithOffsetFacts
  <2>4. AtFrameStart(a, shown, lifted) = WithOffset(up)
    BY <1>4 DEF AtFrameStart, up, placed, synced
  <2> QED BY <1>4, <2>3, <2>4 DEF ActorState
<1>5. CASE a \notin lifted
  <2>1. AtFrameStart(a, shown, lifted) = placed
    BY <1>5 DEF AtFrameStart, placed, synced
  <2> QED BY <1>3, <1>5, <2>1 DEF ActorState
<1> QED BY <1>4, <1>5

-----------------------------------------------------------------------------
(* Buffers and places                                                      *)

LEMMA BufferFacts ==
    ASSUME ControlInv, DataInv
    PROVE  /\ NextBuffer \in 1..2 /\ Filled \in 1..2 /\ NextBuffer # Filled
           /\ \A i \in 1..2 : i = NextBuffer \/ i = Filled
           /\ \A i \in 1..2 : /\ movements[i] \in Seq(Movement) /\ DOMAIN movements[i] = 1..Len(movements[i])
                              /\ \A j \in DOMAIN movements[i] :
                                   /\ movements[i][j] \in Movement /\ movements[i][j].actor \in Actors
                                   /\ movements[i][j].position \in Spots
<1>1. mSimulationsCounter \in {0, 1}
  BY DEF ControlInv
<1>2. NextBuffer \in 1..2 /\ Filled \in 1..2 /\ NextBuffer # Filled
      /\ \A i \in 1..2 : i = NextBuffer \/ i = Filled
  BY <1>1 DEF NextBuffer, Filled
<1>3. ASSUME NEW i \in 1..2
      PROVE  /\ movements[i] \in Seq(Movement) /\ DOMAIN movements[i] = 1..Len(movements[i])
             /\ \A j \in DOMAIN movements[i] : movements[i][j] \in Movement
  <2>1. movements[i] \in Seq(Movement)
    BY DEF DataInv
  <2> QED BY <2>1
<1> QED BY <1>2, <1>3 DEF Movement

LEMMA PrepareData ==
    ASSUME ControlInv, DataInv, BufferInv, PlaceInv, PrepareWork
    PROVE  DataInv' /\ BufferInv' /\ PlaceInv'
<1>1. PICK shown \in [Finished -> {"position", "previous"}], lifted \in SUBSET Simulated(NextBuffer) :
        /\ actor' = [a \in Actors |-> AtFrameStart(a, shown, lifted)]
        /\ moves' = [a \in Actors |-> IF a \in lifted THEN moves[a] + 1 ELSE moves[a]]
        /\ world' = [a \in Actors |-> IF a \in lifted THEN Displaced(world[a], 1) ELSE world[a]]
        /\ movements' = [i \in 1..2 |->
             IF i = NextBuffer
             THEN [j \in DOMAIN movements[i] |->
                     LET a == movements[i][j].actor
                     IN [movements[i][j] EXCEPT !.position = AtFrameStart(a, shown, lifted).position]]
             ELSE IF i = mSimulations THEN <<>> ELSE movements[i]]
  BY DEF PrepareWork
<1>2. /\ mSimulations' = NextBuffer /\ mNumJobs' = Len(movements[NextBuffer])
      /\ main.call = "apply" /\ main.pc = "lock" /\ ~IsPending'
      /\ UNCHANGED <<mSimulationsCounter, mActors, mCollisionObjects, teleports>>
  BY PrepareFacts DEF IsPending, ControlInv, bodyVars
<1>3. ASSUME NEW a \in Actors
      PROVE  /\ actor'[a] \in ActorState /\ actor'[a].position \in Spots
             /\ a \in Simulated(NextBuffer) => actor'[a].offset = 0
             /\ moves'[a] \in Nat /\ teleports'[a] \in Nat
             /\ IsPlaced(actor[a], teleports[a], moves[a]) => IsPlaced(actor'[a], teleports'[a], moves'[a])
             /\ world'[a] \in Spots /\ world'[a].base = world[a].base
  <2>1. moves[a] \in Nat /\ teleports[a] \in Nat /\ world[a] \in Spots
    BY DEF DataInv
  <2>2. /\ actor'[a] = AtFrameStart(a, shown, lifted)
        /\ moves'[a] = IF a \in lifted THEN moves[a] + 1 ELSE moves[a]
    BY <1>1
  <2>3. world'[a] \in Spots /\ world'[a].base = world[a].base
    BY <1>1, <2>1 DEF Displaced, Spots
  <2> QED BY <1>2, <2>1, <2>2, <2>3, FrameStartFacts
<1> DEFINE n == NextBuffer
<1>4. n \in 1..2 /\ \A i \in 1..2 \ {n} : movements'[i] = IF i = mSimulations THEN <<>> ELSE movements[i]
  BY <1>1, BufferFacts
<1>5. /\ DOMAIN movements'[n] = DOMAIN movements[n]
      /\ \A j \in DOMAIN movements[n] :
           LET a == movements[n][j].actor
           IN movements'[n][j] = [movements[n][j] EXCEPT !.position = AtFrameStart(a, shown, lifted).position]
  BY <1>1, <1>4
<1>6. /\ movements'[n] \in Seq(Movement) /\ Len(movements'[n]) = Len(movements[n])
      /\ \A j \in DOMAIN movements[n] :
           /\ movements'[n][j].actor = movements[n][j].actor
           /\ movements'[n][j].position = actor'[movements[n][j].actor].position
  <2>1. ASSUME NEW j \in DOMAIN movements[n]
        PROVE  /\ movements'[n][j] \in Movement
               /\ movements'[n][j].actor = movements[n][j].actor
               /\ movements'[n][j].position = actor'[movements[n][j].actor].position
    <3> DEFINE a == movements[n][j].actor
    <3>1. movements[n][j] \in Movement /\ a \in Actors
      BY <1>4, BufferFacts
    <3>2. AtFrameStart(a, shown, lifted) = actor'[a] /\ actor'[a].position \in Spots
      BY <1>1, <1>3, <3>1
    <3>3. movements'[n][j] = [movements[n][j] EXCEPT !.position = actor'[a].position]
      BY <1>5, <3>2
    <3> QED BY <3>1, <3>2, <3>3 DEF Movement
  <2>2. movements[n] \in Seq(Movement)
    BY <1>4, BufferFacts
  <2>3. movements'[n] \in [DOMAIN movements[n] -> Movement]
    <3>1. movements'[n] = [j \in DOMAIN movements[n] |-> movements'[n][j]]
      BY <1>1, <1>4
    <3> QED BY <2>1, <3>1
  <2> QED BY <2>1, <2>2, <2>3, MappedSeq
<1>7. DataInv'
  <2>1. movements' \in [1..2 -> Seq(Movement)]
    <3>1. ASSUME NEW i \in 1..2 PROVE movements'[i] \in Seq(Movement)
      <4>1. <<>> \in Seq(Movement)
        OBVIOUS
      <4>2. movements[i] \in Seq(Movement)
        BY BufferFacts
      <4> HIDE DEF n
      <4> QED BY <1>4, <1>6, <4>1, <4>2
    <3>2. movements' = [i \in 1..2 |-> movements'[i]]
      BY <1>1
    <3> QED BY <3>1, <3>2
  <2>2. /\ actor' = [a \in Actors |-> actor'[a]] /\ moves' = [a \in Actors |-> moves'[a]]
        /\ world' = [a \in Actors |-> world'[a]]
    BY <1>1
  <2>3. actor' \in [Actors -> ActorState] /\ world' \in [Actors -> Spots] /\ moves' \in [Actors -> Nat]
    BY <1>3, <2>2
  <2> QED BY <1>2, <2>1, <2>3 DEF DataInv
<1>8. BufferInv'
  <2>1. Filled' = Filled /\ NextBuffer' = n
    BY <1>2 DEF Filled, NextBuffer
  <2>2. ASSUME NEW i \in 1..2, i # n PROVE movements'[i] = <<>>
    BY <1>2, <1>4, <2>2 DEF BufferInv, IsPending
  <2> QED BY <1>2, <1>4, <1>6, <2>1, <2>2, BufferFacts DEF BufferInv
<1>9. PlaceInv'
  <2> SUFFICES ASSUME NEW a \in mActors
               PROVE  /\ world'[a].base = teleports'[a]
                      /\ IsPlaced(actor'[a], teleports'[a], moves'[a])
                      /\ \A j \in DOMAIN movements'[n] : movements'[n][j].actor = a =>
                           movements'[n][j].position = Place(teleports'[a], moves'[a])
    BY <1>2 DEF PlaceInv
  <2>1. a \in Actors
    BY DEF DataInv
  <2>2. /\ world'[a].base = teleports'[a]
        /\ IsPlaced(actor'[a], teleports'[a], moves'[a])
    BY <1>2, <1>3, <2>1 DEF PlaceInv
  <2>3. ASSUME NEW j \in DOMAIN movements'[n], movements'[n][j].actor = a
        PROVE  movements'[n][j].position = Place(teleports'[a], moves'[a])
    <3>1. j \in DOMAIN movements[n] /\ movements[n][j].actor = a
          /\ movements'[n][j].position = actor'[a].position
      BY <1>5, <1>6, <2>3
    <3>2. actor'[a].offset = 0
      BY <1>3, <2>1, <3>1 DEF Simulated
    <3> QED BY <1>3, <2>1, <2>2, <3>1, <3>2, PlacedHere
  <2> QED BY <2>2, <2>3
<1> QED BY <1>7, <1>8, <1>9

(* The callback after a step: each result goes to its actor, or each actor *)
(* to its result.                                                          *)
LEMMA UpdateData ==
    ASSUME ControlInv, DataInv, BufferInv, PlaceInv, mSimulations \in 1..2, PositionsUpdated,
           UNCHANGED <<mSimulations, mSimulationsCounter, mNumJobs, main, mActors, mCollisionObjects,
                       world, teleports, moves>>
    PROVE  DataInv' /\ BufferInv' /\ PlaceInv'
<1> DEFINE i == mSimulations
           s == movements[i]
           updated(m) == SetPosition(actor[m.actor], m.position)
           result(a) == CHOOSE m \in Elements(s) : m.actor = a
<1>1. /\ s \in Seq(Movement) /\ DOMAIN s = 1..Len(s)
      /\ \A j \in DOMAIN s : s[j] \in Movement /\ s[j].actor \in Actors /\ s[j].position \in Spots
  BY BufferFacts
<1>2. /\ actor' = [a \in Actors |-> IF IsAlive(a) /\ a \in Simulated(i) THEN updated(result(a)) ELSE actor[a]]
      /\ movements' = [movements EXCEPT ![i] =
            [j \in DOMAIN s |-> IF IsAlive(s[j].actor) THEN [s[j] EXCEPT !.position = updated(s[j]).position]
                                ELSE s[j]]]
  BY DEF PositionsUpdated
<1>3. ASSUME NEW a \in Simulated(i)
      PROVE  \E j \in DOMAIN s : result(a) = s[j] /\ s[j].actor = a
  <2>1. \E m \in Elements(s) : m.actor = a
    BY DEF Simulated, Elements
  <2>2. result(a) \in Elements(s) /\ result(a).actor = a
    BY <2>1
  <2> QED BY <2>2 DEF Elements
<1>4. ASSUME NEW j \in DOMAIN s
      PROVE  LET a == s[j].actor IN
             /\ updated(s[j]) \in ActorState /\ updated(s[j]).position \in Spots
             /\ a \in mActors => /\ IsPlaced(updated(s[j]), teleports[a], moves[a])
                                 /\ updated(s[j]).position = Place(teleports[a], moves[a])
  <2> DEFINE a == s[j].actor
  <2>1. a \in Actors /\ s[j].position \in Spots
    BY <1>1
  <2>2. actor[a] \in ActorState /\ teleports[a] \in Nat /\ moves[a] \in Nat
    BY <2>1 DEF DataInv
  <2>3. a \in mActors => /\ IsPlaced(actor[a], teleports[a], moves[a])
                         /\ ~actor[a].skip /\ actor[a].offset = 0 => s[j].position = Place(teleports[a], moves[a])
    BY DEF PlaceInv
  <2> HIDE DEF a, s
  <2>4. updated(s[j]) \in ActorState
    BY <2>1, <2>2, SetPositionFacts DEF a
  <2>5. updated(s[j]).position \in Spots
    BY <2>4 DEF ActorState
  <2>6. a \in mActors => /\ IsPlaced(updated(s[j]), teleports[a], moves[a])
                         /\ updated(s[j]).position = Place(teleports[a], moves[a])
    BY <2>1, <2>2, <2>3, SetPositionFacts DEF a
  <2> QED BY <2>4, <2>5, <2>6 DEF a
<1> HIDE DEF updated, result
<1>5. ASSUME NEW a \in Actors
      PROVE  /\ actor'[a] \in ActorState
             /\ a \in mActors => IsPlaced(actor'[a], teleports[a], moves[a])
  <2>1. CASE IsAlive(a) /\ a \in Simulated(i)
    <3>1. PICK j \in DOMAIN s : result(a) = s[j] /\ s[j].actor = a
      BY <1>3, <2>1
    <3>2. actor'[a] = updated(s[j])
      BY <1>2, <2>1, <3>1
    <3> QED BY <1>4, <3>1, <3>2
  <2>2. CASE ~(IsAlive(a) /\ a \in Simulated(i))
    BY <1>2, <2>2 DEF DataInv, PlaceInv
  <2> QED BY <2>1, <2>2
<1>6. /\ DOMAIN movements'[i] = DOMAIN s /\ \A k \in 1..2 \ {i} : movements'[k] = movements[k]
      /\ \A j \in DOMAIN s : movements'[i][j] = IF IsAlive(s[j].actor)
                                                THEN [s[j] EXCEPT !.position = updated(s[j]).position] ELSE s[j]
      /\ movements'[i] = [j \in DOMAIN s |-> movements'[i][j]]
  BY <1>2 DEF DataInv
<1>7. ASSUME NEW j \in DOMAIN s
      PROVE  /\ movements'[i][j] \in Movement /\ movements'[i][j].actor = s[j].actor
             /\ IsAlive(s[j].actor) => movements'[i][j].position = updated(s[j]).position
  BY <1>1, <1>4, <1>6 DEF Movement
<1>8. movements'[i] \in Seq(Movement) /\ Len(movements'[i]) = Len(s)
  <2>1. movements'[i] \in [DOMAIN s -> Movement]
    BY <1>6, <1>7
  <2> QED BY <1>1, <2>1, MappedSeq
<1>9. DataInv'
  <2>1. movements' \in [1..2 -> Seq(Movement)]
    BY <1>2, <1>6, <1>8 DEF DataInv
  <2>2. actor' = [a \in Actors |-> actor'[a]]
    BY <1>2
  <2>3. actor' \in [Actors -> ActorState]
    BY <1>5, <2>2
  <2> QED BY <2>1, <2>3 DEF DataInv
<1>10. BufferInv'
  <2>1. \A k \in 1..2 : movements'[k] # <<>> => k = i \/ movements[k] # <<>>
    BY <1>6
  <2> QED BY <1>8, <2>1 DEF BufferInv, IsPending, Filled, NextBuffer
<1>11. PlaceInv'
  <2> SUFFICES ASSUME NEW a \in mActors
               PROVE  /\ IsPlaced(actor'[a], teleports[a], moves[a])
                      /\ \A j \in DOMAIN movements'[i] : movements'[i][j].actor = a =>
                           movements'[i][j].position = Place(teleports[a], moves[a])
    BY DEF PlaceInv
  <2>1. a \in Actors /\ IsAlive(a)
    BY DEF DataInv, IsAlive
  <2>2. ASSUME NEW j \in DOMAIN movements'[i], movements'[i][j].actor = a
        PROVE  movements'[i][j].position = Place(teleports[a], moves[a])
    BY <1>4, <1>6, <1>7, <2>1, <2>2
  <2> QED BY <1>5, <2>1, <2>2
<1> QED BY <1>9, <1>10, <1>11

(* What leaves buffers and places alone, even if it removes actors.        *)
LEMMA StillData ==
    ASSUME DataInv, BufferInv, PlaceInv, mActors' \subseteq mActors,
           mCollisionObjects' \subseteq mCollisionObjects, IsPending' <=> IsPending,
           UNCHANGED <<movements, mSimulations, mSimulationsCounter, mNumJobs, actor, world, teleports, moves>>
    PROVE  DataInv' /\ BufferInv' /\ PlaceInv'
<1>1. DataInv'
  BY DEF DataInv
<1>2. BufferInv'
  BY DEF BufferInv, Filled, NextBuffer
<1>3. PlaceInv'
  BY DEF PlaceInv
<1> QED BY <1>1, <1>2, <1>3

(* What the game does to one actor.                                        *)
LEMMA GameData ==
    ASSUME ControlInv, DataInv, BufferInv, PlaceInv, NEW a \in Actors, Teleport(a) \/ MoveObjectBy(a)
    PROVE  DataInv' /\ BufferInv' /\ PlaceInv'
<1>1. /\ UNCHANGED <<movements, mSimulations, mSimulationsCounter, mNumJobs, main, mActors, mCollisionObjects>>
      /\ \A b \in Actors \ {a} : /\ actor'[b] = actor[b] /\ world'[b] = world[b]
                                 /\ teleports'[b] = teleports[b] /\ moves'[b] = moves[b]
  BY DEF Teleport, MoveObjectBy, DataInv, workVars, stepVars, bufferVars, bodyVars
<1>2. actor[a] \in ActorState /\ world[a] \in Spots /\ teleports[a] \in Nat /\ moves[a] \in Nat
  BY DEF DataInv
<1>3. /\ actor' \in [Actors -> ActorState] /\ world' \in [Actors -> Spots]
      /\ teleports' \in [Actors -> Nat] /\ moves' \in [Actors -> Nat]
      /\ actor'[a].skip \/ actor'[a].offset # 0
      /\ a \in mActors => world'[a].base = teleports'[a] /\ IsPlaced(actor'[a], teleports'[a], moves'[a])
  <2>1. CASE Teleport(a)
    <3> DEFINE p == Place(teleports[a] + 1, 0)
    <3>1. p \in Spots /\ p.base = teleports[a] + 1 /\ p.moves = 0
      BY <1>2 DEF Place, Spots
    <3>2. /\ world' = [world EXCEPT ![a] = p] /\ actor' = [actor EXCEPT ![a] = TakenFromWorld(p)]
          /\ teleports' = [teleports EXCEPT ![a] = @ + 1] /\ moves' = [moves EXCEPT ![a] = 0]
      BY <2>1 DEF Teleport
    <3> HIDE DEF p
    <3>3. TakenFromWorld(p) \in ActorState
      BY <3>1 DEF TakenFromWorld, ActorState
    <3>4. /\ actor'[a] = TakenFromWorld(p) /\ world'[a] = p /\ teleports'[a] = teleports[a] + 1 /\ moves'[a] = 0
          /\ actor' \in [Actors -> ActorState] /\ world' \in [Actors -> Spots]
          /\ teleports' \in [Actors -> Nat] /\ moves' \in [Actors -> Nat]
      BY <1>2, <3>1, <3>2, <3>3 DEF DataInv
    <3>5. IsPlaced(TakenFromWorld(p), teleports[a] + 1, 0)
      BY <3>1, PlacedFields DEF TakenFromWorld
    <3> QED BY <3>1, <3>4, <3>5 DEF TakenFromWorld
  <2>2. CASE MoveObjectBy(a)
    <3>1. /\ actor' = [actor EXCEPT ![a].offset = @ + 1] /\ world' = [world EXCEPT ![a] = Displaced(@, 1)]
          /\ moves' = [moves EXCEPT ![a] = @ + 1] /\ teleports' = teleports
      BY <2>2 DEF MoveObjectBy
    <3>2. Displaced(world[a], 1) \in Spots /\ Displaced(world[a], 1).base = world[a].base
      BY <1>2 DEF Displaced, Spots
    <3>3. /\ actor'[a] = [actor[a] EXCEPT !.offset = @ + 1] /\ world'[a] = Displaced(world[a], 1)
          /\ moves'[a] = moves[a] + 1
          /\ world' \in [Actors -> Spots] /\ moves' \in [Actors -> Nat] /\ teleports' \in [Actors -> Nat]
      BY <1>2, <3>1, <3>2 DEF DataInv
    <3>4. /\ actor'[a] \in ActorState /\ actor'[a].offset = actor[a].offset + 1 /\ actor[a].offset \in Nat
          /\ actor'[a].position = actor[a].position /\ actor'[a].previous = actor[a].previous
          /\ actor'[a].simulation = actor[a].simulation
          /\ actor[a].position.moves \in Nat /\ actor[a].previous.moves \in Nat /\ actor[a].simulation.moves \in Nat
      BY <1>2, <3>3 DEF ActorState, Spots
    <3>5. actor' \in [Actors -> ActorState]
      BY <1>2, <3>1, <3>3, <3>4 DEF DataInv
    <3>6. a \in mActors => IsPlaced(actor'[a], teleports'[a], moves'[a])
      <4> SUFFICES ASSUME a \in mActors PROVE IsPlaced(actor'[a], teleports'[a], moves'[a])
        OBVIOUS
      <4>1. IsPlaced(actor[a], teleports[a], moves[a])
        BY DEF PlaceInv
      <4>2. /\ actor[a].position.base = teleports[a] /\ actor[a].position.moves = moves[a] - actor[a].offset
            /\ actor[a].previous.base = teleports[a] /\ actor[a].previous.moves = moves[a] - actor[a].offset
            /\ actor[a].simulation.base = teleports[a] /\ actor[a].simulation.moves = moves[a] - actor[a].offset
        BY <4>1, PlacedFields
      <4>3. moves'[a] - actor'[a].offset = moves[a] - actor[a].offset
        BY <1>2, <3>3, <3>4
      <4>4. teleports'[a] = teleports[a]
        BY <3>1
      <4> QED BY <3>4, <4>2, <4>3, <4>4, PlacedFields
    <3> QED BY <3>1, <3>2, <3>3, <3>4, <3>5, <3>6 DEF PlaceInv
  <2> QED BY <2>1, <2>2
<1>4. DataInv'
  BY <1>1, <1>3 DEF DataInv
<1>5. BufferInv'
  BY <1>1 DEF BufferInv, IsPending, Filled, NextBuffer
<1>6. PlaceInv'
  <2> SUFFICES ASSUME NEW b \in mActors
               PROVE  /\ world'[b].base = teleports'[b]
                      /\ IsPlaced(actor'[b], teleports'[b], moves'[b])
                      /\ mSimulations # 0 /\ ~actor'[b].skip /\ actor'[b].offset = 0 =>
                           \A j \in DOMAIN movements[mSimulations] :
                               movements[mSimulations][j].actor = b =>
                                   movements[mSimulations][j].position = Place(teleports'[b], moves'[b])
    BY <1>1 DEF PlaceInv
  <2>1. CASE b = a
    BY <1>3, <2>1
  <2>2. CASE b # a
    BY <1>1, <2>2 DEF PlaceInv, DataInv
  <2> QED BY <2>1, <2>2
<1> QED BY <1>4, <1>5, <1>6

(* A buffer is filled: it was empty, and nothing is said of the positions  *)
(* in it before the frame begins.                                          *)
LEMMA FillData ==
    ASSUME ControlInv, DataInv, BufferInv, PlaceInv, StepSimulation
    PROVE  DataInv' /\ BufferInv' /\ PlaceInv'
<1>1. /\ main.pc = "idle" /\ ~IsPending
      /\ UNCHANGED <<mSimulations, mNumJobs, actor, world, teleports, moves, mActors, mCollisionObjects>>
  BY DEF StepSimulation, IsPending, stepVars, actorVars, bodyVars, placeVars
<1>2. CASE main'.call = "reset"
  <2>1. UNCHANGED <<movements, mSimulationsCounter>> /\ ~IsPending'
    BY <1>2 DEF StepSimulation, IsPending
  <2> QED BY <1>1, <2>1, StillData
<1>3. CASE main'.call # "reset"
  <2>1. PICK active \in SUBSET mActors : \E order \in Orders(active) : movements' = Prepared(Filled, order)
    BY <1>3 DEF StepSimulation
  <2>2. PICK order \in Orders(active) : movements' = Prepared(Filled, order)
    BY <2>1
  <2>3. mSimulationsCounter' = (mSimulationsCounter + 1) % 2 /\ main' = [pc |-> "wait", call |-> "apply"]
    BY <1>3 DEF StepSimulation
  <2>4. /\ IsPending' /\ NextBuffer' = Filled /\ Filled' = NextBuffer
    <3>1. mSimulationsCounter \in {0, 1}
      BY DEF ControlInv
    <3> QED BY <2>3, <3>1 DEF IsPending, NextBuffer, Filled
  <2>5. order \in Seq(Actors)
    <3>1. Cardinality(active) \in Nat /\ active \subseteq Actors
      BY PhysicsAssumption, FS_Subset, FS_CardinalityType DEF DataInv
    <3> QED BY <3>1 DEF Orders
  <2> DEFINE new == [j \in DOMAIN order |-> [actor |-> order[j], position |-> actor[order[j]].position]]
  <2>6. new \in Seq(Movement)
    <3>1. ASSUME NEW j \in DOMAIN order
          PROVE  [actor |-> order[j], position |-> actor[order[j]].position] \in Movement
      <4>1. order[j] \in Actors
        BY <2>5
      <4>2. actor[order[j]].position \in Spots
        BY <4>1 DEF DataInv, ActorState
      <4> QED BY <4>1, <4>2 DEF Movement
    <3>2. new \in [DOMAIN order -> Movement]
      BY <3>1
    <3> HIDE DEF new
    <3> QED BY <2>5, <3>2, MappedSeq
  <2>7. /\ Filled \in 1..2 /\ NextBuffer \in 1..2 /\ Filled # NextBuffer
        /\ \A i \in 1..2 : i = NextBuffer \/ i = Filled
    BY BufferFacts
  <2>8. mSimulations \in {0, NextBuffer} /\ movements[Filled] = <<>>
    BY <1>1, <2>7 DEF BufferInv
  <2>9. movements' = [movements EXCEPT ![Filled] = movements[Filled] \o new]
    BY <2>2, <2>7 DEF Prepared, DataInv
  <2> HIDE DEF new
  <2>10. movements' = [movements EXCEPT ![Filled] = new] /\ movements' \in [1..2 -> Seq(Movement)]
    BY <2>6, <2>7, <2>8, <2>9 DEF DataInv
  <2>11. \A i \in 1..2 \ {Filled} : movements'[i] = movements[i]
    BY <2>10 DEF DataInv
  <2>12. DataInv'
    BY <1>1, <2>10 DEF DataInv
  <2>13. BufferInv'
    BY <1>1, <2>4, <2>7, <2>8, <2>11 DEF BufferInv
  <2>14. PlaceInv'
    BY <1>1, <2>7, <2>8, <2>11 DEF PlaceInv
  <2> QED BY <2>12, <2>13, <2>14
<1> QED BY <1>2, <1>3

(* A frame is dropped or, without threads, over.                           *)
LEMMA EmptiedData ==
    ASSUME ControlInv, DataInv, BufferInv, PlaceInv,
           mSimulations' = 0, mSimulations = 0 => UNCHANGED movements,
           mSimulations # 0 => movements' = [movements EXCEPT ![mSimulations] = <<>>],
           ~IsPending, ~IsPending', UNCHANGED <<mSimulationsCounter, mActors, mCollisionObjects, teleports>>,
           world' = world, moves' \in [Actors -> Nat], actor' \in [Actors -> ActorState],
           \A a \in mActors : IsPlaced(actor'[a], teleports[a], moves'[a])
    PROVE  DataInv' /\ BufferInv' /\ PlaceInv'
<1>1. movements' \in [1..2 -> Seq(Movement)]
  <2>1. <<>> \in Seq(Movement)
    OBVIOUS
  <2> QED BY <2>1 DEF DataInv
<1>2. \A i \in 1..2 : movements'[i] = <<>>
  BY DEF BufferInv, DataInv, ControlInv
<1>3. DataInv'
  BY <1>1 DEF DataInv
<1>4. BufferInv'
  BY <1>2 DEF BufferInv
<1>5. PlaceInv'
  BY DEF PlaceInv
<1> QED BY <1>3, <1>4, <1>5

LEMMA MainData ==
    ASSUME PhaseInv, DataInv, BufferInv, PlaceInv, Game \/ MainStep \/ UNCHANGED stateVars
    PROVE  DataInv' /\ BufferInv' /\ PlaceInv'
<1> USE DEF PhaseInv
<1>0. main \in [pc : MainPcs, call : Calls] /\ mSimulations \in 0..2
  BY DEF ControlInv
<1>1. CASE Game
  <2>1. ASSUME NEW a \in Actors, Teleport(a) \/ MoveObjectBy(a) PROVE DataInv' /\ BufferInv' /\ PlaceInv'
    BY <2>1, GameData
  <2>2. ASSUME NEW a \in Actors, RemoveActor(a) PROVE DataInv' /\ BufferInv' /\ PlaceInv'
    BY <2>2, StillData DEF RemoveActor, workVars, stepVars, bufferVars, placeVars, IsPending
  <2>3. CASE StepSimulation
    BY <2>3, FillData
  <2>4. CASE Destroy
    <3>1. UNCHANGED <<workVars, actorVars>> /\ ~IsPending /\ ~IsPending'
      BY <2>4 DEF Destroy, IsPending
    <3> QED BY <3>1, StillData DEF workVars, stepVars, bufferVars, actorVars, bodyVars, placeVars
  <2> QED BY <1>1, <2>1, <2>2, <2>3, <2>4 DEF Game
<1>2. CASE UNCHANGED stateVars
  BY <1>2, StillData DEF stateVars, workVars, stepVars, bufferVars, actorVars, bodyVars, placeVars, IsPending
<1>3. CASE MainStep
  <2>1. CASE WaitForWorkers \/ WakeSpuriously \/ WakeUpWorkers \/ StopWorkers \/ Join
    <3>1. UNCHANGED <<workVars, bodyVars, placeVars>>
      BY <2>1 DEF WaitForWorkers, WakeSpuriously, WakeUpWorkers, StopWorkers, Join, actorVars
    <3>2. IsPending' <=> IsPending
      BY <1>0, <2>1 DEF WaitForWorkers, WakeSpuriously, WakeUpWorkers, StopWorkers, Join, IsPending, MainGoto
    <3> QED BY <3>1, <3>2, StillData DEF workVars, stepVars, bufferVars, bodyVars, placeVars
  <2>2. CASE ClearActors
    <3>1. /\ mActors' \subseteq mActors /\ mCollisionObjects' \subseteq mCollisionObjects
          /\ UNCHANGED <<workVars, placeVars>> /\ ~IsPending /\ ~IsPending'
      BY <2>2 DEF ClearActors, IsPending
    <3> QED BY <3>1, StillData DEF workVars, stepVars, bufferVars, placeVars
  <2>3. CASE ZeroWork
    <3>1. /\ UNCHANGED <<bufferVars, actorVars>> /\ mSimulations = 0 /\ ~IsPending /\ ~IsPending'
          /\ mNumJobs' = 0
      BY <1>0, <2>3 DEF ZeroWork, TakeLock, StopInv, IsPending, MainGoto
    <3>2. UNCHANGED movements
      BY <3>1 DEF bufferVars
    <3> QED BY <3>1, <3>2, EmptiedData DEF bufferVars, actorVars, bodyVars, placeVars, DataInv, PlaceInv
  <2>4. CASE MoveActors
    <3>1. /\ world' = [a \in Actors |-> IF a \in mActors THEN actor[a].simulation ELSE world[a]]
          /\ UNCHANGED <<movements, mSimulations, mSimulationsCounter, mNumJobs, actor, teleports, moves,
                         mActors, mCollisionObjects>>
          /\ ~IsPending /\ ~IsPending'
      BY <1>0, <2>4 DEF MoveActors, workVars, stepVars, bufferVars, bodyVars, IsPending, MainGoto
    <3>2. ASSUME NEW a \in Actors PROVE world[a] \in Spots /\ actor[a].simulation \in Spots
      BY DEF DataInv, ActorState
    <3>3. DataInv'
      BY <3>1, <3>2 DEF DataInv
    <3>4. BufferInv'
      BY <3>1 DEF BufferInv, IsPending, Filled, NextBuffer
    <3>5. \A a \in mActors : world'[a].base = teleports[a]
      <4> SUFFICES ASSUME NEW a \in mActors PROVE world'[a].base = teleports[a]
        OBVIOUS
      <4>1. a \in Actors /\ IsPlaced(actor[a], teleports[a], moves[a])
        BY DEF DataInv, PlaceInv
      <4> QED BY <3>1, <4>1, PlacedFields
    <3>6. PlaceInv'
      BY <3>1, <3>5 DEF PlaceInv
    <3> QED BY <3>3, <3>4, <3>6
  <2>5. CASE PrepareWork
    BY <2>5, PrepareData
  <2>6. CASE SyncInline
    <3>1. PICK shown \in [mActors -> {"position", "previous"}] :
            actor' = [a \in Actors |-> IF a \in Simulated(mSimulations) \cap mActors
                                       THEN Synced(actor[a], actor[a][shown[a]]) ELSE actor[a]]
      BY <2>6 DEF SyncInline
    <3>2. /\ movements' = [movements EXCEPT ![mSimulations] = <<>>] /\ mSimulations' = 0
          /\ UNCHANGED <<mSimulationsCounter, world, teleports, moves, mActors, mCollisionObjects>>
          /\ ~IsPending /\ ~IsPending' /\ mSimulations # 0
      BY <1>0, <2>6 DEF SyncInline, bodyVars, IsPending, MainGoto, InlineInv
    <3>3. ASSUME NEW a \in Actors
          PROVE  /\ actor'[a] \in ActorState
                 /\ a \in mActors => IsPlaced(actor'[a], teleports[a], moves'[a])
      <4>1. /\ actor[a] \in ActorState /\ teleports[a] \in Nat /\ moves[a] \in Nat
            /\ a \in mActors => IsPlaced(actor[a], teleports[a], moves[a])
        BY DEF DataInv, PlaceInv
      <4>2. CASE a \in Simulated(mSimulations) \cap mActors
        <5>1. actor'[a] = Synced(actor[a], actor[a][shown[a]]) /\ shown[a] \in {"position", "previous"}
          BY <3>1, <4>2
        <5> QED BY <3>2, <4>1, <5>1, SyncedFacts
      <4>3. CASE a \notin Simulated(mSimulations) \cap mActors
        BY <3>1, <3>2, <4>1, <4>3
      <4> QED BY <4>2, <4>3
    <3>4. actor' = [a \in Actors |-> actor'[a]]
      BY <3>1
    <3>5. actor' \in [Actors -> ActorState] /\ moves' \in [Actors -> Nat]
      BY <3>2, <3>3, <3>4 DEF DataInv
    <3>6. \A a \in mActors : IsPlaced(actor'[a], teleports[a], moves'[a])
      BY <3>3 DEF DataInv
    <3> QED BY <3>2, <3>5, <3>6, EmptiedData
  <2>7. CASE ResetSimulation \/ ReleaseSharedStates
    <3>1. /\ movements' = [i \in 1..2 |-> IF i = mSimulations THEN <<>> ELSE movements[i]]
          /\ mSimulations' = 0 /\ ~IsPending /\ ~IsPending'
          /\ UNCHANGED <<mSimulationsCounter, world, teleports, mActors, mCollisionObjects>>
      BY <1>0, <2>7 DEF ResetSimulation, ReleaseSharedStates, MovementsCleared, TakeLock, IsPending, MainGoto,
         actorVars, bodyVars, placeVars
    <3>2. /\ mSimulations = 0 => UNCHANGED movements
          /\ mSimulations # 0 => movements' = [movements EXCEPT ![mSimulations] = <<>>]
      <4>1. movements = [i \in 1..2 |-> movements[i]] /\ (mSimulations = 0 <=> mSimulations \notin 1..2)
        BY <1>0 DEF DataInv
      <4>2. mSimulations = 0 => UNCHANGED movements
        BY <3>1, <4>1
      <4>3. mSimulations # 0 => movements' = [movements EXCEPT ![mSimulations] = <<>>]
        BY <3>1, <4>1
      <4> QED BY <4>2, <4>3
    <3>3. /\ moves' \in [Actors -> Nat] /\ actor' \in [Actors -> ActorState]
          /\ \A a \in mActors : IsPlaced(actor'[a], teleports[a], moves'[a])
      <4>1. CASE ReleaseSharedStates
        BY <4>1 DEF ReleaseSharedStates, actorVars, placeVars, DataInv, PlaceInv
      <4>2. CASE ResetSimulation
        <5>1. /\ actor' = [a \in Actors |-> IF a \in mActors THEN TakenFromWorld(world[a]) ELSE actor[a]]
              /\ moves' = [a \in Actors |-> IF a \in mActors THEN world[a].moves ELSE moves[a]]
          BY <4>2 DEF ResetSimulation
        <5>2. ASSUME NEW a \in Actors
              PROVE  /\ TakenFromWorld(world[a]) \in ActorState /\ world[a].moves \in Nat
                     /\ IsPlaced(TakenFromWorld(world[a]), world[a].base, world[a].moves)
          <6>1. world[a] \in Spots
            BY DEF DataInv
          <6>2. world[a].moves \in Nat /\ world[a].moves - 0 = world[a].moves
            BY <6>1 DEF Spots
          <6> QED BY <6>1, <6>2, PlacedFields DEF TakenFromWorld, ActorState
        <5>3. actor' \in [Actors -> ActorState] /\ moves' \in [Actors -> Nat]
          BY <5>1, <5>2 DEF DataInv
        <5>4. \A a \in mActors : IsPlaced(actor'[a], teleports[a], moves'[a])
          BY <5>1, <5>2 DEF DataInv, PlaceInv
        <5> QED BY <5>3, <5>4
      <4> QED BY <2>7, <4>1, <4>2
    <3> QED BY <3>1, <3>2, <3>3, EmptiedData
  <2> QED BY <1>3, <2>1, <2>2, <2>3, <2>4, <2>5, <2>6, <2>7 DEF MainStep
<1> QED BY <1>1, <1>2, <1>3

LEMMA RunnerData ==
    ASSUME PhaseInv, DataInv, BufferInv, PlaceInv, NEW t \in Threads \cup {Main}, RunnerMoves(t)
    PROVE  DataInv' /\ BufferInv' /\ PlaceInv'
<1>1. CASE AwayStep(t)
  <2>1. /\ UNCHANGED <<movements, mSimulations, mSimulationsCounter, mNumJobs, main>>
    BY <1>1, AwayFacts
  <2>2. /\ UNCHANGED <<actor, world, teleports, moves>> /\ mActors' \subseteq mActors
        /\ mCollisionObjects' \subseteq mCollisionObjects
    BY <1>1 DEF AwayStep, RunWorker, Wake, Enter, FetchJob, Move, Drop, DestroyActor, actorVars, bodyVars, placeVars
  <2> QED BY <2>1, <2>2, StillData DEF IsPending
<1>2. CASE BeginStep(t) \/ EndFrame(t) \/ Pass(t)
  <2>1. /\ UNCHANGED <<movements, mSimulations, mSimulationsCounter, mNumJobs, actorVars>>
        /\ main' = main \/ (main.pc = "asleep" /\ main' = [main EXCEPT !.pc = "lock"])
    BY <1>2 DEF BeginStep, EndFrame, Pass, workVars, stepVars, bufferVars
  <2>2. IsPending' <=> IsPending
    BY <2>1 DEF IsPending, PhaseInv, ControlInv
  <2> QED BY <2>1, <2>2, StillData DEF actorVars, bodyVars, placeVars
<1>3. CASE EndStep(t)
  <2>1. /\ UNCHANGED <<mSimulations, mSimulationsCounter, mNumJobs, main, mActors, mCollisionObjects,
                       world, teleports, moves>>
        /\ PositionsUpdated \/ UNCHANGED <<movements, actor>>
    BY <1>3 DEF EndStep, bodyVars
  <2>2. mSimulations \in 1..2
    <3>1. t \in Runners /\ InStep(t)
      BY <1>3 DEF EndStep, Inside, InStep, IsAt
    <3> QED BY <3>1, InStepFacts
  <2> QED BY <2>1, <2>2, UpdateData, StillData DEF PhaseInv, IsPending
<1> QED BY <1>1, <1>2, <1>3 DEF RunnerMoves

-----------------------------------------------------------------------------
(* Jobs                                                                    *)

LEMMA JobsKept ==
    ASSUME JobsInv, UNCHANGED <<threads, mNumJobs, mNextJob, moved>>,
           \A u \in Runners : /\ IsAt(u, "move")' <=> IsAt(u, "move")
                              /\ IsAt(u, "move") => runner'[u].job = runner[u].job
                              /\ InStep(u)' => InStep(u)
    PROVE  JobsInv'
<1>1. Runners' = Runners
  BY DEF Runners
<1>2. \A j : Movers(j)' = Movers(j)
  BY <1>1 DEF Movers
<1> QED BY <1>1, <1>2 DEF JobsInv

LEMMA NoStepNoJobs ==
    ASSUME \A u \in Runners' : ~InStep(u)'
    PROVE  JobsInv'
<1>1. \A u \in Runners' : ~IsAt(u, "move")'
  BY DEF InStep, IsAt
<1> QED BY <1>1 DEF JobsInv

LEMMA JobsStep ==
    ASSUME PhaseInv, DataInv, BufferInv, JobsInv, [Next]_vars
    PROVE  JobsInv'
<1>1. CASE Game \/ MainStep \/ UNCHANGED stateVars
  <2>1. CASE PrepareWork \/ ZeroWork
    <3>1. (TakeLock("apply") \/ TakeLock("destroy")) /\ UNCHANGED <<threads, barrier>>
      BY <1>1, <2>1, PrepareFacts, MainFacts DEF ZeroWork, PhaseInv
    <3>2. \A u \in Runners : ~InStep(u)
      BY <3>1, LockFacts
    <3>3. \A u \in Runners : ~InStep(u)'
      <4>1. CASE runner' = runner
        BY <3>1, <3>2, <4>1 DEF InStep, Released, IsAt
      <4>2. CASE threads = {} /\ Goto(Main, "steps")
        <5>1. runner'[Main].pc = "steps" /\ Runners = {Main}
          BY <4>2, GotoFacts DEF PhaseInv, RunnerPcs, SimulationPcs, Runners
        <5> QED BY <5>1 DEF InStep, Released, IsAt
      <4> QED BY <1>1, <4>1, <4>2, MainFacts DEF PhaseInv
    <3> QED BY <3>1, <3>3, NoStepNoJobs DEF Runners
  <2>2. CASE ~PrepareWork /\ ~ZeroWork
    <3>1. UNCHANGED <<stepVars, threads, barrier, runner>>
      BY <1>1, <2>2, MainFacts, GameFacts DEF MainStep, syncAndRunners, WaitForWorkers, WakeSpuriously, SyncInline, WakeUpWorkers,
         MoveActors, ResetSimulation, ReleaseSharedStates, MovementsCleared, ClearActors, StopWorkers, Join,
         stateVars, workVars, PhaseInv
    <3>2. UNCHANGED <<mNumJobs, mNextJob, moved>>
      BY <3>1 DEF stepVars
    <3> QED BY <3>1, <3>2, JobsKept DEF InStep, Released, IsAt
  <2> QED BY <2>1, <2>2
<1>2. ASSUME NEW t \in Threads \cup {Main}, RunnerMoves(t) PROVE JobsInv'
  <2>0. Runners \subseteq Threads \cup {Main}
    BY ThreadFacts DEF PhaseInv
  <2>1. CASE AwayStep(t)
    <3>1. /\ t \in Runners /\ UNCHANGED <<threads, barrier, mNumJobs, main>> /\ Runners' = Runners
          /\ \A u \in Runners \ {t} : runner'[u] = runner[u]
          /\ (InStep(t)' <=> InStep(t)) /\ (~InStep(t) => UNCHANGED <<mNextJob, moved>>)
      BY <2>0, <2>1, AwayFacts DEF Runners
    <3>2. \A u \in Runners : InStep(u)' <=> InStep(u)
      BY <3>1 DEF InStep, Released, IsAt
    <3>3. CASE FetchJob(t)
      <4> DEFINE a == movements[mSimulations][mNextJob + 1].actor
      <4>0. PICK k : k = mNextJob + 1
        OBVIOUS
      <4>1. /\ InStep(t) /\ k \in 1..mNumJobs /\ mNextJob \in Nat /\ mNextJob' = k
            /\ IF IsAlive(a) THEN runner'[t].pc = "move" /\ runner'[t].job = k /\ moved' = moved
               ELSE runner' = runner /\ moved' = [moved EXCEPT ![k] = @ + 1]
            /\ ~IsAt(t, "move")
        BY <3>1, <3>3, <4>0, FetchFacts DEF FetchJob, PhaseInv, ControlInv, IsAt
      <4> HIDE DEF a
      <4>2. /\ moved \in [1..mNumJobs -> Nat] /\ Movers(k) = {}
            /\ \A j \in 1..mNumJobs : moved[j] = IF j <= mNextJob /\ Movers(j) = {} THEN 1 ELSE 0
        <5>1. \A u \in Runners : IsAt(u, "move") => runner[u].job <= mNextJob /\ runner[u].job \in 1..mNumJobs
          BY DEF JobsInv
        <5>2. ASSUME NEW u \in Runners, IsAt(u, "move"), runner[u].job = k PROVE FALSE
          BY <4>0, <4>1, <5>1, <5>2
        <5>3. Movers(k) = {}
          BY <5>2 DEF Movers
        <5> QED BY <3>1, <4>1, <5>3 DEF JobsInv
      <4>3. CASE IsAlive(a)
        <5>1. \A u \in Runners : IsAt(u, "move")' => (u = t \/ (IsAt(u, "move") /\ runner'[u].job = runner[u].job))
          BY <3>1 DEF IsAt
        <5>2. t \in Movers(k)' /\ \A j \in 1..mNumJobs \ {k} : Movers(j)' = Movers(j)
          BY <3>1, <4>1, <4>3 DEF Movers, IsAt
        <5>3. \A j \in 1..mNumJobs : moved'[j] = IF j <= k /\ Movers(j)' = {} THEN 1 ELSE 0
          <6>1. ASSUME NEW j \in 1..mNumJobs, j # k
                PROVE  moved'[j] = IF j <= k /\ Movers(j)' = {} THEN 1 ELSE 0
            BY <4>0, <4>1, <4>2, <4>3, <5>2, <6>1
          <6>2. moved'[k] = 0 /\ Movers(k)' # {}
            BY <4>0, <4>1, <4>2, <4>3, <5>2
          <6> QED BY <6>1, <6>2
        <5>4. /\ \A u \in Runners : IsAt(u, "move")' => runner'[u].job \in 1..mNumJobs /\ runner'[u].job <= k
              /\ \A u, v \in Runners : IsAt(u, "move")' /\ IsAt(v, "move")' /\ runner'[u].job = runner'[v].job => u = v
          <6>1. \A u \in Runners : IsAt(u, "move") => runner[u].job \in 1..mNumJobs /\ runner[u].job <= mNextJob
            BY DEF JobsInv
          <6>2. \A u \in Runners : IsAt(u, "move") => runner[u].job # k /\ runner[u].job <= k
            BY <4>0, <4>1, <6>1
          <6>3. runner'[t].job = k /\ k <= k
            BY <4>0, <4>1, <4>3
          <6> QED BY <3>1, <4>1, <5>1, <6>1, <6>2, <6>3 DEF JobsInv
        <5> QED BY <3>1, <4>1, <4>2, <4>3, <5>3, <5>4 DEF JobsInv
      <4>4. CASE ~IsAlive(a)
        <5>1. \A j : Movers(j)' = Movers(j)
          BY <3>1, <4>1, <4>4 DEF Movers, IsAt
        <5>2. moved' \in [1..mNumJobs -> Nat]
              /\ \A j \in 1..mNumJobs : moved'[j] = IF j = k THEN moved[k] + 1 ELSE moved[j]
          BY <4>1, <4>2, <4>4
        <5>3. \A j \in 1..mNumJobs : moved'[j] = IF j <= k /\ Movers(j)' = {} THEN 1 ELSE 0
          BY <4>0, <4>1, <4>2, <5>1, <5>2
        <5>4. /\ \A u \in Runners : IsAt(u, "move")' => runner'[u].job \in 1..mNumJobs /\ runner'[u].job <= k
              /\ \A u, v \in Runners : IsAt(u, "move")' /\ IsAt(v, "move")' /\ runner'[u].job = runner'[v].job => u = v
          BY <4>0, <4>1, <4>4 DEF JobsInv, IsAt, PhaseInv, ControlInv, RunnerType
        <5> QED BY <3>1, <4>1, <5>2, <5>3, <5>4 DEF JobsInv
      <4> QED BY <4>3, <4>4
    <3>4. CASE Move(t)
      <4>0. PICK k : k = runner[t].job
        OBVIOUS
      <4>1. /\ IsAt(t, "move") /\ InStep(t) /\ runner'[t].pc = "drop" /\ moved' = [moved EXCEPT ![k] = @ + 1]
            /\ mNextJob' = mNextJob
        BY <3>4, <4>0, GotoFacts DEF Move, InStep, IsAt, PhaseInv, RunnerPcs, SimulationPcs
      <4>2. /\ k \in 1..mNumJobs /\ k <= mNextJob /\ moved \in [1..mNumJobs -> Nat]
            /\ \A j \in 1..mNumJobs : moved[j] = IF j <= mNextJob /\ Movers(j) = {} THEN 1 ELSE 0
            /\ Movers(k) = {t}
        BY <3>1, <4>0, <4>1 DEF JobsInv, Movers
      <4>3. Movers(k)' = {} /\ \A j \in 1..mNumJobs \ {k} : Movers(j)' = Movers(j)
        BY <3>1, <4>0, <4>1, <4>2 DEF Movers, IsAt
      <4>4. moved' \in [1..mNumJobs -> Nat] /\ moved'[k] = moved[k] + 1
            /\ \A j \in 1..mNumJobs \ {k} : moved'[j] = moved[j]
        BY <4>1, <4>2
      <4>5. \A j \in 1..mNumJobs : moved'[j] = IF j <= mNextJob /\ Movers(j)' = {} THEN 1 ELSE 0
        <5>1. moved[k] = 0 /\ moved'[k] = 1 /\ Movers(k)' = {}
          BY <4>2, <4>3, <4>4
        <5>2. \A j \in 1..mNumJobs \ {k} : moved'[j] = IF j <= mNextJob /\ Movers(j)' = {} THEN 1 ELSE 0
          BY <4>2, <4>3, <4>4
        <5> QED BY <4>2, <5>1, <5>2
      <4>6. /\ \A u \in Runners : IsAt(u, "move")' => runner'[u].job \in 1..mNumJobs /\ runner'[u].job <= mNextJob
            /\ \A u, v \in Runners : IsAt(u, "move")' /\ IsAt(v, "move")' /\ runner'[u].job = runner'[v].job => u = v
        BY <3>1, <4>1 DEF JobsInv, IsAt
      <4> QED BY <3>1, <4>1, <4>4, <4>5, <4>6 DEF JobsInv
    <3>5. CASE ~FetchJob(t) /\ ~Move(t)
      <4>1. UNCHANGED <<mNextJob, moved>> /\ ~IsAt(t, "move") /\ ~IsAt(t, "move")'
        BY <2>1, <3>5, LoopFacts, GotoFacts, DroppedFacts DEF AwayStep, RunWorker, Wake, Enter, Drop, DestroyActor,
           workVars, stepVars, IsAt, PhaseInv, RunnerPcs, SimulationPcs
      <4> QED BY <3>1, <3>2, <4>1, JobsKept DEF IsAt
    <3> QED BY <3>3, <3>4, <3>5
  <2>2. CASE BeginStep(t) \/ EndFrame(t) \/ EndStep(t)
    <3>1. /\ t \in Runners /\ UNCHANGED threads /\ Runners' = Runners
          /\ \A u \in Runners \ {t} : runner'[u] = runner[u]
          /\ runner'[t].pc \in {"PreStep", "PostStep", "PostSim", "jobs", "steps", "idle"}
      BY <2>2, ArrivalPhases, ArrivalKinds DEF PhaseInv, Runners
    <3>2. CASE EndFrame(t) \/ (BeginStep(t) /\ ~IsLast("PreStep"))
      <4>1. \A u \in Runners : ~InStep(u)
        BY <3>1, <3>2, ArrivalPhases, InStepFacts
      <4>2. \A u \in Runners : ~InStep(u)'
        BY <3>2, <4>1, ArrivalPhases
      <4> QED BY <3>1, <4>2, NoStepNoJobs
    <3>3. CASE BeginStep(t) /\ IsLast("PreStep")
      <4>1. (\A u \in Runners : ~InStep(u)) /\ \A u \in Runners : ~IsAt(u, "move")
        BY <3>1, <3>3, ArrivalPhases, InStepFacts DEF InStep, IsAt
      <4>2. /\ mNextJob = 0 /\ UNCHANGED <<mNextJob, mNumJobs>> /\ moved' = [j \in 1..mNumJobs |-> 0]
        BY <3>3, <4>1 DEF BeginStep, PhaseInv, StepInv
      <4>3. \A u \in Runners : ~IsAt(u, "move")'
        BY <3>1, <4>1 DEF IsAt
      <4> QED BY <3>1, <4>2, <4>3 DEF JobsInv
    <3>4. CASE EndStep(t)
      <4>1. CASE IsLast("PostStep")
        BY <3>1, <3>4, <4>1, ArrivalPhases, NoStepNoJobs
      <4>2. CASE ~IsLast("PostStep")
        <5>1. /\ mNextJob' = mNextJob + 1 /\ UNCHANGED <<mNumJobs, moved>> /\ mNextJob >= mNumJobs
              /\ ~IsAt(t, "move") /\ mNextJob \in Nat /\ mNumJobs \in Nat
              /\ \A u \in Runners : InStep(u)' <=> InStep(u)
          BY <3>4, <4>2, ArrivalPhases DEF EndStep, IsAt, PhaseInv, ControlInv
        <5>2. \A u \in Runners : (IsAt(u, "move")' <=> IsAt(u, "move")) /\ (IsAt(u, "move") => runner'[u] = runner[u])
          BY <3>1, <5>1 DEF IsAt
        <5>3. \A j : Movers(j)' = Movers(j)
          BY <3>1, <5>2 DEF Movers
        <5>4. \A j \in 1..mNumJobs : j <= mNextJob /\ j <= mNextJob'
          BY <5>1
        <5>5. \A u \in Runners : IsAt(u, "move")' => runner'[u].job \in 1..mNumJobs /\ runner'[u].job <= mNextJob'
          BY <5>1, <5>2, <5>4 DEF JobsInv
        <5>6. \A u, v \in Runners : IsAt(u, "move")' /\ IsAt(v, "move")' /\ runner'[u].job = runner'[v].job => u = v
          BY <5>2 DEF JobsInv
        <5> QED BY <3>1, <5>1, <5>3, <5>4, <5>5, <5>6 DEF JobsInv
      <4> QED BY <4>1, <4>2
    <3> QED BY <2>2, <3>2, <3>3, <3>4
  <2>3. CASE Pass(t)
    <3>1. /\ UNCHANGED <<threads, mNumJobs, mNextJob, moved>> /\ ~IsAt(t, "move") /\ ~IsAt(t, "move")'
          /\ \A u \in Runners \ {t} : runner'[u] = runner[u]
          /\ \A u \in Runners : InStep(u)' <=> InStep(u)
      BY <2>0, <2>3, PassPhases DEF Pass, syncVars, workVars, stepVars, IsAt, Barriers
    <3> QED BY <3>1, JobsKept DEF IsAt
  <2> QED BY <1>2, <2>1, <2>2, <2>3 DEF RunnerMoves
<1> QED BY <1>1, <1>2, StepKinds

-----------------------------------------------------------------------------
(* Who holds an actor                                                      *)

Holding == {"move", "drop", "destroy"}

LEMMA HeldKept ==
    ASSUME HeldInv, UNCHANGED <<threads, bodyVars>>,
           \A u \in Runners : /\ runner'[u].held = runner[u].held
                              /\ runner'[u].pc \in Holding <=> runner[u].pc \in Holding
                              /\ IsAt(u, "destroy")' <=> IsAt(u, "destroy")
    PROVE  HeldInv'
<1>1. Runners' = Runners /\ mActors' = mActors /\ mCollisionObjects' = mCollisionObjects
  BY DEF Runners, bodyVars
<1>2. \A a : References(a)' = References(a)
  BY <1>1 DEF References
<1>3. \A a : IsAlive(a)' <=> IsAlive(a)
  BY <1>1, <1>2 DEF IsAlive
<1>4. ASSUME NEW a \in Actors, NEW u \in Runners, IsAt(u, "destroy")', runner'[u].held = a
      PROVE  ~IsAlive(a)'
  BY <1>3, <1>4 DEF HeldInv
<1>5. WorldHoldsLivingActors'
  BY <1>1 DEF HeldInv, WorldHoldsLivingActors
<1>6. \A u \in Runners : runner'[u].held # NoActor <=> runner'[u].pc \in {"move", "drop", "destroy"}
  BY DEF HeldInv, Holding
<1>7. \A t, u \in Runners : IsAt(t, "destroy")' /\ IsAt(u, "destroy")' /\ runner'[t].held = runner'[u].held => t = u
  BY DEF HeldInv
<1> QED BY <1>1, <1>4, <1>5, <1>6, <1>7 DEF HeldInv

(* An actor leaves the game at once, and the world with its last reference.*)
LEMMA BodyRemoved ==
    ASSUME HeldInv, NEW gone \in SUBSET mActors, UNCHANGED <<threads, runner>>,
           mActors' = mActors \ gone,
           mCollisionObjects' = mCollisionObjects \ {a \in gone : References(a) = {}}
    PROVE  HeldInv'
<1>1. Runners' = Runners /\ \A a : References(a)' = References(a)
  BY DEF Runners, References, IsAt
<1>2. \A a : IsAlive(a)' => IsAlive(a)
  BY <1>1 DEF IsAlive
<1>3. ASSUME NEW a \in Actors
      PROVE  a \in mCollisionObjects' <=> (a \in mActors' \/ \E t \in Runners : runner[t].held = a)
  <2>1. a \in mCollisionObjects <=> (a \in mActors \/ \E t \in Runners : runner[t].held = a)
    BY DEF HeldInv, WorldHoldsLivingActors
  <2>2. a \in mActors => (References(a) # {} <=> \E t \in Runners : runner[t].held = a)
    BY DEF HeldInv, References, IsAlive, IsAt
  <2> QED BY <2>1, <2>2
<1>4. WorldHoldsLivingActors'
  BY <1>1, <1>3 DEF WorldHoldsLivingActors
<1>5. ASSUME NEW a \in Actors, NEW u \in Runners, IsAt(u, "destroy")', runner'[u].held = a
      PROVE  ~IsAlive(a)'
  <2>1. IsAt(u, "destroy") /\ runner[u].held = a
    BY <1>5 DEF IsAt
  <2> QED BY <1>2, <2>1 DEF HeldInv
<1>6. \A u, v \in Runners : IsAt(u, "destroy")' /\ IsAt(v, "destroy")' /\ runner'[u].held = runner'[v].held => u = v
  BY DEF HeldInv, IsAt
<1>7. \A u \in Runners : runner'[u].held # NoActor <=> runner'[u].pc \in {"move", "drop", "destroy"}
  BY DEF HeldInv
<1> QED BY <1>1, <1>4, <1>5, <1>6, <1>7 DEF HeldInv

LEMMA HeldStep ==
    ASSUME PhaseInv, DataInv, BufferInv, HeldInv, [Next]_vars
    PROVE  HeldInv'
<1>1. CASE Game \/ MainStep \/ UNCHANGED stateVars
  <2>1. CASE \E a \in Actors : RemoveActor(a)
    <3>1. PICK a \in Actors : RemoveActor(a)
      BY <2>1
    <3>2. /\ {a} \in SUBSET mActors /\ UNCHANGED <<threads, runner>> /\ mActors' = mActors \ {a}
          /\ mCollisionObjects' = mCollisionObjects \ {b \in {a} : References(b) = {}}
      BY <3>1 DEF RemoveActor, syncVars
    <3> QED BY <3>2, BodyRemoved
  <2>2. CASE ClearActors
    <3>1. /\ mActors' = mActors \ mActors /\ UNCHANGED <<threads, runner>>
          /\ mCollisionObjects' = mCollisionObjects \ {b \in mActors : References(b) = {}}
      BY <2>2 DEF ClearActors, syncVars
    <3> QED BY <3>1, BodyRemoved
  <2>3. CASE (\A a \in Actors : ~RemoveActor(a)) /\ ~ClearActors
    <3>1. UNCHANGED <<threads, bodyVars>> /\ (runner' = runner \/ (PrepareWork /\ threads = {}))
      BY <1>1, <2>3, PrepareFacts DEF Game, MainStep, Teleport, MoveObjectBy, StepSimulation, Destroy,
         WaitForWorkers, WakeSpuriously, SyncInline, WakeUpWorkers, MoveActors, ResetSimulation,
         ReleaseSharedStates, ZeroWork, StopWorkers, Join, TakeLock, stateVars, syncVars, workVars, actorVars, stepVars, bufferVars
    <3>2. CASE runner' = runner
      BY <3>1, <3>2, HeldKept DEF IsAt
    <3>3. CASE PrepareWork /\ threads = {}
      <4>1. Goto(Main, "steps") /\ runner[Main].pc = "idle" /\ Runners = {Main}
        BY <3>3, PrepareFacts DEF PhaseInv, InlineInv, IsAt, Runners
      <4>2. runner'[Main].pc = "steps" /\ runner'[Main].held = runner[Main].held
        BY <4>1, GotoFacts DEF PhaseInv, RunnerPcs, SimulationPcs
      <4>3. \A u \in Runners : /\ runner'[u].held = runner[u].held
                               /\ runner'[u].pc \in Holding <=> runner[u].pc \in Holding
                               /\ IsAt(u, "destroy")' <=> IsAt(u, "destroy")
        BY <4>1, <4>2 DEF Holding, IsAt
      <4> QED BY <3>1, <4>3, HeldKept
    <3> QED BY <3>1, <3>2, <3>3
  <2> QED BY <2>1, <2>2, <2>3
<1>2. ASSUME NEW t \in Threads \cup {Main}, RunnerMoves(t) PROVE HeldInv'
  <2>0. Runners \subseteq Threads \cup {Main} /\ (threads # {} => threads = Runners)
    BY ThreadFacts DEF PhaseInv, Runners
  <2>1. t \in Runners /\ UNCHANGED threads /\ UNCHANGED mActors /\ Runners' = Runners
    BY <1>2, ThreadFacts DEF PhaseInv, RunnerMoves, AwayStep, RunWorker, Wake, Enter, BeginStep, EndFrame, Pass, FetchJob, Move,
       Drop, DestroyActor, EndStep, Inside, syncVars, actorVars, bodyVars, Runners
  <2>2. CASE RunWorker(t) \/ Wake(t) \/ Enter(t) \/ Pass(t) \/ BeginStep(t) \/ EndFrame(t) \/ EndStep(t) \/ Move(t)
    <3>1. UNCHANGED bodyVars
      BY <2>2 DEF RunWorker, Wake, Enter, Pass, BeginStep, EndFrame, EndStep, Move, actorVars
    <3>2. /\ \A u \in Runners \ {t} : runner'[u] = runner[u]
          /\ runner'[t].held = runner[t].held
          /\ runner'[t].pc \in Holding <=> runner[t].pc \in Holding
          /\ ~IsAt(t, "destroy")' /\ ~IsAt(t, "destroy")
      <4> USE DEF PhaseInv, Holding, IsAt
      <4>1. CASE RunWorker(t) \/ Wake(t)
        <5>1. runner[t].pc \in {"idle", "asleep"}
          BY <4>1 DEF RunWorker, Wake
        <5>2. runner'[t].pc \in {"exited", "asleep", "enter"}
          BY <4>1, LoopFacts
        <5> QED BY <2>0, <4>1, <5>1, <5>2, LoopFacts
      <4>2. CASE Enter(t) \/ Move(t)
        BY <2>0, <4>2, GotoFacts DEF Enter, Move, RunnerPcs, SimulationPcs
      <4>3. CASE Pass(t)
        BY <2>0, <4>3, PassFacts, AfterPcs DEF Barriers
      <4>4. CASE BeginStep(t) \/ EndFrame(t) \/ EndStep(t)
        <5>1. PICK b \in Barriers : Arrive(t, b) /\ runner[t].pc \in {"steps", "jobs"}
          BY <4>4 DEF BeginStep, EndFrame, EndStep, Barriers
        <5>2. runner'[t].pc \in {"jobs", "steps", "idle"} \cup Barriers
          BY <5>1, ArriveFacts, AfterPcs
        <5> QED BY <2>0, <5>1, <5>2, ArriveFacts DEF Barriers
      <4> QED BY <2>2, <4>1, <4>2, <4>3, <4>4
    <3>3. \A u \in Runners : /\ runner'[u].held = runner[u].held
                             /\ runner'[u].pc \in Holding <=> runner[u].pc \in Holding
                             /\ IsAt(u, "destroy")' <=> IsAt(u, "destroy")
      BY <3>2 DEF IsAt
    <3> QED BY <2>1, <3>1, <3>3, HeldKept
  <2>3. CASE FetchJob(t)
    <3>0. PICK a : a = movements[mSimulations][mNextJob + 1].actor
      OBVIOUS
    <3>1. /\ a \in Actors /\ UNCHANGED bodyVars /\ runner[t].pc = "jobs"
          /\ \A u \in Runners \ {t} : runner'[u] = runner[u]
          /\ IF IsAlive(a) THEN runner'[t].pc = "move" /\ runner'[t].held = a ELSE runner' = runner
      BY <2>0, <2>1, <2>3, <3>0, FetchFacts DEF FetchJob, IsAt, actorVars
    <3>2. CASE ~IsAlive(a)
      BY <2>1, <3>1, <3>2, HeldKept DEF IsAt
    <3>3. CASE IsAlive(a)
      <4>1. runner[t].held = NoActor /\ a # NoActor
        BY <2>1, <3>1, PhysicsAssumption DEF HeldInv
      <4>2. ASSUME NEW c, c # a, c # NoActor PROVE References(c)' = References(c)
        BY <2>1, <3>1, <3>3, <4>1, <4>2 DEF References, IsAt
      <4>3. \A u \in Runners : IsAt(u, "destroy")' => u # t /\ IsAt(u, "destroy") /\ runner'[u] = runner[u]
        BY <3>1, <3>3 DEF IsAt
      <4>4. ASSUME NEW c \in Actors, NEW u \in Runners, IsAt(u, "destroy")', runner'[u].held = c
            PROVE  ~IsAlive(c)'
        <5>1. ~IsAlive(c)
          BY <4>3, <4>4 DEF HeldInv
        <5>2. References(c)' = References(c)
          BY <3>3, <4>2, <4>4, <5>1, PhysicsAssumption
        <5> QED BY <2>1, <5>1, <5>2 DEF IsAlive
      <4>5. WorldHoldsLivingActors'
        <5>1. a \in mCollisionObjects
          BY <3>1, <3>3 DEF HeldInv, WorldHoldsLivingActors, IsAlive, References
        <5>2. \A c \in Actors : (\E u \in Runners : runner'[u].held = c) <=> (c = a \/ \E u \in Runners : runner[u].held = c)
          BY <2>1, <3>1, <3>3, <4>1, PhysicsAssumption
        <5> QED BY <2>1, <3>1, <5>1, <5>2 DEF HeldInv, WorldHoldsLivingActors, bodyVars
      <4>6. \A u \in Runners : runner'[u].held # NoActor <=> runner'[u].pc \in {"move", "drop", "destroy"}
        BY <3>1, <3>3, <4>1 DEF HeldInv
      <4>7. \A u, v \in Runners : IsAt(u, "destroy")' /\ IsAt(v, "destroy")' /\ runner'[u].held = runner'[v].held => u = v
        BY <4>3 DEF HeldInv
      <4> QED BY <2>1, <4>4, <4>5, <4>6, <4>7 DEF HeldInv
    <3> QED BY <3>2, <3>3
  <2>4. CASE Drop(t) \/ DestroyActor(t)
    <3>0. PICK a : a = runner[t].held
      OBVIOUS
    <3>1. /\ a # NoActor /\ a \in Actors /\ runner[t].pc \in {"drop", "destroy"}
          /\ IsAt(t, "destroy") => ~IsAlive(a)
          /\ \A u \in Runners \ {t} : runner'[u] = runner[u]
      BY <2>0, <2>1, <2>4, <3>0, GotoFacts, DroppedFacts DEF Drop, DestroyActor, IsAt, HeldInv, PhaseInv, ControlInv,
         RunnerType, RunnerPcs, SimulationPcs
    <3>2. CASE Drop(t) /\ IsLastReference(t)
      <4>1. /\ runner'[t].pc = "destroy" /\ runner'[t].held = a /\ UNCHANGED bodyVars
            /\ a \notin mActors /\ References(a) = {t} /\ runner[t].pc = "drop"
        BY <2>0, <2>1, <3>0, <3>2, GotoFacts DEF Drop, IsLastReference, IsAt, PhaseInv, RunnerPcs, SimulationPcs, actorVars
      <4>2. \A c : References(c)' = References(c) \ {t}
        BY <2>1, <3>1, <4>1 DEF References, IsAt
      <4>3. \A c : IsAlive(c)' => IsAlive(c)
        BY <2>1, <4>2 DEF IsAlive
      <4>4. IsAlive(a) /\ ~IsAlive(a)'
        BY <2>1, <4>1, <4>2 DEF IsAlive
      <4>5. \A u \in Runners : runner'[u].held = runner[u].held
        BY <3>0, <3>1, <4>1
      <4>6. \A u \in Runners : IsAt(u, "destroy")' => (u = t \/ (IsAt(u, "destroy") /\ runner[u].held # a))
        BY <3>1, <4>4 DEF IsAt, HeldInv
      <4>7. ASSUME NEW c \in Actors, NEW u \in Runners, IsAt(u, "destroy")', runner'[u].held = c
            PROVE  ~IsAlive(c)'
        <5>1. CASE u = t
          BY <4>1, <4>4, <4>7, <5>1
        <5>2. CASE u # t
          BY <4>3, <4>5, <4>6, <4>7, <5>2 DEF HeldInv
        <5> QED BY <5>1, <5>2
      <4>8. \A u, v \in Runners : IsAt(u, "destroy")' /\ IsAt(v, "destroy")' /\ runner'[u].held = runner'[v].held => u = v
        BY <3>0, <4>5, <4>6 DEF HeldInv
      <4>9. WorldHoldsLivingActors'
        BY <2>1, <4>1, <4>5 DEF HeldInv, WorldHoldsLivingActors, bodyVars
      <4>10. \A u \in Runners : runner'[u].held # NoActor <=> runner'[u].pc \in {"move", "drop", "destroy"}
        BY <3>1, <4>1 DEF HeldInv
      <4> QED BY <2>1, <4>7, <4>8, <4>9, <4>10 DEF HeldInv
    <3>3. CASE DestroyActor(t) \/ (Drop(t) /\ ~IsLastReference(t))
      <4>1. /\ runner'[t].pc = "jobs" /\ runner'[t].held = NoActor
            /\ mCollisionObjects' = IF IsAt(t, "destroy") THEN mCollisionObjects \ {a} ELSE mCollisionObjects
        <5>1. Dropped(t)
          BY <3>3 DEF DestroyActor, Drop
        <5>2. mCollisionObjects' = IF IsAt(t, "destroy") THEN mCollisionObjects \ {a} ELSE mCollisionObjects
          BY <3>0, <3>3 DEF DestroyActor, Drop, IsAt, actorVars, bodyVars
        <5> QED BY <2>0, <2>1, <5>1, <5>2, DroppedFacts DEF PhaseInv
      <4>2. ASSUME NEW c, c # NoActor PROVE References(c)' = References(c) \ {t}
        BY <2>1, <3>1, <4>1, <4>2 DEF References, IsAt
      <4>3. \A c : c # NoActor /\ IsAlive(c)' => IsAlive(c)
        BY <2>1, <4>2 DEF IsAlive
      <4>4. \A u \in Runners : IsAt(u, "destroy")' => u # t /\ IsAt(u, "destroy") /\ runner'[u] = runner[u]
        BY <3>1, <4>1 DEF IsAt
      <4>5. ASSUME NEW c \in Actors, NEW u \in Runners, IsAt(u, "destroy")', runner'[u].held = c
            PROVE  ~IsAlive(c)'
        BY <4>3, <4>4, <4>5, PhysicsAssumption DEF HeldInv
      <4>6. \A u, v \in Runners : IsAt(u, "destroy")' /\ IsAt(v, "destroy")' /\ runner'[u].held = runner'[v].held => u = v
        BY <4>4 DEF HeldInv
      <4>7. \A u \in Runners : runner'[u].held # NoActor <=> runner'[u].pc \in {"move", "drop", "destroy"}
        BY <3>1, <4>1 DEF HeldInv
      <4>8. \A c \in Actors \ {a} : (\E u \in Runners : runner'[u].held = c) <=> (\E u \in Runners : runner[u].held = c)
        BY <2>1, <3>0, <3>1, <4>1, PhysicsAssumption
      <4>9. IF IsAt(t, "destroy") THEN a \notin mActors /\ \A u \in Runners : runner'[u].held # a
            ELSE a \in mActors \/ \E u \in Runners : runner'[u].held = a
        <5>1. CASE IsAt(t, "destroy")
          <6>1. ~IsAlive(a)
            BY <3>1, <5>1
          <6>2. ASSUME NEW u \in Runners, u # t, runner[u].held = a PROVE FALSE
            <7>1. IsAt(u, "destroy")
              BY <6>1, <6>2 DEF IsAlive, References
            <7> QED BY <2>1, <3>0, <5>1, <6>2, <7>1 DEF HeldInv
          <6> QED BY <3>1, <4>1, <5>1, <6>1, <6>2 DEF IsAlive
        <5>2. CASE ~IsAt(t, "destroy")
          <6>1. Drop(t) /\ (a \in mActors \/ References(a) # {t})
            BY <3>0, <3>3, <5>2 DEF DestroyActor, IsLastReference
          <6>2. t \in References(a)
            BY <2>1, <3>0, <5>2 DEF References
          <6>3. a \notin mActors => \E u \in References(a) : u # t
            BY <6>1, <6>2
          <6> QED BY <3>1, <5>2, <6>3 DEF References
        <5> QED BY <5>1, <5>2
      <4>10. WorldHoldsLivingActors'
        <5>1. ASSUME NEW c \in Actors
              PROVE  c \in mCollisionObjects' <=> (c \in mActors \/ \E u \in Runners : runner'[u].held = c)
          <6>1. c \in mCollisionObjects <=> (c \in mActors \/ \E u \in Runners : runner[u].held = c)
            BY DEF HeldInv, WorldHoldsLivingActors
          <6>2. CASE c # a
            BY <4>1, <4>8, <6>1, <6>2
          <6>3. CASE c = a
            BY <2>1, <3>0, <4>1, <4>9, <6>1, <6>3
          <6> QED BY <6>2, <6>3
        <5> QED BY <2>1, <5>1 DEF WorldHoldsLivingActors
      <4> QED BY <2>1, <4>5, <4>6, <4>7, <4>10 DEF HeldInv
    <3> QED BY <2>4, <3>2, <3>3
  <2> QED BY <1>2, <2>2, <2>3, <2>4 DEF RunnerMoves, AwayStep
<1> QED BY <1>1, <1>2, StepKinds

-----------------------------------------------------------------------------
(* The invariant                                                           *)

LEMMA InitIInv == Init => IInv
<1> SUFFICES ASSUME Init PROVE IInv
  OBVIOUS
<1>1. /\ \A t \in Threads \cup {Main} : IsAt(t, "idle") /\ runner[t].lastFrame = 0 /\ runner[t].held = NoActor
      /\ main.pc = "idle" /\ main.call = "none"
      /\ mSimulations = 0 /\ mSimulationsCounter = 0 /\ mRemainingSteps = 0 /\ mNextJob = 0
      /\ movements = [i \in 1..2 |-> <<>>] /\ mShouldStop = FALSE
      /\ mFrameCounter = 0 /\ mWorkersFrameCounter = 0 /\ overtaken = FALSE /\ crashed = FALSE
  BY DEF Init, IsAt
<1>2. ControlInv
  <2>1. runner \in [Threads \cup {Main} -> RunnerType]
    BY DEF Init, RunnerType, RunnerPcs
  <2>2. barrier \in [Barriers -> [count : Nat, generation : Nat]]
    BY DEF Init
  <2>3. main \in [pc : MainPcs, call : Calls]
    BY DEF Init, MainPcs, Calls
  <2>4. threads \in ThreadChoices /\ mShouldStop \in BOOLEAN
    BY DEF Init
  <2>5. mNumJobs \in Nat
    BY DEF Init
  <2>6. /\ mFrameCounter \in Nat /\ mWorkersFrameCounter \in Nat /\ mRemainingSteps \in Nat /\ mNextJob \in Nat
        /\ mSimulations \in 0..2 /\ mSimulationsCounter \in 0..1
    BY <1>1
  <2> QED BY <2>1, <2>2, <2>3, <2>4, <2>5, <2>6 DEF ControlInv
<1>3. \A t \in Runners : t \in Threads \cup {Main} /\ IsAt(t, "idle") /\ ~InStep(t)
  BY <1>1, <1>2, ThreadFacts DEF InStep, IsAt, Released
<1>4. \A t \in threads : IsAt(t, "idle") /\ runner[t].lastFrame = 0
  BY <1>1, <1>2, ThreadFacts
<1>5. BarrierInv
  <2>1. ASSUME NEW b \in Barriers PROVE Waiting(b) = {} /\ barrier[b].count = 0
    BY <1>4 DEF Init, Waiting, IsAt, Barriers
  <2>2. \A t \in threads : \A b \in Barriers : ~IsAt(t, b)
    BY <1>4 DEF IsAt, Barriers
  <2> QED BY <1>2, <2>1, <2>2, FS_EmptySet, ThreadFacts DEF BarrierInv
<1>6. FrameInv /\ StopInv /\ InlineInv /\ StepInv /\ WokenInv
  BY <1>1, <1>3, <1>4 DEF FrameInv, StopInv, InlineInv, StepInv, WokenInv, FrameIsDone, IsOut, IsAt
<1>7. DataInv
  BY <1>1 DEF Init, DataInv, ActorState, Spots, Place
<1>8. JobsInv
  BY <1>3 DEF JobsInv, IsAt
<1>9. BufferInv
  BY <1>1 DEF BufferInv
<1>10. HeldInv
  <2>1. WorldHoldsLivingActors
    BY DEF Init, WorldHoldsLivingActors
  <2> QED BY <1>1, <1>3, <2>1 DEF HeldInv, IsAt
<1>11. PlaceInv
  BY <1>1 DEF Init, PlaceInv, IsPlaced, Place
<1> QED BY <1>2, <1>5, <1>6, <1>7, <1>8, <1>9, <1>10, <1>11 DEF IInv, PhaseInv

LEMMA StepIInv == IInv /\ [Next]_vars => IInv'
<1> SUFFICES ASSUME IInv, [Next]_vars PROVE IInv'
  OBVIOUS
<1>1. PhaseInv /\ DataInv /\ JobsInv /\ BufferInv /\ HeldInv /\ PlaceInv
  BY DEF IInv
<1>2. PhaseInv' /\ JobsInv' /\ HeldInv'
  BY <1>1, PhaseStep, JobsStep, HeldStep
<1>3. DataInv' /\ BufferInv' /\ PlaceInv'
  BY <1>1, MainData, RunnerData, StepKinds
<1> QED BY <1>2, <1>3 DEF IInv

(* Every state the program reaches satisfies the invariant.                *)
THEOREM Invariant == Spec => []IInv
BY InitIInv, StepIInv, PTL DEF Spec

-----------------------------------------------------------------------------
(* Theorems                                                                *)

(* Every variable keeps its type: no index leaves its buffer, no count its *)
(* range, and what a thread holds is an actor.  The bounds of TypeOK on    *)
(* counters that the code does not bound are left to TLC.                  *)
THEOREM TypeCorrect == Spec => [](ControlInv /\ DataInv /\ WokenInv)
<1>1. IInv => ControlInv /\ DataInv /\ WokenInv
  BY DEF IInv, PhaseInv
<1> QED BY <1>1, Invariant, PTL

(* As long as no wait of the main thread has ended unasked it asks for the *)
(* exclusive lock of the simulation only when no thread has still to ask   *)
(* for the shared one to finish the frame, however many threads there are: *)
(* FrameInv, a frame is over for all of them at once.                      *)
THEOREM NobodyIsShutOut == Spec => []WorkersAreInWhenLockIsAskedUnlessWoken
<1>1. IInv => WorkersAreInWhenLockIsAskedUnlessWoken
  <2> SUFFICES ASSUME IInv, main.pc = "lock", ~IsUnasked, NEW t \in threads PROVE ~HasToEnter(t)
    BY DEF WorkersAreInWhenLockIsAskedUnlessWoken
  <2>1. ~overtaken /\ ~mShouldStop /\ FrameIsDone
    BY DEF IInv, PhaseInv, StopInv, IsUnasked, IsWokenEarly, IsUnfinished, FrameIsDone
  <2>2. IsOut(t) /\ runner[t].lastFrame = mFrameCounter
    BY <2>1 DEF IInv, PhaseInv, FrameInv
  <2> QED BY <2>2 DEF HasToEnter, IsOut, IsAt, Released
<1> QED BY <1>1, Invariant, PTL

(* A teleport of the game is never undone by a frame that began before it: *)
(* PlaceInv, with syncWithMainThread and Actor::setPosition in any order   *)
(* with the game.                                                          *)
THEOREM NoTeleportIsUndone == Spec => []TeleportsAreKept
<1>1. IInv => TeleportsAreKept
  BY DEF IInv, PlaceInv, IsPlaced, TeleportsAreKept
<1> QED BY <1>1, Invariant, PTL

(* Every displacement of an actor is applied exactly once to each of the   *)
(* three positions it keeps, or is still to be applied to all of them.     *)
THEOREM NoDisplacementIsLost == Spec => []DisplacementsCountOnce
<1>1. IInv => DisplacementsCountOnce
  BY DEF IInv, PlaceInv, IsPlaced, DisplacementsCountOnce
<1> QED BY <1>1, Invariant, PTL

(* The collision world holds an actor for as long as the game or a physics *)
(* thread does, and no longer: ~Actor runs once, after the last reference. *)
THEOREM NoActorIsLeftBehind == Spec => []WorldHoldsLivingActors
<1>1. IInv => WorldHoldsLivingActors
  BY DEF IInv, HeldInv
<1> QED BY <1>1, Invariant, PTL

(* The main thread fills a buffer that is empty and that no thread reads,  *)
(* whichever of its three calls it has made before.                        *)
THEOREM NoBufferIsShared == Spec => BufferFilledIsFree
<1>1. IInv /\ [Next]_vars =>
        [StepSimulation /\ main'.call = "apply" => movements[Filled] = <<>> /\ mSimulations # Filled]_vars
  <2> SUFFICES ASSUME IInv, StepSimulation PROVE movements[Filled] = <<>> /\ mSimulations # Filled
    OBVIOUS
  <2>1. ~IsPending
    BY DEF StepSimulation, IsPending
  <2>2. Filled \in 1..2 /\ NextBuffer # Filled
    BY BufferFacts DEF IInv, PhaseInv
  <2> QED BY <2>1, <2>2 DEF IInv, BufferInv
<1> QED BY <1>1, Invariant, PTL DEF Spec, BufferFilledIsFree

(* When a step of the simulation ends every job of it was done exactly     *)
(* once, however many threads have taken them from mNextJob.               *)
THEOREM NoActorIsSkippedOrMovedTwice == Spec => EveryActorMovesOncePerStep
<1>1. IInv /\ [Next]_vars =>
        [main' = main /\ mRemainingSteps' # mRemainingSteps => \A j \in 1..mNumJobs : moved[j] = 1]_vars
  <2> SUFFICES ASSUME IInv, [Next]_vars, main' = main, mRemainingSteps' # mRemainingSteps,
                      NEW j \in 1..mNumJobs
               PROVE  moved[j] = 1
    OBVIOUS
  <2>0. mNumJobs \in Nat /\ mNextJob \in Nat /\ main \in [pc : MainPcs, call : Calls]
    BY DEF IInv, PhaseInv, ControlInv
  <2>1. ~Game /\ ~MainStep /\ ~UNCHANGED stateVars
    <3>1. ~Game
      BY GameFacts DEF stepVars
    <3>2. ~MainStep
      BY <2>0 DEF MainStep, WaitForWorkers, WakeSpuriously, PrepareWork, SyncInline, WakeUpWorkers,
         MoveActors, ResetSimulation, ReleaseSharedStates, ClearActors, ZeroWork, StopWorkers, Join,
         TakeLock, MainGoto, MovementsCleared, workVars, stepVars
    <3> QED BY <3>1, <3>2 DEF stateVars, workVars, stepVars
  <2>3. PICK t \in Threads \cup {Main} : EndStep(t) /\ IsLast("PostStep")
    <3>1. PICK t \in Threads \cup {Main} : RunnerMoves(t)
      BY <2>1, StepKinds
    <3>2. EndStep(t)
      BY <3>1 DEF RunnerMoves, AwayStep, RunWorker, Wake, Enter, BeginStep, EndFrame, Pass, FetchJob,
         Move, Drop, DestroyActor, workVars, stepVars
    <3>3. IsLast("PostStep")
      BY <3>2 DEF EndStep
    <3> QED BY <3>2, <3>3
  <2>4. t \in Runners /\ InStep(t) /\ mNextJob >= mNumJobs /\ IsAt(t, "jobs")
    BY <2>3, ArrivalKinds DEF IInv, PhaseInv, InStep, IsAt
  <2>5. Movers(j) = {}
    <3> SUFFICES ASSUME NEW u \in Runners, IsAt(u, "move") PROVE FALSE
      BY DEF Movers
    <3>1. ControlInv /\ BarrierInv /\ u # t /\ ~IsAt(t, "PostStep") /\ "PostStep" \in Barriers
      BY <2>4 DEF IInv, PhaseInv, IsAt, Barriers
    <3>2. t \in threads /\ u \in threads
      BY <2>4, <3>1, ThreadFacts
    <3>3. u \in Waiting("PostStep")
      BY <2>3, <3>1, <3>2, LastArrival
    <3> QED BY <3>3 DEF Waiting, IsAt
  <2>6. moved[j] = IF j <= mNextJob /\ Movers(j) = {} THEN 1 ELSE 0
    BY <2>4 DEF IInv, JobsInv
  <2> QED BY <2>0, <2>4, <2>5, <2>6
<1> QED BY <1>1, Invariant, PTL DEF Spec, EveryActorMovesOncePerStep

-----------------------------------------------------------------------------
(* Who waits, and for what                                                 *)

(* Threads wait at one barrier only: the one before a step while steps     *)
(* remain, the one after the frame when none does.                         *)
WaitInv ==
    /\ main.pc \in {"join", "done"} => mShouldStop
    /\ ~overtaken /\ mShouldStop => mFrameCounter <= mWorkersFrameCounter
    /\ main.pc = "asleep" => threads # {} /\ ~FrameIsDone
    /\ \A t \in threads :
         /\ IsAt(t, "PreStep") => Released(t, "PreStep") \/ mRemainingSteps > 0
         /\ IsAt(t, "PostSim") => Released(t, "PostSim") \/ mRemainingSteps = 0

LEMMA MainWaits ==
    ASSUME PhaseInv, WaitInv, Game \/ MainStep \/ UNCHANGED stateVars
    PROVE  WaitInv'
<1>1. /\ UNCHANGED <<threads, barrier>> /\ Main \notin threads /\ threads \subseteq Threads
      /\ runner' = runner \/ (PrepareWork /\ threads = {})
  BY MainFacts, ThreadFacts DEF PhaseInv
<1>2. CASE MainMoves
  <2>1. UNCHANGED <<mFrameCounter, mWorkersFrameCounter, mShouldStop, mRemainingSteps, runner>>
    BY <1>2 DEF MainMoves
  <2>2. CASE LockMoves
    <3>1. main'.pc \in {"move", "clear"} /\ (overtaken => overtaken')
      BY <2>2, LockFacts DEF LockMoves
    <3> QED BY <1>1, <2>1, <3>1 DEF WaitInv, IsAt, Released
  <2>3. CASE ~LockMoves
    BY <1>1, <1>2, <2>1, <2>3 DEF MainMoves, WaitInv, IsAt, Released, FrameIsDone
  <2> QED BY <2>2, <2>3
<1>3. CASE WakeUpWorkers
  BY <1>1, <1>3 DEF WakeUpWorkers, MainGoto, WaitInv, IsAt, Released, PhaseInv, StopInv, ControlInv,
     stepVars, workVars
<1>4. CASE StopWorkers
  <2>1. /\ main.pc = "stop" /\ mShouldStop' /\ main'.pc = "join"
        /\ UNCHANGED <<mFrameCounter, mWorkersFrameCounter, overtaken, mRemainingSteps, runner>>
    BY <1>4 DEF StopWorkers, MainGoto, PhaseInv, ControlInv, stepVars, workVars
  <2>2. ~overtaken => FrameIsDone
    BY <2>1 DEF PhaseInv, StopInv, FrameInv
  <2> QED BY <1>1, <2>1, <2>2 DEF WaitInv, IsAt, Released, FrameIsDone, PhaseInv, ControlInv
<1>5. CASE ZeroWork \/ PrepareWork
  <2>1. /\ HoldSimulation = {} /\ main.pc = "lock"
        /\ UNCHANGED <<mFrameCounter, mWorkersFrameCounter, mShouldStop>>
        /\ main'.pc \in {"stop", "wake", "simulate"}
    BY <1>5, PrepareFacts DEF ZeroWork, TakeLock, MainGoto, PhaseInv, ControlInv
  <2>2. \A t \in threads : ~IsAt(t, "PreStep") /\ ~IsAt(t, "PostSim")
    BY <2>1 DEF HoldSimulation, SimulationPcs, IsAt
  <2> QED BY <1>1, <2>1, <2>2 DEF WaitInv, IsAt, PhaseInv, StopInv
<1> QED BY <1>2, <1>3, <1>4, <1>5, MainKinds

LEMMA RunnerWaits ==
    ASSUME PhaseInv, DataInv, BufferInv, WaitInv, NEW t \in Threads \cup {Main}, RunnerMoves(t)
    PROVE  WaitInv'
<1>1. threads \subseteq Threads
  BY ThreadFacts DEF PhaseInv
<1>2. CASE AwayStep(t)
  BY <1>1, <1>2, AwayFacts DEF WaitInv, IsAt, Released, FrameIsDone, Barriers
<1>3. CASE Pass(t)
  <2>1. UNCHANGED <<syncVars, barrier, mRemainingSteps, main>>
    BY <1>3 DEF Pass, workVars, stepVars
  <2> QED BY <1>1, <1>3, <2>1, PassPhases DEF WaitInv, IsAt, Released, FrameIsDone, syncVars
<1>4. ASSUME NEW b \in {"PreStep", "PostSim", "PostStep"}, Arrive(t, b), t \in Runners,
             runner[t].pc \notin Barriers, UNCHANGED threads
      PROVE  /\ \A u \in threads \ {t}, c \in Barriers :
                  IsAt(u, c)' /\ ~Released(u, c)' => IsAt(u, c) /\ ~Released(u, c)
             /\ \A c \in Barriers : IsAt(t, c)' => c = b
  <2>1. /\ \A u \in Runners \ {t} : runner'[u] = runner[u]
        /\ \A u \in Runners \ {t}, c \in Barriers : c # b \/ ~IsLast(b) =>
             (Released(u, c)' <=> Released(u, c))
        /\ IsLast(b) => /\ runner'[t].pc = After(b)
                        /\ \A u \in Runners \ {t} : IsAt(u, b) /\ ~Released(u, b) /\ Released(u, b)'
        /\ ~IsLast(b) => runner'[t].pc = b
    BY <1>4, Arrival DEF PhaseInv, Barriers
  <2>2. threads \subseteq Runners /\ After(b) \notin Barriers
    BY <1>4, ThreadFacts DEF PhaseInv, After, Barriers
  <2> QED BY <1>4, <2>1, <2>2 DEF IsAt
<1>5. CASE BeginStep(t)
  <2>1. /\ Arrive(t, "PreStep") /\ t \in Runners /\ runner[t].pc \notin Barriers
        /\ UNCHANGED <<syncVars, mRemainingSteps, main>> /\ mRemainingSteps > 0
    BY <1>5, ArrivalKinds DEF BeginStep, PhaseInv
  <2> QED BY <1>4, <2>1 DEF WaitInv, FrameIsDone, syncVars, Barriers
<1>6. CASE EndFrame(t)
  <2>1. /\ Arrive(t, "PostSim") /\ t \in Runners /\ runner[t].pc \notin Barriers
        /\ UNCHANGED <<threads, mFrameCounter, mShouldStop, overtaken, mRemainingSteps>> /\ mRemainingSteps = 0
        /\ \/ UNCHANGED <<mWorkersFrameCounter, main>>
           \/ /\ mWorkersFrameCounter' = mWorkersFrameCounter + 1 /\ main'.pc # "asleep"
              /\ main'.pc \in {"join", "done"} => main.pc \in {"join", "done"}
    BY <1>6, ArrivalKinds DEF EndFrame, PhaseInv, ControlInv, stepVars
  <2>2. mFrameCounter \in Nat /\ mWorkersFrameCounter \in Nat
    BY DEF PhaseInv, ControlInv
  <2> QED BY <1>4, <2>1, <2>2 DEF WaitInv, FrameIsDone, Barriers
<1>7. CASE EndStep(t)
  <2>1. /\ Arrive(t, "PostStep") /\ t \in Runners /\ runner[t].pc \notin Barriers
        /\ UNCHANGED <<syncVars, main>> /\ InStep(t)
    BY <1>7, ArrivalKinds, ArrivalPhases DEF EndStep, PhaseInv
  <2>2. \A u \in threads : InStep(u)
    BY <2>1, ThreadFacts DEF PhaseInv, StepInv
  <2>3. \A u \in threads \ {t} : /\ ~(IsAt(u, "PreStep") /\ ~Released(u, "PreStep"))
                                 /\ ~IsAt(u, "PostSim")
    BY <2>2 DEF InStep, IsAt, Released
  <2> QED BY <1>4, <2>1, <2>3 DEF WaitInv, FrameIsDone, syncVars, Barriers
<1> QED BY <1>2, <1>3, <1>5, <1>6, <1>7 DEF RunnerMoves

(* Where nobody can go on, all threads are waiting at barriers.            *)
LEMMA AllWait ==
    ASSUME PhaseInv, ~overtaken, ~mShouldStop, ~FrameIsDone, \A t \in threads : ~CanGoOn(t), NEW t \in threads
    PROVE  \E b \in Barriers : t \in Waiting(b)
<1>1. \A u \in threads : Inside(u) /\ runner[u].pc \in RunnerPcs
  BY ThreadFacts DEF PhaseInv, ControlInv, RunnerType, Inside
<1>2. runner[t].pc # "exited" /\ runner[t].pc \notin {"idle", "enter", "steps", "jobs", "move", "drop"}
  BY <1>1 DEF PhaseInv, FrameInv, CanGoOn, IsAt
<1>3. ~IsAt(t, "asleep")
  <2>1. mFrameCounter \in Nat /\ (IsAt(t, "asleep") => runner[t].lastFrame = mFrameCounter - 1)
    BY DEF PhaseInv, FrameInv, ControlInv, IsOut, IsAt
  <2> QED BY <2>1 DEF CanGoOn, HasJob
<1>4. ~IsAt(t, "destroy")
  <2>1. \A u \in threads : ~IsAt(u, "move")
    BY <1>1 DEF CanGoOn, IsAt
  <2>2. HoldCollisionWorld = {}
    BY <2>1 DEF HoldCollisionWorld, Runners
  <2> QED BY <1>1, <2>2 DEF CanGoOn
<1>5. PICK b \in Barriers : IsAt(t, b)
  BY <1>1, <1>2, <1>3, <1>4 DEF RunnerPcs, SimulationPcs, Barriers, IsAt
<1> QED BY <1>1, <1>5 DEF CanGoOn, Waiting

(* All at one barrier: it would have been full.                            *)
LEMMA FrameGoesOn ==
    ASSUME PhaseInv, WaitInv, ~overtaken, ~mShouldStop, ~FrameIsDone
    PROVE  \E t \in threads : CanGoOn(t)
<1> SUFFICES ASSUME \A t \in threads : ~CanGoOn(t) PROVE FALSE
  OBVIOUS
<1>1. threads # {} /\ threads \subseteq Runners
  BY ThreadFacts DEF PhaseInv, FrameInv
<1>2. \A t \in threads : \E b \in Barriers : t \in Waiting(b)
  BY AllWait
<1>3. PICK t \in threads, b \in Barriers : t \in Waiting(b)
  BY <1>1, <1>2
<1>4. \A c \in Barriers : \A u \in Waiting(c) : u \in threads /\ IsAt(u, c) /\ ~Released(u, c)
  BY DEF Waiting, Released
<1>5. ASSUME NEW u \in threads, NEW c \in Barriers, u \in Waiting(c)
      PROVE  IF c = "PostStep" THEN InStep(u) ELSE ~InStep(u) /\ (c = "PreStep" <=> mRemainingSteps > 0)
  <2>1. mRemainingSteps \in Nat
    BY DEF PhaseInv, ControlInv
  <2> QED BY <1>4, <1>5, <2>1 DEF InStep, Released, IsAt, WaitInv, Barriers
<1>6. ASSUME NEW u \in threads PROVE u \in Waiting(b)
  <2>1. PICK c \in Barriers : u \in Waiting(c)
    BY <1>2
  <2>2. InStep(t) <=> InStep(u)
    BY <1>1 DEF PhaseInv, StepInv
  <2>3. c = b
    BY <1>3, <1>5, <2>1, <2>2 DEF Barriers
  <2> QED BY <2>1, <2>3
<1>7. Waiting(b) = threads
  BY <1>6 DEF Waiting
<1>8. mNumThreads \in Nat /\ barrier[b].count = mNumThreads /\ barrier[b].count < mNumThreads
  BY <1>1, <1>7, ThreadFacts DEF PhaseInv, BarrierInv, mNumThreads
<1> QED BY <1>8

(* One thread alone does not wait at a barrier, and exits when told.       *)
LEMMA OneThreadExits ==
    ASSUME PhaseInv, mShouldStop, mNumThreads <= 1, NEW t \in threads, ~IsAt(t, "exited")
    PROVE  CanGoOn(t)
<1>1. Inside(t) /\ mNumThreads \in Nat /\ IsFiniteSet(threads)
  BY ThreadFacts DEF PhaseInv, Inside
<1>2. IsOut(t) \/ runner[t].pc \in {"enter", "steps", "PostSim"}
  BY DEF PhaseInv, StopInv, IsAt
<1>3. CASE IsAt(t, "PostSim") /\ ~Released(t, "PostSim")
  <2>1. t \in Waiting("PostSim") /\ Waiting("PostSim") \subseteq threads
    BY <1>3 DEF Waiting, Released
  <2>2. IsFiniteSet(Waiting("PostSim"))
    BY <1>1, <2>1, FS_Subset
  <2>3. Cardinality(Waiting("PostSim")) \in Nat /\ Cardinality(Waiting("PostSim")) # 0
    BY <2>1, <2>2, FS_CardinalityType, FS_EmptySet
  <2>4. Cardinality(Waiting("PostSim")) < mNumThreads
    BY DEF PhaseInv, BarrierInv, Barriers
  <2> QED BY <1>1, <2>3, <2>4
<1>4. CASE Released(t, "PostSim")
  BY <1>1, <1>4 DEF CanGoOn, Released, Barriers
<1>5. CASE runner[t].pc \in {"idle", "asleep", "enter", "steps"}
  BY <1>1, <1>5 DEF CanGoOn, IsAt, HasJob
<1> QED BY <1>2, <1>3, <1>4, <1>5 DEF IsOut, IsAt

(* No deadlock, with any number of threads, actors and steps: with one     *)
(* thread or none the end of the scheduler is never waited for in vain.    *)
(* And as long as no wait of the main thread has ended unasked, neither is *)
(* a frame that is handed over or the lock that the main thread asks for,  *)
(* and no thread simulates a frame that is gone.  With more threads the    *)
(* end may be waited for in vain: stopWorkers lets some of them run a      *)
(* frame once more, and the others exit.                                   *)
THEOREM NoDeadlock == Spec => []NobodyWaitsInVain
<1>1. Init => WaitInv
  BY DEF Init, WaitInv, IsAt, Threads
<1>2. IInv /\ WaitInv /\ [Next]_vars => WaitInv'
  BY MainWaits, RunnerWaits, StepKinds DEF IInv
<1>3. IInv /\ WaitInv => NobodyWaitsInVain
  <2> SUFFICES ASSUME IInv, WaitInv PROVE NobodyWaitsInVain
    OBVIOUS
  <2>1. PhaseInv /\ (~IsUnasked => ~overtaken /\ ~crashed) /\ mFrameCounter \in Nat /\ mWorkersFrameCounter \in Nat
    BY DEF IInv, PhaseInv, ControlInv, WokenInv, IsUnasked
  <2>2. ASSUME ~IsUnasked, mFrameCounter > mWorkersFrameCounter \/ main.pc = "asleep"
        PROVE  \E t \in threads : CanGoOn(t)
    <3>1. ~overtaken /\ ~FrameIsDone /\ ~mShouldStop
      BY <2>1, <2>2 DEF FrameIsDone, WaitInv, PhaseInv, StopInv
    <3> QED BY <2>1, <3>1, FrameGoesOn
  <2>3. ASSUME ~IsUnasked, main.pc = "lock"
        PROVE  HoldSimulation = {} \/ \E t \in threads : CanGoOn(t)
    <3>1. ~overtaken /\ ~mShouldStop /\ FrameIsDone
      BY <2>1, <2>3 DEF PhaseInv, StopInv, FrameInv, FrameIsDone, IsUnasked, IsWokenEarly, IsUnfinished
    <3>2. ASSUME NEW t \in HoldSimulation PROVE t \in threads /\ CanGoOn(t)
      <4>1. t \in threads /\ Released(t, "PostSim")
        BY <2>1, <3>1 DEF HoldSimulation, SimulationPcs, PhaseInv, FrameInv, IsOut
      <4> QED BY <2>1, <4>1, ThreadFacts DEF PhaseInv, CanGoOn, Inside, Released, Barriers
    <3> QED BY <3>2
  <2>4. ASSUME main.pc = "join", mNumThreads <= 1
        PROVE  (\A t \in threads : IsAt(t, "exited")) \/ \E t \in threads : CanGoOn(t)
    BY <2>1, <2>4, OneThreadExits DEF WaitInv
  <2> QED BY <2>1, <2>2, <2>3, <2>4 DEF NobodyWaitsInVain
<1> QED BY <1>1, <1>2, <1>3, Invariant, PTL DEF Spec

=============================================================================
