---------------------------- MODULE LuaManager ----------------------------
(* Lua scripts and the frame of the game: OMW::Engine::frame, MWLua::Worker *)
(* and what MWLua::LuaManager queues between them (apps/openmw/mwlua).     *)
(* Scripts run in two places. In synchronizedUpdate, on the main thread,   *)
(* actions that scripts queued are applied to the world. In update, which  *)
(* the worker thread runs while the main thread renders, or the main       *)
(* thread itself when there is no worker, events are delivered. Games are  *)
(* started, loaded and saved at several places of the frame.               *)
EXTENDS Naturals, Sequences, SequencesExt

CONSTANTS
    ThreadChoices, \* the values mThread may have
    MaxEvents,     \* bound on the events sent in one game
    MaxActions,    \* bound on the actions queued at once
    MaxGames,      \* bound on the games started or loaded
    NoSave

ASSUME ThreadChoicesAssumption == ThreadChoices \subseteq BOOLEAN
ASSUME BoundsAssumption == {MaxEvents, MaxActions, MaxGames} \subseteq Nat \ {0}

VARIABLES
    \* MWLua::Worker
    mThread,         \* there is a worker thread
    mMutex,          \* whether the worker holds it; the main thread never keeps it
    mUpdateRequest, mJoinRequest,
    worker,          \* where run() is
    main,            \* where Engine::go and Engine::frame are
    update,          \* where LuaManager::update is
    \* LuaManager, LuaEvents
    mPlayer,         \* the game whose player is set, 0: none
    mNewGameStarted,
    mNewEventBatch, mEventBatch,   \* both global and local, see Dests
    mMenuEvents,
    mActionQueue,    \* with mTeleportPlayerAction, which is applied last
    \* StateManager
    mNewGameRequest, mLoadRequest,
    slot,            \* the events of the saved game, or NoSave
    \* history
    game,            \* games so far
    sent,            \* events sent in this game
    delivered,       \* and delivered
    saved,           \* those that came with the saved game
    isNew,           \* the game was started and not loaded
    due              \* those sent before the update that runs

workerVars == <<mThread, mMutex, mUpdateRequest, mJoinRequest, worker>>
eventVars == <<mNewEventBatch, mEventBatch, mMenuEvents, sent>>
gameVars == <<mPlayer, mNewGameStarted, game, saved, isNew>>
requestVars == <<mNewGameRequest, mLoadRequest>>
history == <<delivered, due>>
vars == <<workerVars, main, update, eventVars, mActionQueue, gameVars,
          requestVars, slot, history>>

Dests == {"global", "local"}
NoEvents == [d \in Dests |-> <<>>]
NothingDelivered == [d \in Dests \cup {"menu"} |-> <<>>]
Event(n) == [id |-> n, game |-> mPlayer]

(* Where the main thread calls into Lua or changes the world               *)
LuaPhases == {"input", "newGame", "sync", "onFrame", "uiMode", "state", "load", "world"}

Init ==
    /\ mThread \in ThreadChoices
    /\ mMutex = FALSE /\ mUpdateRequest = FALSE /\ mJoinRequest = FALSE
    /\ worker = IF mThread THEN "awake" ELSE "gone"
    /\ main = "head" /\ update = "idle"
    /\ mPlayer = 0 /\ mNewGameStarted = FALSE
    /\ mNewEventBatch = NoEvents /\ mEventBatch = NoEvents /\ mMenuEvents = <<>>
    /\ mActionQueue = <<>>
    /\ mNewGameRequest = FALSE /\ mLoadRequest = FALSE
    /\ slot = NoSave
    /\ game = 0 /\ sent = 0 /\ delivered = NothingDelivered /\ saved = 0 /\ isNew = FALSE /\ due = 0

-----------------------------------------------------------------------------
(* What scripts and the code of the game may do                            *)

(* An event to global scripts or to the scripts of an object               *)
SendEvent(d) ==
    /\ mPlayer # 0 /\ sent < MaxEvents
    /\ sent' = sent + 1
    /\ mNewEventBatch' = [mNewEventBatch EXCEPT ![d] = Append(@, Event(sent + 1))]
    /\ UNCHANGED <<mEventBatch, mMenuEvents, mActionQueue>>

SendMenuEvent ==
    /\ mPlayer # 0 /\ sent < MaxEvents
    /\ sent' = sent + 1
    /\ mMenuEvents' = Append(mMenuEvents, Event(sent + 1))
    /\ UNCHANGED <<mNewEventBatch, mEventBatch, mActionQueue>>

AddAction ==
    /\ mPlayer # 0 /\ Len(mActionQueue) < MaxActions
    /\ mActionQueue' = Append(mActionQueue, mPlayer)
    /\ UNCHANGED <<eventVars>>

ScriptRuns ==
    \/ \E d \in Dests : SendEvent(d)
    \/ SendMenuEvent
    \/ AddAction

-----------------------------------------------------------------------------
(* LuaManager                                                              *)

(* A clear() that forgets mNewGameStarted.                                 *)
ClearButNewGame(player, new, count) ==
    /\ mPlayer' = player
    /\ mNewGameStarted' = (new \/ mNewGameStarted) /\ isNew' = new
    /\ mNewEventBatch' = NoEvents
    /\ mMenuEvents' = <<>>
    /\ mEventBatch' = NoEvents
    /\ saved' = 0 /\ sent' = 0
    /\ delivered' = NothingDelivered /\ due' = 0
    /\ game' = IF player = 0 THEN game ELSE player

(* What clear() leaves behind, then the player and the events of the game  *)
(* that begins; player 0: none does.                                       *)
Clear(player, new, count) ==
    /\ mPlayer' = player
    /\ mNewGameStarted' = new /\ isNew' = new
    /\ mNewEventBatch' = NoEvents
    /\ mMenuEvents' = <<>>
    /\ mEventBatch' = [d \in Dests |->
            [n \in 1..count[d] |->
                [id |-> IF d = "local" THEN count["global"] + n ELSE n, game |-> player]]]
    /\ saved' = count["global"] + count["local"]
    /\ sent' = saved'
    /\ delivered' = NothingDelivered /\ due' = 0
    /\ game' = IF player = 0 THEN game ELSE player

Nothing == [d \in Dests |-> 0]

ApplyDelayedActions == mActionQueue' = <<>>

(* The batches are copied, not swapped and cleared.                        *)
CopyEventBatch ==
    /\ update = "begin"
    /\ IF mPlayer = 0
       THEN update' = "done" /\ UNCHANGED <<mEventBatch, due>>
       ELSE update' = "events" /\ mEventBatch' = mNewEventBatch /\ due' = sent
    /\ UNCHANGED <<workerVars, main, mNewEventBatch, mMenuEvents, sent, mActionQueue,
                   gameVars, requestVars, slot, delivered>>

(* The beginning of update(): nothing more without a player.               *)
FinalizeEventBatch ==
    /\ update = "begin"
    /\ IF mPlayer = 0
       THEN update' = "done" /\ UNCHANGED <<mNewEventBatch, mEventBatch, due>>
       ELSE /\ update' = "events"
            /\ mEventBatch' = mNewEventBatch
            /\ mNewEventBatch' = NoEvents
            /\ due' = sent
    /\ UNCHANGED <<workerVars, main, mMenuEvents, sent, mActionQueue, gameVars,
                   requestVars, slot, delivered>>

(* The handlers see the events in the order they were sent; the events     *)
(* they send themselves wait for the next update.                          *)
CallEventHandlers ==
    /\ update = "events"
    /\ update' = "handlers"
    /\ delivered' = [d \in DOMAIN delivered |->
            IF d \in Dests THEN delivered[d] \o mEventBatch[d] ELSE delivered[d]]
    /\ mEventBatch' = NoEvents
    /\ UNCHANGED <<workerVars, main, mNewEventBatch, mMenuEvents, sent, mActionQueue,
                   gameVars, requestVars, slot, due>>

(* Event handlers, callbacks, handlers of the engine and onUpdate.         *)
HandlersRun ==
    /\ update = "handlers"
    /\ ScriptRuns
    /\ UNCHANGED <<workerVars, main, update, gameVars, requestVars, slot, history>>

UpdateReturns ==
    /\ update = "handlers"
    /\ update' = "done"
    /\ due' = 0
    /\ UNCHANGED <<workerVars, main, eventVars, mActionQueue, gameVars, requestVars,
                   slot, delivered>>

-----------------------------------------------------------------------------
(* StateManager                                                            *)

Goto(pc) == main' = pc

NewGame ==
    \/ /\ game < MaxGames
       /\ Clear(game + 1, TRUE, Nothing)
    \/ Clear(0, FALSE, Nothing)

LoadGame ==
    \/ /\ game < MaxGames
       /\ Clear(game + 1, FALSE, slot)
    \/ Clear(0, FALSE, Nothing)

(* The actions are applied also when writing fails afterwards.             *)
SaveGame ==
    /\ mPlayer # 0
    /\ ApplyDelayedActions
    /\ \/ slot' = [d \in Dests |-> Len(mEventBatch[d]) + Len(mNewEventBatch[d])]
       \/ UNCHANGED slot
    /\ UNCHANGED <<workerVars, main, update, eventVars, gameVars, requestVars,
                   delivered, due>>

-----------------------------------------------------------------------------
(* Engine::frame, on the main thread                                       *)

FrameBegins ==
    /\ main = "head"
    /\ Goto("input")
    /\ UNCHANGED <<workerVars, update, eventVars, mActionQueue, gameVars, requestVars,
                   slot, history>>

(* The menus of the game and a key: they begin a game at once, save, or    *)
(* ask for a game.                                                         *)
MenuStartsGame ==
    /\ main = "input"
    /\ NewGame \/ (slot # NoSave /\ LoadGame)
    /\ UNCHANGED <<workerVars, main, update, mActionQueue, requestVars, slot>>

MenuSaves == main = "input" /\ SaveGame

KeyLoads ==
    /\ main = "input" /\ slot # NoSave
    /\ mLoadRequest' = TRUE
    /\ UNCHANGED <<workerVars, main, update, eventVars, mActionQueue, gameVars,
                   mNewGameRequest, slot, history>>

(* A window that is not visible ends the frame, so does a video.           *)
InputEnds ==
    /\ main = "input"
    /\ Goto("newGame") \/ Goto("head")
    /\ UNCHANGED <<workerVars, update, eventVars, mActionQueue, gameVars, requestVars,
                   slot, history>>

(* synchronizedUpdate: onNewGame first.                                    *)
NewGameHandlerRuns ==
    /\ main = "newGame"
    /\ Goto("sync")
    /\ mNewGameStarted' = FALSE
    /\ UNCHANGED <<workerVars, update, eventVars, mActionQueue, mPlayer, game, saved, isNew,
                   requestVars, slot, delivered, due>>

(* Handlers of input and of menu events; menu scripts may save and ask for *)
(* a game.                                                                 *)
MenuScriptSaves == main = "sync" /\ SaveGame

MenuScriptAsks ==
    /\ main = "sync"
    /\ \/ mNewGameRequest' = TRUE /\ UNCHANGED mLoadRequest
       \/ slot # NoSave /\ mLoadRequest' = TRUE /\ UNCHANGED mNewGameRequest
    /\ UNCHANGED <<workerVars, main, update, eventVars, mActionQueue, gameVars, slot, history>>

CallMenuEventHandlers ==
    /\ main = "sync"
    /\ Goto("onFrame")
    /\ delivered' = [delivered EXCEPT !["menu"] = @ \o mMenuEvents]
    /\ mMenuEvents' = <<>>
    /\ UNCHANGED <<workerVars, update, mNewEventBatch, mEventBatch, sent, mActionQueue,
                   gameVars, requestVars, slot, due>>

SynchronizedUpdateApplies ==
    /\ main = "onFrame"
    /\ Goto("uiMode")
    /\ ApplyDelayedActions
    /\ UNCHANGED <<workerVars, update, eventVars, gameVars, requestVars, slot, delivered,
                   due>>

SynchronizedUpdateEnds ==
    /\ main = "uiMode"
    /\ Goto("state")
    /\ UNCHANGED <<workerVars, update, eventVars, mActionQueue, gameVars, requestVars,
                   slot, history>>

(* StateManager::update; the menu that closes first runs a handler.        *)
StateManagerStarts ==
    /\ main = "state"
    /\ Goto("load")
    /\ mNewGameRequest' = FALSE
    /\ IF mNewGameRequest THEN NewGame ELSE UNCHANGED <<eventVars, gameVars, delivered, due>>
    /\ UNCHANGED <<workerVars, update, mActionQueue, mLoadRequest, slot>>

StateManagerLoads ==
    /\ main = "load"
    /\ Goto("world")
    /\ mLoadRequest' = FALSE
    /\ IF mLoadRequest THEN LoadGame ELSE UNCHANGED <<eventVars, gameVars, delivered, due>>
    /\ UNCHANGED <<workerVars, update, mActionQueue, mNewGameRequest, slot>>

(* Handlers that the main thread runs, and the game that queues events.    *)
MainRunsScripts ==
    /\ main \in LuaPhases \ {"input", "newGame"}
    /\ ScriptRuns
    /\ UNCHANGED <<workerVars, main, update, gameVars, requestVars, slot, history>>

WorldEnds ==
    /\ main = "world"
    /\ Goto("allow")
    /\ UNCHANGED <<workerVars, update, eventVars, mActionQueue, gameVars, requestVars,
                   slot, history>>

(* An exception ends the part of the frame before the rendering.           *)
FrameThrows ==
    /\ main \in LuaPhases
    /\ Goto("allow")
    /\ UNCHANGED <<workerVars, update, eventVars, mActionQueue, gameVars, requestVars,
                   slot, history>>

(* On the web the next frame goes on after any other exception.            *)
FrameIsAbandoned ==
    /\ ~mThread /\ main \in LuaPhases \cup {"render"}
    /\ Goto("head")
    /\ UNCHANGED <<workerVars, update, eventVars, mActionQueue, gameVars, requestVars,
                   slot, history>>

-----------------------------------------------------------------------------
(* Worker, the main thread's side                                          *)

OthersUnchanged == UNCHANGED <<eventVars, mActionQueue, gameVars, requestVars, slot, history>>

(* The request is set without the lock.                                    *)
AllowUpdateUnlocked ==
    /\ main = "allow"
    /\ mUpdateRequest' = mThread
    /\ Goto(IF mThread THEN "notify" ELSE "render")
    /\ UNCHANGED <<mThread, mMutex, mJoinRequest, worker, update>>
    /\ OthersUnchanged

AllowUpdate ==
    /\ main = "allow"
    /\ IF mThread THEN ~mMutex /\ mUpdateRequest' = TRUE /\ Goto("notify")
       ELSE Goto("render") /\ UNCHANGED mUpdateRequest
    /\ UNCHANGED <<mThread, mMutex, mJoinRequest, worker, update>>
    /\ OthersUnchanged

(* notify_one: the other thread, if it sleeps.                             *)
Notify(from, to) ==
    /\ main = from
    /\ Goto(to)
    /\ worker' = IF worker = "asleep" THEN "awake" ELSE worker
    /\ UNCHANGED <<mThread, mMutex, mUpdateRequest, mJoinRequest, update>>
    /\ OthersUnchanged

NotifyUpdate == Notify("notify", "render")

RenderingEnds ==
    /\ main = "render"
    /\ Goto("finish")
    /\ UNCHANGED <<workerVars, update>> /\ OthersUnchanged

(* Nothing catches an exception of the rendering but main().               *)
RenderingThrows ==
    /\ main = "render"
    /\ Goto("join")
    /\ UNCHANGED <<workerVars, update>> /\ OthersUnchanged

FinishUpdate ==
    /\ main = "finish" /\ mThread /\ ~mMutex
    /\ IF mUpdateRequest THEN Goto("asleep") ELSE Goto("head")
    /\ UNCHANGED <<workerVars, update>> /\ OthersUnchanged

(* Without a thread: update() right here.                                  *)
FinishUpdateInline ==
    /\ main = "finish" /\ ~mThread
    /\ \/ update = "idle" /\ update' = "begin" /\ UNCHANGED main
       \/ update = "done" /\ update' = "idle" /\ Goto("head")
    /\ UNCHANGED workerVars /\ OthersUnchanged

Quit ==
    /\ main = "head"
    /\ Goto("join")
    /\ UNCHANGED <<workerVars, update>> /\ OthersUnchanged

Join ==
    /\ main = "join" /\ ~mMutex
    /\ mJoinRequest' = mThread
    /\ Goto(IF mThread THEN "notifyJoin" ELSE "end")
    /\ UNCHANGED <<mThread, mMutex, mUpdateRequest, worker, update>> /\ OthersUnchanged

NotifyJoin == Notify("notifyJoin", "joining")

Joined ==
    /\ main = "joining" /\ worker = "gone"
    /\ Goto("end")
    /\ UNCHANGED <<workerVars, update>> /\ OthersUnchanged

-----------------------------------------------------------------------------
(* Worker::run                                                             *)

(* The request is taken and the lock released before update().             *)
WorkerTakesRequest ==
    /\ worker = "awake" /\ ~mMutex
    /\ IF mJoinRequest THEN worker' = "gone" /\ UNCHANGED <<mMutex, mUpdateRequest, update>>
       ELSE IF mUpdateRequest
       THEN worker' = "updating" /\ mUpdateRequest' = FALSE /\ update' = "begin" /\ UNCHANGED mMutex
       ELSE worker' = "dozing" /\ mMutex' = TRUE /\ UNCHANGED <<mUpdateRequest, update>>
    /\ UNCHANGED <<mThread, mJoinRequest, main>> /\ OthersUnchanged

(* The lock is taken and the predicate is tested.                          *)
WorkerTests ==
    /\ worker = "awake" /\ ~mMutex
    /\ IF mJoinRequest THEN worker' = "gone" /\ UNCHANGED <<mMutex, update>>
       ELSE IF mUpdateRequest THEN worker' = "updating" /\ mMutex' = TRUE /\ update' = "begin"
       ELSE worker' = "dozing" /\ mMutex' = TRUE /\ UNCHANGED update
    /\ UNCHANGED <<mThread, mUpdateRequest, mJoinRequest, main>> /\ OthersUnchanged

WorkerSleeps ==
    /\ worker = "dozing"
    /\ worker' = "asleep" /\ mMutex' = FALSE
    /\ UNCHANGED <<mThread, mUpdateRequest, mJoinRequest, main, update>> /\ OthersUnchanged

(* update() returned, or threw.                                            *)
WorkerResets ==
    /\ worker = "updating" /\ update = "done"
    /\ mUpdateRequest' = FALSE /\ mMutex' = FALSE
    /\ worker' = "notifying" /\ update' = "idle"
    /\ UNCHANGED <<mThread, mJoinRequest, main>> /\ OthersUnchanged

WorkerNotifies ==
    /\ worker = "notifying"
    /\ worker' = "awake"
    /\ IF main = "asleep" THEN Goto("finish") ELSE UNCHANGED main
    /\ UNCHANGED <<mThread, mMutex, mUpdateRequest, mJoinRequest, update>> /\ OthersUnchanged

-----------------------------------------------------------------------------
UpdateGoesOn == FinalizeEventBatch \/ CallEventHandlers \/ UpdateReturns

WorkerGoesOn == WorkerTests \/ WorkerSleeps \/ WorkerResets \/ WorkerNotifies

MainGoesOn ==
    \/ FrameBegins \/ InputEnds \/ NewGameHandlerRuns \/ CallMenuEventHandlers
    \/ SynchronizedUpdateApplies \/ SynchronizedUpdateEnds \/ StateManagerStarts
    \/ StateManagerLoads \/ WorldEnds \/ AllowUpdate \/ NotifyUpdate \/ RenderingEnds
    \/ FinishUpdate \/ FinishUpdateInline \/ Join \/ NotifyJoin \/ Joined

Next ==
    \/ UpdateGoesOn \/ HandlersRun
    \/ WorkerGoesOn
    \/ MainGoesOn
    \/ MenuStartsGame \/ MenuSaves \/ KeyLoads
    \/ MenuScriptSaves \/ MenuScriptAsks \/ MainRunsScripts
    \/ FrameThrows \/ FrameIsAbandoned \/ RenderingThrows \/ Quit

Spec == Init /\ [][Next]_vars

(* The system runs both threads; nobody has to do what a player or a       *)
(* script may do.                                                          *)
FairSpec ==
    /\ Spec
    /\ WF_vars(UpdateGoesOn) /\ WF_vars(WorkerGoesOn) /\ WF_vars(MainGoesOn)

-----------------------------------------------------------------------------
(* Properties                                                              *)

TypeOK ==
    /\ mThread \in BOOLEAN /\ mMutex \in BOOLEAN
    /\ mUpdateRequest \in BOOLEAN /\ mJoinRequest \in BOOLEAN
    /\ worker \in {"awake", "dozing", "asleep", "updating", "notifying", "gone"}
    /\ main \in LuaPhases \cup {"head", "allow", "notify", "render", "finish", "asleep",
                                "join", "notifyJoin", "joining", "end"}
    /\ update \in {"idle", "begin", "events", "handlers", "done"}
    /\ mPlayer \in {0, game} /\ game \in 0..MaxGames

(* The main thread neither runs scripts nor changes the world, nor saves   *)
(* the storage of the scripts at the end, while update() runs.             *)
LuaRunsAlone ==
    update # "idle" =>
        IF mThread THEN main \notin LuaPhases \cup {"head", "allow", "end"}
        ELSE main = "finish"

Kinds == Dests \cup {"menu"}
Queued(d) == IF d = "menu" THEN mMenuEvents ELSE mEventBatch[d] \o mNewEventBatch[d]
Ids(s) == [n \in DOMAIN s |-> s[n].id]
Way(d) == Ids(delivered[d] \o Queued(d))
IsIncreasing(s) == \A m, n \in DOMAIN s : m < n => s[m] < s[n]
Arrived == (UNION {ToSet(Ids(delivered[d])) : d \in Kinds}) \cup ToSet(Ids(mMenuEvents))

(* Events of one kind are delivered once and in the order they were sent,  *)
(* and an update delivers all that were sent before it (those for menus    *)
(* wait for the next synchronizedUpdate), also when frames fail, are       *)
(* dropped or render while it runs, except those that a saved game brought.*)
EventsArriveUnlessSaved ==
    /\ \A d \in Kinds : IsIncreasing(Way(d))
    /\ (saved + 1)..sent \subseteq UNION {ToSet(Way(d)) : d \in Kinds}
    /\ update = "handlers" /\ mPlayer # 0 => (saved + 1)..due \subseteq Arrived

(* Also those: "Events are delivered with a small delay (in single player  *)
(* the delay is always one frame)".                                        *)
EventsArrive ==
    update = "handlers" /\ mPlayer # 0 => 1..due \subseteq Arrived

(* Whatever ends a game, at whatever point of the frame, none of its       *)
(* events is left for the next one, nor an onNewGame for a loaded game;    *)
(* only actions are.                                                       *)
OnlyActionsOutliveTheirGame ==
    /\ \A d \in Kinds : \A e \in ToSet(Queued(d)) : e.game = mPlayer
    /\ mNewGameStarted => isNew

(* Neither thread waits for the other for good: there is always a next     *)
(* frame, and once the program ends it joins the worker.                   *)
FramesGoOn == []<>(main \in {"head", "end"})
=============================================================================
