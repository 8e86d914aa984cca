--------------------------- MODULE LuaManagerProofs ---------------------------
(* Proofs, for any number of events, actions and games, with a worker      *)
(* thread or without, that scripts never run beside the game, and that no  *)
(* event gets lost, is repeated, overtakes another or outlives its game.   *)
EXTENDS LuaManager, SequenceTheorems, TLAPS

-----------------------------------------------------------------------------
(* Who holds the lock, whose turn it is and where update() is.             *)

(* With a thread: the lock belongs to a worker between its test and its    *)
(* sleep, or in update(); the request stays set until update() is over,    *)
(* and after setting it the main thread is on its way to wait for that.    *)
ThreadInv ==
    mThread =>
        /\ mMutex <=> worker \in {"dozing", "updating"}
        /\ update # "idle" <=> worker = "updating"
        /\ worker = "updating" => mUpdateRequest
        /\ mUpdateRequest => main \in {"notify", "render", "finish", "asleep", "join",
                                       "notifyJoin", "joining", "end"}
        /\ worker = "gone" => mJoinRequest
        /\ mJoinRequest => main \in {"notifyJoin", "joining", "end"}
        /\ main = "end" => worker = "gone"

(* Without: update() is a part of finishUpdate().                          *)
InlineInv ==
    ~mThread =>
        /\ worker = "gone" /\ ~mMutex /\ ~mUpdateRequest /\ ~mJoinRequest
        /\ main \notin {"notify", "asleep", "notifyJoin", "joining"}
        /\ update # "idle" => main = "finish"

RunsInv == TypeOK /\ ThreadInv /\ InlineInv

LEMMA RunsInvInit == Init => RunsInv
<1> SUFFICES ASSUME Init PROVE RunsInv
  OBVIOUS
<1>1. mThread \in BOOLEAN /\ MaxGames \in Nat
  BY ThreadChoicesAssumption, BoundsAssumption DEF Init
<1>2. 0 \in 0..MaxGames
  BY <1>1
<1>3. TypeOK
  BY <1>1, <1>2 DEF Init, TypeOK
<1>4. ThreadInv /\ InlineInv
  BY <1>1 DEF Init, ThreadInv, InlineInv
<1> QED BY <1>3, <1>4 DEF RunsInv

(* A game begins or ends: one more game, or no player.                     *)
LEMMA GamesAreCounted ==
    ASSUME TypeOK, NewGame \/ LoadGame
    PROVE  game' \in 0..MaxGames /\ mPlayer' \in {0, game'}
  BY BoundsAssumption DEF TypeOK, NewGame, LoadGame, Clear

(* What scripts and saving do leaves the threads and the games alone.      *)
LEMMA ScriptsAndSavesKeepRuns ==
    ASSUME RunsInv,
           \/ HandlersRun \/ MainRunsScripts \/ KeyLoads \/ MenuScriptAsks
           \/ MenuSaves \/ MenuScriptSaves
    PROVE  RunsInv'
<1>1. UNCHANGED <<workerVars, main, update, mPlayer, game>>
  BY DEF HandlersRun, MainRunsScripts, KeyLoads, MenuScriptAsks, MenuSaves,
         MenuScriptSaves, SaveGame, gameVars
<1> QED BY <1>1 DEF RunsInv, TypeOK, ThreadInv, InlineInv, workerVars

(* Update goes on only while it runs, and does not end here.               *)
LEMMA UpdateKeepsRuns ==
    ASSUME RunsInv, UpdateGoesOn
    PROVE  RunsInv'
<1>1. /\ UNCHANGED <<workerVars, main, mPlayer, game>>
      /\ update # "idle" /\ update' \in {"events", "handlers", "done"}
  BY DEF UpdateGoesOn, FinalizeEventBatch, CallEventHandlers, UpdateReturns, gameVars
<1> QED BY <1>1 DEF RunsInv, TypeOK, ThreadInv, InlineInv, workerVars

LEMMA WorkerKeepsRuns ==
    ASSUME RunsInv, WorkerGoesOn
    PROVE  RunsInv'
<1> USE DEF RunsInv, TypeOK, ThreadInv, InlineInv, OthersUnchanged, gameVars
<1>1. CASE WorkerTests
  BY <1>1 DEF WorkerTests
<1>2. CASE WorkerSleeps
  BY <1>2 DEF WorkerSleeps
<1>3. CASE WorkerResets
  BY <1>3 DEF WorkerResets
<1>4. CASE WorkerNotifies
  BY <1>4 DEF WorkerNotifies, Goto
<1> QED BY <1>1, <1>2, <1>3, <1>4 DEF WorkerGoesOn

(* Between the head of the loop and allowUpdate() nothing runs update().   *)
LEMMA FrameKeepsRuns ==
    ASSUME RunsInv,
           \/ FrameBegins \/ InputEnds \/ NewGameHandlerRuns \/ CallMenuEventHandlers
           \/ SynchronizedUpdateApplies \/ SynchronizedUpdateEnds \/ StateManagerStarts
           \/ StateManagerLoads \/ WorldEnds \/ FrameThrows \/ FrameIsAbandoned
           \/ MenuStartsGame \/ Quit
    PROVE  RunsInv'
<1>1. /\ UNCHANGED <<workerVars, update>>
      /\ game' \in 0..MaxGames /\ mPlayer' \in {0, game'}
      /\ \/ main \in LuaPhases \cup {"head"}
         \/ main = "render" /\ ~mThread
      /\ main' \in LuaPhases \cup {"head", "allow", "join"}
  <2> USE DEF RunsInv, TypeOK, gameVars, Goto, LuaPhases
  <2>1. CASE FrameBegins \/ InputEnds \/ Quit \/ WorldEnds \/ FrameThrows \/ FrameIsAbandoned
    BY <2>1 DEF FrameBegins, InputEnds, Quit, OthersUnchanged, WorldEnds, FrameThrows,
                FrameIsAbandoned
  <2>2. CASE \/ NewGameHandlerRuns \/ CallMenuEventHandlers \/ SynchronizedUpdateApplies
             \/ SynchronizedUpdateEnds
    BY <2>2 DEF NewGameHandlerRuns, CallMenuEventHandlers, SynchronizedUpdateApplies,
                SynchronizedUpdateEnds
  <2>3. CASE MenuStartsGame
    BY <2>3, GamesAreCounted DEF MenuStartsGame
  <2>4. CASE StateManagerStarts
    BY <2>4, GamesAreCounted DEF StateManagerStarts
  <2>5. CASE StateManagerLoads
    BY <2>5, GamesAreCounted DEF StateManagerLoads
  <2> QED BY <2>1, <2>2, <2>3, <2>4, <2>5
<1> QED BY <1>1 DEF RunsInv, TypeOK, ThreadInv, InlineInv, workerVars, LuaPhases

(* The main thread's side of Worker, the rendering and the end.            *)
LEMMA MainKeepsRuns ==
    ASSUME RunsInv,
           \/ AllowUpdate \/ NotifyUpdate \/ RenderingEnds \/ RenderingThrows
           \/ FinishUpdate \/ FinishUpdateInline \/ Join \/ NotifyJoin \/ Joined
    PROVE  RunsInv'
<1> USE DEF RunsInv, TypeOK, ThreadInv, InlineInv, OthersUnchanged, gameVars, workerVars,
            Goto, LuaPhases
<1>1. CASE AllowUpdate
  BY <1>1 DEF AllowUpdate
<1>2. CASE NotifyUpdate
  BY <1>2 DEF NotifyUpdate, Notify
<1>3. CASE RenderingEnds
  BY <1>3 DEF RenderingEnds
<1>4. CASE RenderingThrows
  BY <1>4 DEF RenderingThrows
<1>5. CASE FinishUpdate
  BY <1>5 DEF FinishUpdate
<1>6. CASE FinishUpdateInline
  BY <1>6 DEF FinishUpdateInline
<1>7. CASE Join
  BY <1>7 DEF Join
<1>8. CASE NotifyJoin
  BY <1>8 DEF NotifyJoin, Notify
<1>9. CASE Joined
  BY <1>9 DEF Joined
<1> QED BY <1>1, <1>2, <1>3, <1>4, <1>5, <1>6, <1>7, <1>8, <1>9

LEMMA RunsInvNext == RunsInv /\ [Next]_vars => RunsInv'
<1> SUFFICES ASSUME RunsInv, [Next]_vars PROVE RunsInv'
  OBVIOUS
<1>1. CASE UNCHANGED vars
  BY <1>1 DEF vars, workerVars, gameVars, RunsInv, TypeOK, ThreadInv, InlineInv
<1>2. CASE Next
  BY <1>2, ScriptsAndSavesKeepRuns, UpdateKeepsRuns, WorkerKeepsRuns, FrameKeepsRuns,
     MainKeepsRuns
  DEF Next, MainGoesOn
<1> QED BY <1>1, <1>2

LEMMA RunsInvHolds == Spec => []RunsInv
  BY RunsInvInit, RunsInvNext, PTL DEF Spec

(* The types of threads and games, whatever the threads do and however     *)
(* many games there are.                                                   *)
THEOREM TypeCorrect == Spec => []TypeOK
<1>1. RunsInv => TypeOK
  BY DEF RunsInv
<1> QED BY <1>1, RunsInvHolds, PTL

(* LuaManager::update, on the worker or inside finishUpdate(), never runs  *)
(* while the main thread runs scripts, changes the world or ends.          *)
THEOREM RunsAlone == Spec => []LuaRunsAlone
<1>1. RunsInv => LuaRunsAlone
  BY DEF RunsInv, TypeOK, ThreadInv, InlineInv, LuaRunsAlone, LuaPhases
<1> QED BY <1>1, RunsInvHolds, PTL

-----------------------------------------------------------------------------
(* Sequences of events: what they hold, and in which order.                *)

Events == [id : Nat, game : Nat]

IsInOrder(s) == \A m, n \in DOMAIN s : m < n => s[m].id < s[n].id

LEMMA ConcatSet ==
    ASSUME NEW S, NEW s \in Seq(S), NEW t \in Seq(S)
    PROVE  s \o t \in Seq(S) /\ ToSet(s \o t) = ToSet(s) \cup ToSet(t)
<1> DEFINE u == s \o t
<1>1. /\ u \in Seq(S)
      /\ Len(u) = Len(s) + Len(t)
      /\ \A i \in 1..(Len(s) + Len(t)) :
            u[i] = IF i <= Len(s) THEN s[i] ELSE t[i - Len(s)]
  BY ConcatProperties
<1>2. /\ Len(s) \in Nat /\ Len(t) \in Nat
      /\ DOMAIN s = 1..Len(s) /\ DOMAIN t = 1..Len(t) /\ DOMAIN u = 1..(Len(s) + Len(t))
  BY <1>1, LenProperties
<1> HIDE DEF u
<1>3. ASSUME NEW x \in ToSet(u) PROVE x \in ToSet(s) \cup ToSet(t)
  <2>1. PICK i \in DOMAIN u : x = u[i]
    BY DEF ToSet
  <2>2. CASE i <= Len(s)
    <3>1. i \in DOMAIN s /\ x = s[i]
      BY <1>1, <1>2, <2>1, <2>2
    <3> QED BY <3>1 DEF ToSet
  <2>3. CASE ~(i <= Len(s))
    <3>1. i - Len(s) \in DOMAIN t /\ x = t[i - Len(s)]
      BY <1>1, <1>2, <2>1, <2>3
    <3> QED BY <3>1 DEF ToSet
  <2> QED BY <2>2, <2>3
<1>4. ASSUME NEW x \in ToSet(s) PROVE x \in ToSet(u)
  <2>1. PICK i \in DOMAIN s : x = s[i]
    BY DEF ToSet
  <2>2. i \in DOMAIN u /\ u[i] = x
    BY <1>1, <1>2, <2>1
  <2> QED BY <2>2 DEF ToSet
<1>5. ASSUME NEW x \in ToSet(t) PROVE x \in ToSet(u)
  <2>1. PICK i \in DOMAIN t : x = t[i]
    BY DEF ToSet
  <2>2. i + Len(s) \in DOMAIN u /\ u[i + Len(s)] = x
    BY <1>1, <1>2, <2>1
  <2> QED BY <2>2 DEF ToSet
<1> QED BY <1>1, <1>3, <1>4, <1>5 DEF u

LEMMA AppendSet ==
    ASSUME NEW S, NEW s \in Seq(S), NEW e \in S
    PROVE  Append(s, e) \in Seq(S) /\ ToSet(Append(s, e)) = ToSet(s) \cup {e}
<1>1. Append(s, e) = s \o <<e>> /\ <<e>> \in Seq(S) /\ ToSet(<<e>>) = {e}
  BY AppendIsConcat DEF ToSet
<1>2. s \o <<e>> \in Seq(S) /\ ToSet(s \o <<e>>) = ToSet(s) \cup ToSet(<<e>>)
  BY <1>1, ConcatSet
<1> QED BY <1>1, <1>2

LEMMA EmptySet == ToSet(<<>>) = {}
  BY DEF ToSet

LEMMA IdsSet ==
    ASSUME NEW s \in Seq(Events)
    PROVE  /\ ToSet(Ids(s)) = {e.id : e \in ToSet(s)}
           /\ IsIncreasing(Ids(s)) <=> IsInOrder(s)
<1>1. DOMAIN Ids(s) = DOMAIN s /\ \A n \in DOMAIN s : Ids(s)[n] = s[n].id
  BY DEF Ids
<1>2. ToSet(Ids(s)) = {e.id : e \in ToSet(s)}
  BY <1>1 DEF ToSet
<1> QED BY <1>1, <1>2 DEF IsIncreasing, IsInOrder

(* A later event goes to the end.                                          *)
LEMMA AppendOrder ==
    ASSUME NEW s \in Seq(Events), NEW e \in Events, IsInOrder(s),
           \A x \in ToSet(s) : x.id < e.id
    PROVE  IsInOrder(Append(s, e))
<1> DEFINE t == Append(s, e)
<1>1. /\ Len(s) \in Nat /\ DOMAIN s = 1..Len(s) /\ DOMAIN t = 1..(Len(s) + 1)
      /\ \A i \in 1..Len(s) : t[i] = s[i]
      /\ t[Len(s) + 1] = e
  BY AppendProperties, LenProperties
<1> HIDE DEF t
<1>2. \A i \in 1..Len(s) : s[i].id < e.id
  BY <1>1 DEF ToSet
<1>3. ASSUME NEW m \in DOMAIN t, NEW n \in DOMAIN t, m < n PROVE t[m].id < t[n].id
  <2>1. m \in 1..Len(s)
    BY <1>1, <1>3
  <2>2. CASE n = Len(s) + 1
    BY <1>1, <1>2, <2>1, <2>2
  <2>3. CASE n # Len(s) + 1
    <3>1. n \in 1..Len(s)
      BY <1>1, <2>3
    <3> QED BY <1>1, <1>3, <2>1, <3>1 DEF IsInOrder
  <2> QED BY <2>2, <2>3
<1> QED BY <1>3 DEF IsInOrder, t

LEMMA ConcatAt ==
    ASSUME NEW S, NEW s \in Seq(S), NEW t \in Seq(S), NEW j \in Nat \ {0}
    PROVE  /\ Len(s \o t) = Len(s) + Len(t) /\ DOMAIN (s \o t) = 1..(Len(s) + Len(t))
           /\ j <= Len(s) => (s \o t)[j] = s[j]
           /\ j <= Len(t) => (s \o t)[Len(s) + j] = t[j]
<1>1. /\ s \o t \in Seq(S) /\ Len(s \o t) = Len(s) + Len(t)
      /\ \A i \in 1..(Len(s) + Len(t)) :
            (s \o t)[i] = IF i <= Len(s) THEN s[i] ELSE t[i - Len(s)]
  BY ConcatProperties
<1>2. Len(s) \in Nat /\ Len(t) \in Nat
  BY LenProperties
<1>3. ASSUME j <= Len(t) PROVE (s \o t)[Len(s) + j] = t[j]
  <2>1. /\ Len(s) + j \in 1..(Len(s) + Len(t)) /\ ~(Len(s) + j <= Len(s))
        /\ Len(s) + j - Len(s) = j
    BY <1>2, <1>3
  <2>2. (s \o t)[Len(s) + j] = t[Len(s) + j - Len(s)]
    BY <1>1, <2>1
  <2> QED BY <2>1, <2>2
<1>4. ASSUME j <= Len(s) PROVE (s \o t)[j] = s[j]
  <2>1. j \in 1..(Len(s) + Len(t))
    BY <1>2, <1>4
  <2> QED BY <1>1, <1>4, <2>1
<1>5. DOMAIN (s \o t) = 1..(Len(s) + Len(t))
  BY <1>1, LenProperties
<1> QED BY <1>1, <1>3, <1>4, <1>5

(* Leaving out a part keeps the order of the rest.                         *)
LEMMA LeaveOutOrder ==
    ASSUME NEW s \in Seq(Events), NEW t \in Seq(Events), NEW u \in Seq(Events),
           IsInOrder(s \o (t \o u))
    PROVE  IsInOrder(s \o u)
<1> DEFINE v == t \o u
           w == s \o v
           x == s \o u
           M == Len(s)
           K == Len(t)
           L == Len(u)
<1>1. M \in Nat /\ K \in Nat /\ L \in Nat
  BY LenProperties
<1>2. v \in Seq(Events) /\ Len(v) = K + L
  BY ConcatProperties
<1>3. DOMAIN x = 1..(M + L) /\ DOMAIN w = 1..(M + (K + L))
  <2> HIDE DEF v
  <2>1. /\ x \in Seq(Events) /\ Len(x) = Len(s) + Len(u)
        /\ w \in Seq(Events) /\ Len(w) = Len(s) + Len(v)
    BY <1>2, ConcatProperties
  <2> QED BY <1>2, <2>1, LenProperties
<1>4. \A j \in Nat \ {0} : j <= M => x[j] = s[j] /\ w[j] = s[j]
  BY <1>2, ConcatAt
<1>5. \A j \in Nat \ {0} : j <= L => x[M + j] = u[j] /\ v[K + j] = u[j]
  BY ConcatAt
<1>6. \A j \in Nat \ {0} : j <= K + L => w[M + j] = v[j]
  <2> HIDE DEF v
  <2>1. \A j \in Nat \ {0} : j <= Len(v) => w[M + j] = v[j]
    BY <1>2, ConcatAt
  <2> QED BY <1>2, <2>1
<1>7. IsInOrder(w)
  OBVIOUS
<1> HIDE DEF w, v, x, M, K, L
<1> DEFINE At(i) == IF i <= M THEN i ELSE i + K
<1>8. ASSUME NEW i \in DOMAIN x PROVE At(i) \in DOMAIN w /\ x[i] = w[At(i)]
  <2>1. CASE i <= M
    <3>1. At(i) = i /\ i \in Nat \ {0} /\ i \in DOMAIN w
      BY <1>1, <1>3, <1>8, <2>1
    <3> QED BY <1>4, <2>1, <3>1
  <2>2. CASE ~(i <= M)
    <3> DEFINE j == i - M
    <3>0. i \in Int /\ i >= 1 /\ i <= M + L /\ i > M
      BY <1>1, <1>3, <1>8, <2>2
    <3>a. At(i) = i + K
      BY <2>2
    <3>b. i + K \in 1..(M + (K + L))
      BY <1>1, <3>0
    <3>c. j \in Nat \ {0} /\ j <= L /\ M + j = i
      BY <1>1, <3>0
    <3>d. K + j \in Nat \ {0} /\ K + j <= K + L /\ M + (K + j) = i + K
      BY <1>1, <3>c
    <3> HIDE DEF j, At
    <3>2. x[M + j] = u[j] /\ v[K + j] = u[j]
      BY <1>5, <3>c
    <3>3. w[M + (K + j)] = v[K + j]
      BY <1>6, <3>d
    <3> QED BY <1>3, <3>a, <3>b, <3>c, <3>d, <3>2, <3>3
  <2> QED BY <2>1, <2>2
<1>9. ASSUME NEW m \in DOMAIN x, NEW n \in DOMAIN x, m < n PROVE x[m].id < x[n].id
  <2>1. At(m) < At(n)
    BY <1>1, <1>3, <1>9
  <2> HIDE DEF At
  <2>2. w[At(m)].id < w[At(n)].id
    BY <1>7, <1>8, <2>1 DEF IsInOrder
  <2> QED BY <1>8, <2>2
<1> QED BY <1>9 DEF IsInOrder, x

-----------------------------------------------------------------------------
(* Where the events of a game are.                                         *)

Slots == [Dests -> Nat]

EventTypes ==
    /\ mNewEventBatch \in [Dests -> Seq(Events)] /\ mEventBatch \in [Dests -> Seq(Events)]
    /\ mMenuEvents \in Seq(Events)
    /\ delivered \in [Kinds -> Seq(Events)]
    /\ sent \in Nat /\ saved \in Nat /\ due \in Nat
    /\ slot \in Slots \cup {NoSave}
    /\ mLoadRequest => slot \in Slots

HasId(s, i) == \E e \in ToSet(s) : e.id = i
IsKnown(i) == \E d \in Kinds : HasId(delivered[d], i) \/ HasId(Queued(d), i)
HasArrived(i) == HasId(mMenuEvents, i) \/ \E d \in Kinds : HasId(delivered[d], i)

OrderInv ==
    \A d \in Kinds :
        /\ IsInOrder(delivered[d] \o Queued(d))
        /\ \A e \in ToSet(delivered[d]) \cup ToSet(Queued(d)) : e.id <= sent

(* Every event sent in this game is somewhere. The current batch holds     *)
(* none but saved ones, except in an update on its way to the handlers,    *)
(* and then the new batch is empty.                                        *)
ArrivalInv ==
    /\ \A i \in (saved + 1)..sent : IsKnown(i)
    /\ update # "events" => \A d \in Dests : \A e \in ToSet(mEventBatch[d]) : e.id <= saved
    /\ update = "events" => mNewEventBatch = NoEvents /\ due = sent
    /\ update = "handlers" => \A i \in (saved + 1)..due : HasArrived(i)

EventInv == EventTypes /\ OrderInv /\ OnlyActionsOutliveTheirGame /\ ArrivalInv
LEMMA QueuedTypes ==
    ASSUME EventTypes, NEW d \in Kinds
    PROVE  /\ delivered[d] \in Seq(Events) /\ Queued(d) \in Seq(Events)
           /\ d # "menu" => /\ d \in Dests
                            /\ mEventBatch[d] \in Seq(Events)
                            /\ mNewEventBatch[d] \in Seq(Events)
                            /\ Queued(d) = mEventBatch[d] \o mNewEventBatch[d]
                            /\ ToSet(Queued(d)) = ToSet(mEventBatch[d]) \cup ToSet(mNewEventBatch[d])
           /\ d = "menu" => Queued(d) = mMenuEvents
<1>1. delivered[d] \in Seq(Events)
  BY DEF EventTypes
<1>2. CASE d = "menu"
  BY <1>1, <1>2 DEF EventTypes, Queued
<1>3. CASE d # "menu"
  <2>1. /\ d \in Dests
        /\ mEventBatch[d] \in Seq(Events) /\ mNewEventBatch[d] \in Seq(Events)
        /\ Queued(d) = mEventBatch[d] \o mNewEventBatch[d]
    BY <1>3 DEF EventTypes, Queued, Kinds
  <2>2. /\ mEventBatch[d] \o mNewEventBatch[d] \in Seq(Events)
        /\ ToSet(mEventBatch[d] \o mNewEventBatch[d])
              = ToSet(mEventBatch[d]) \cup ToSet(mNewEventBatch[d])
    BY <2>1, ConcatSet
  <2> QED BY <1>1, <1>3, <2>1, <2>2
<1> QED BY <1>2, <1>3

(* Nothing changes but whose turn it is, and an announced game may have    *)
(* been started.                                                           *)
LEMMA NothingMoves ==
    ASSUME EventInv,
           UNCHANGED <<eventVars, delivered, mPlayer, saved, isNew>>,
           mNewGameStarted' => mNewGameStarted,
           EventTypes',
           \/ update' = update /\ due' = due
           \/ update # "events" /\ update' \notin {"events", "handlers"}
    PROVE  EventInv'
<1>1. \A d \in Kinds : Queued(d)' = Queued(d)
  BY DEF Queued, eventVars
<1>2. OrderInv'
  BY <1>1 DEF EventInv, OrderInv, eventVars
<1>3. OnlyActionsOutliveTheirGame'
  BY <1>1 DEF EventInv, OnlyActionsOutliveTheirGame
<1>4. ArrivalInv'
  BY <1>1 DEF EventInv, ArrivalInv, IsKnown, HasArrived, HasId, eventVars
<1> QED BY <1>2, <1>3, <1>4 DEF EventInv

(* One event e more, at the end of the queue of k.                         *)
LEMMA EventIsAdded ==
    ASSUME EventInv, EventTypes', NEW k \in Kinds, NEW e \in Events,
           e = Event(sent + 1), sent' = sent + 1,
           UNCHANGED <<delivered, mEventBatch, due, mPlayer, saved, isNew, mNewGameStarted, update>>,
           update # "events",
           Queued(k)' = Append(Queued(k), e),
           \A d \in Kinds \ {k} : Queued(d)' = Queued(d),
           k # "menu" => mMenuEvents' = mMenuEvents,
           k = "menu" => mMenuEvents' = Append(mMenuEvents, e)
    PROVE  EventInv'
<1>1. e.id = sent + 1 /\ e.game = mPlayer /\ sent \in Nat
  BY DEF Event, EventInv, EventTypes
<1>2. \A d \in Kinds : delivered[d] \in Seq(Events) /\ Queued(d) \in Seq(Events)
  BY QueuedTypes DEF EventInv
<1>3. ToSet(Queued(k)') = ToSet(Queued(k)) \cup {e}
  BY <1>2, AppendSet
<1>4. OrderInv'
  <2>1. ASSUME NEW d \in Kinds
        PROVE  /\ IsInOrder(delivered'[d] \o Queued(d)')
               /\ \A x \in ToSet(delivered'[d]) \cup ToSet(Queued(d)') : x.id <= sent'
    <3>1. CASE d # k
      <4>1. \A x \in ToSet(delivered[d]) \cup ToSet(Queued(d)) : x \in Events /\ x.id <= sent
        <5>1. \A x \in ToSet(delivered[d]) \cup ToSet(Queued(d)) : x \in Events
          BY <1>2, LenProperties DEF ToSet
        <5> QED BY <5>1 DEF EventInv, OrderInv
      <4>2. \A x \in ToSet(delivered[d]) \cup ToSet(Queued(d)) : x.id <= sent + 1
        BY <1>1, <4>1 DEF Events
      <4> QED BY <3>1, <4>2 DEF EventInv, OrderInv
    <3>2. CASE d = k
      <4> DEFINE s == delivered[k]
                 q == Queued(k)
      <4>1. s \in Seq(Events) /\ q \in Seq(Events) /\ s \o q \in Seq(Events)
            /\ ToSet(s \o q) = ToSet(s) \cup ToSet(q)
        BY <1>2, ConcatSet
      <4>2. \A x \in ToSet(s) \cup ToSet(q) : x \in Events /\ x.id <= sent
        <5>1. \A x \in ToSet(s) \cup ToSet(q) : x \in Events
          BY <4>1, LenProperties DEF ToSet
        <5> QED BY <5>1 DEF EventInv, OrderInv
      <4>3. IsInOrder(s \o q)
        BY DEF EventInv, OrderInv
      <4>4. \A x \in ToSet(s) \cup ToSet(q) : x.id < e.id
        BY <1>1, <4>2 DEF Events
      <4> HIDE DEF s, q
      <4>5. IsInOrder(Append(s \o q, e))
        BY <4>1, <4>3, <4>4, AppendOrder
      <4>6. Append(s \o q, e) = s \o Append(q, e)
        <5>1. Append(s \o q, e) = (s \o q) \o <<e>> /\ Append(q, e) = q \o <<e>>
          BY <4>1, AppendIsConcat
        <5>2. <<e>> \in Seq(Events)
          OBVIOUS
        <5>3. (s \o q) \o <<e>> = s \o (q \o <<e>>)
          BY <4>1, <5>2, ConcatAssociative
        <5> QED BY <5>1, <5>3
      <4>7. IsInOrder(delivered'[d] \o Queued(d)')
        BY <3>2, <4>5, <4>6 DEF s, q
      <4>8. \A x \in ToSet(s) \cup (ToSet(q) \cup {e}) : x.id <= sent + 1
        BY <1>1, <4>2 DEF Events
      <4> QED BY <1>3, <3>2, <4>7, <4>8 DEF s, q
    <3> QED BY <3>1, <3>2
  <2> QED BY <2>1 DEF OrderInv
<1>5. OnlyActionsOutliveTheirGame'
  BY <1>1, <1>3 DEF EventInv, OnlyActionsOutliveTheirGame
<1>6. ArrivalInv'
  <2>1. ASSUME NEW i \in (saved + 1)..sent' PROVE IsKnown(i)'
    <3>1. CASE i = sent + 1
      BY <1>1, <1>3, <3>1 DEF IsKnown, HasId
    <3>2. CASE i # sent + 1
      <4>1. i \in (saved + 1)..sent
        BY <1>1, <2>1, <3>2 DEF EventInv, EventTypes
      <4>2. IsKnown(i)
        BY <4>1 DEF EventInv, ArrivalInv
      <4>3. \A d \in Kinds : ToSet(Queued(d)) \subseteq ToSet(Queued(d)')
        BY <1>3
      <4> QED BY <4>2, <4>3 DEF IsKnown, HasId
    <3> QED BY <3>1, <3>2
  <2>2. ASSUME NEW i, HasArrived(i) PROVE HasArrived(i)'
    <3>1. ToSet(mMenuEvents) \subseteq ToSet(mMenuEvents')
      <4>1. mMenuEvents \in Seq(Events)
        BY DEF EventInv, EventTypes
      <4>2. ToSet(Append(mMenuEvents, e)) = ToSet(mMenuEvents) \cup {e}
        BY <4>1, AppendSet
      <4> QED BY <4>2
    <3> QED BY <2>2, <3>1 DEF HasArrived, HasId
  <2> QED BY <2>1, <2>2 DEF EventInv, ArrivalInv
<1> QED BY <1>4, <1>5, <1>6 DEF EventInv
(* What scripts may do: one event more, or an action.                      *)
LEMMA ScriptsKeepEvents ==
    ASSUME EventInv, mPlayer \in Nat, ScriptRuns, update # "events",
           UNCHANGED <<delivered, due, mPlayer, saved, isNew, mNewGameStarted, update, slot,
                       mLoadRequest>>
    PROVE  EventInv'
<1> DEFINE e == Event(sent + 1)
<1>1. e \in Events /\ sent + 1 \in Nat
  BY DEF Event, Events, EventInv, EventTypes
<1>2. CASE \E k \in Dests : SendEvent(k)
  <2>1. PICK k \in Dests : SendEvent(k)
    BY <1>2
  <2>2. /\ mNewEventBatch' = [mNewEventBatch EXCEPT ![k] = Append(@, e)]
        /\ sent' = sent + 1 /\ UNCHANGED <<mEventBatch, mMenuEvents>>
    BY <2>1 DEF SendEvent
  <2>3. /\ mNewEventBatch \in [Dests -> Seq(Events)] /\ mEventBatch \in [Dests -> Seq(Events)]
        /\ k \in Kinds /\ k # "menu" /\ "menu" \notin Dests
    BY DEF EventInv, EventTypes, Kinds, Dests
  <2> HIDE DEF e
  <2>4. /\ mNewEventBatch'[k] = Append(mNewEventBatch[k], e)
        /\ \A d \in Dests \ {k} : mNewEventBatch'[d] = mNewEventBatch[d]
        /\ mNewEventBatch' \in [Dests -> Seq(Events)]
    <3>1. Append(mNewEventBatch[k], e) \in Seq(Events)
      BY <1>1, <2>3, AppendSet
    <3> QED BY <2>2, <2>3, <3>1
  <2>5. EventTypes'
    BY <1>1, <2>2, <2>4 DEF EventInv, EventTypes
  <2>6. Queued(k)' = Append(Queued(k), e)
    <3> DEFINE b == mEventBatch[k]
               n == mNewEventBatch[k]
    <3>1. b \in Seq(Events) /\ n \in Seq(Events) /\ b \o n \in Seq(Events)
      BY <2>3, ConcatSet
    <3>2. Queued(k) = b \o n /\ Queued(k)' = b \o Append(n, e)
      BY <2>2, <2>3, <2>4 DEF Queued
    <3> HIDE DEF b, n
    <3>3. <<e>> \in Seq(Events)
      BY <1>1
    <3>4. Append(b \o n, e) = (b \o n) \o <<e>> /\ Append(n, e) = n \o <<e>>
      BY <1>1, <3>1, AppendIsConcat
    <3>5. (b \o n) \o <<e>> = b \o (n \o <<e>>)
      BY <3>1, <3>3, ConcatAssociative
    <3> QED BY <3>2, <3>4, <3>5
  <2>7. \A d \in Kinds \ {k} : Queued(d)' = Queued(d)
    BY <2>2, <2>4 DEF Queued, Kinds
  <2> QED BY <1>1, <2>2, <2>3, <2>5, <2>6, <2>7, EventIsAdded DEF e
<1>3. CASE SendMenuEvent
  <2>1. /\ mMenuEvents' = Append(mMenuEvents, e) /\ sent' = sent + 1
        /\ UNCHANGED <<mEventBatch, mNewEventBatch>>
    BY <1>3 DEF SendMenuEvent
  <2>2. "menu" \in Kinds /\ mMenuEvents \in Seq(Events)
    BY DEF EventInv, EventTypes, Kinds
  <2> HIDE DEF e
  <2>3. Append(mMenuEvents, e) \in Seq(Events)
    BY <1>1, <2>2, AppendSet
  <2>4. EventTypes'
    BY <1>1, <2>1, <2>3 DEF EventInv, EventTypes
  <2>5. /\ Queued("menu")' = Append(Queued("menu"), e)
        /\ \A d \in Kinds \ {"menu"} : Queued(d)' = Queued(d)
    BY <2>1 DEF Queued
  <2> QED BY <1>1, <2>1, <2>2, <2>4, <2>5, EventIsAdded DEF e
<1>4. CASE AddAction
  <2>1. UNCHANGED eventVars
    BY <1>4 DEF AddAction
  <2>2. EventTypes'
    BY <2>1 DEF EventInv, EventTypes, eventVars
  <2> QED BY <2>1, <2>2, NothingMoves
<1> QED BY <1>2, <1>3, <1>4 DEF ScriptRuns

(* A game begins with the saved events, in the order of the file.          *)
LEMMA ClearKeepsEvents ==
    ASSUME EventInv, NEW player \in Nat, NEW new \in BOOLEAN, NEW count \in Slots,
           Clear(player, new, count), update \notin {"events", "handlers"}, update' = update,
           slot' = slot, mLoadRequest' => mLoadRequest
    PROVE  EventInv'
<1> DEFINE first(d) == IF d = "local" THEN count["global"] ELSE 0
           batch(d) == mEventBatch'[d]
<1>1. /\ "global" \in Dests /\ "local" \in Dests /\ Dests = {"global", "local"}
      /\ Kinds = Dests \cup {"menu"} /\ "menu" \notin Dests
      /\ count["global"] \in Nat /\ count["local"] \in Nat
      /\ \A d \in Dests : count[d] \in Nat /\ first(d) \in Nat
                          /\ first(d) + count[d] <= count["global"] + count["local"]
  BY DEF Dests, Kinds, Slots
<1>2. /\ mPlayer' = player /\ mNewGameStarted' = new /\ isNew' = new
      /\ mNewEventBatch' = NoEvents /\ mMenuEvents' = <<>>
      /\ saved' = count["global"] + count["local"] /\ sent' = saved'
      /\ delivered' = NothingDelivered /\ due' = 0
      /\ \A d \in Dests : batch(d) = [n \in 1..count[d] |-> [id |-> first(d) + n, game |-> player]]
  BY <1>1 DEF Clear
<1>3. /\ \A d \in Dests : NoEvents[d] = <<>>
      /\ \A d \in Kinds : NothingDelivered[d] = <<>>
      /\ NoEvents \in [Dests -> Seq(Events)] /\ NothingDelivered \in [Kinds -> Seq(Events)]
  BY DEF NoEvents, NothingDelivered, Kinds
<1>4. ASSUME NEW d \in Dests
      PROVE  /\ batch(d) \in Seq(Events) /\ DOMAIN batch(d) = 1..count[d]
             /\ \A n \in DOMAIN batch(d) :
                    /\ batch(d)[n].id = first(d) + n /\ batch(d)[n].game = player
                    /\ batch(d)[n].id <= saved'
  <2>1. \A n \in 1..count[d] : [id |-> first(d) + n, game |-> player] \in Events
    BY <1>1 DEF Events
  <2>2. \A n \in 1..count[d] : first(d) + n <= count["global"] + count["local"]
    BY <1>1
  <2> DEFINE b == [n \in 1..count[d] |-> [id |-> first(d) + n, game |-> player]]
  <2>3. batch(d) = b
    BY <1>2
  <2>4. b \in [1..count[d] -> Events]
    BY <2>1
  <2>5. b \in Seq(Events)
    <3>1. count[d] \in Nat
      BY <1>1
    <3> HIDE DEF b
    <3> QED BY <2>4, <3>1, SeqDef
  <2>6. /\ DOMAIN b = 1..count[d]
        /\ \A n \in 1..count[d] : b[n].id = first(d) + n /\ b[n].game = player
    OBVIOUS
  <2> HIDE DEF b, first, batch
  <2> QED BY <1>2, <2>2, <2>3, <2>5, <2>6
<1> HIDE DEF first, batch
<1>5. EventTypes'
  <2>1. mEventBatch' \in [Dests -> Seq(Events)]
    <3>1. \A d \in Dests : mEventBatch'[d] \in Seq(Events)
      BY <1>4 DEF batch
    <3> QED BY <3>1 DEF Clear
  <2>2. saved' \in Nat /\ sent' \in Nat /\ due' \in Nat
    BY <1>1, <1>2
  <2>3. <<>> \in Seq(Events)
    OBVIOUS
  <2> QED BY <1>2, <1>3, <2>1, <2>2, <2>3 DEF EventInv, EventTypes
<1>6. \A d \in Dests : Queued(d)' = batch(d) /\ ToSet(Queued(d)') = ToSet(batch(d))
  BY <1>1, <1>2, <1>3, <1>4, ConcatEmptySeq DEF Queued, batch
<1>7. Queued("menu")' = <<>>
  BY <1>2 DEF Queued
<1>8. OrderInv'
  <2>1. ASSUME NEW d \in Dests PROVE IsInOrder(batch(d))
    BY <1>1, <1>4 DEF IsInOrder
  <2>2. ASSUME NEW d \in Dests PROVE \A e \in ToSet(batch(d)) : e.id <= sent'
    BY <1>2, <1>4 DEF ToSet
  <2>3. \A d \in Kinds : delivered'[d] = <<>> /\ <<>> \o Queued(d)' = Queued(d)'
    BY <1>1, <1>2, <1>3, <1>4, <1>6, <1>7, ConcatEmptySeq
  <2>4. IsInOrder(<<>>) /\ ToSet(<<>>) = {}
    BY EmptySet DEF IsInOrder
  <2> QED BY <1>1, <1>6, <1>7, <2>1, <2>2, <2>3, <2>4 DEF OrderInv
<1>9. OnlyActionsOutliveTheirGame'
  <2>1. \A d \in Dests : \A e \in ToSet(batch(d)) : e.game = player
    BY <1>4 DEF ToSet
  <2> QED BY <1>1, <1>2, <1>6, <1>7, <2>1, EmptySet DEF OnlyActionsOutliveTheirGame
<1>10. ArrivalInv'
  <2>1. (saved' + 1)..sent' = {}
    BY <1>1, <1>2
  <2>2. \A d \in Dests : \A e \in ToSet(mEventBatch'[d]) : e.id <= saved'
    BY <1>4 DEF ToSet, batch
  <2> QED BY <2>1, <2>2 DEF ArrivalInv
<1> QED BY <1>5, <1>8, <1>9, <1>10 DEF EventInv
(* The new batch becomes the current one, whose saved events are gone.     *)
LEMMA FinalizeKeepsEvents ==
    ASSUME EventInv, FinalizeEventBatch
    PROVE  EventInv'
<1>1. CASE mPlayer = 0
  <2>1. /\ UNCHANGED <<eventVars, gameVars, requestVars, slot, delivered, due>>
        /\ update = "begin" /\ update' = "done"
    BY <1>1 DEF FinalizeEventBatch, eventVars
  <2>2. EventTypes'
    BY <2>1 DEF EventInv, EventTypes, eventVars, gameVars, requestVars
  <2> QED BY <2>1, <2>2, NothingMoves DEF gameVars
<1>2. CASE mPlayer # 0
  <2>1. /\ UNCHANGED <<mMenuEvents, sent, gameVars, requestVars, slot, delivered>>
        /\ update = "begin" /\ update' = "events"
        /\ mEventBatch' = mNewEventBatch /\ mNewEventBatch' = NoEvents /\ due' = sent
    BY <1>2 DEF FinalizeEventBatch
  <2>2. /\ NoEvents \in [Dests -> Seq(Events)]
        /\ \A d \in Dests : NoEvents[d] = <<>>
    BY DEF NoEvents
  <2>3. EventTypes'
    BY <2>1, <2>2 DEF EventInv, EventTypes, gameVars, requestVars
  <2>4. ASSUME NEW d \in Dests
        PROVE  /\ d \in Kinds /\ delivered[d] \in Seq(Events)
               /\ mEventBatch[d] \in Seq(Events) /\ mNewEventBatch[d] \in Seq(Events)
               /\ Queued(d) = mEventBatch[d] \o mNewEventBatch[d]
               /\ ToSet(Queued(d)) = ToSet(mEventBatch[d]) \cup ToSet(mNewEventBatch[d])
               /\ Queued(d)' = mNewEventBatch[d]
    <3>1. d \in Kinds /\ d # "menu"
      BY DEF Kinds, Dests
    <3>2. Queued(d)' = mNewEventBatch[d] \o <<>>
      BY <2>1, <2>2, <3>1 DEF Queued
    <3> QED BY <3>1, <3>2, QueuedTypes, ConcatEmptySeq DEF EventInv
  <2>5. /\ Queued("menu")' = Queued("menu") /\ Kinds = Dests \cup {"menu"}
        /\ delivered' = delivered
    BY <2>1 DEF Queued, Kinds
  <2>6. OrderInv'
    <3>1. ASSUME NEW d \in Dests
          PROVE  /\ IsInOrder(delivered[d] \o Queued(d)')
                 /\ \A e \in ToSet(delivered[d]) \cup ToSet(Queued(d)') : e.id <= sent
      <4>1. IsInOrder(delivered[d] \o (mEventBatch[d] \o mNewEventBatch[d]))
        BY <2>4 DEF EventInv, OrderInv
      <4>2. IsInOrder(delivered[d] \o mNewEventBatch[d])
        BY <2>4, <4>1, LeaveOutOrder
      <4>3. \A e \in ToSet(delivered[d]) \cup ToSet(Queued(d)) : e.id <= sent
        BY <2>4 DEF EventInv, OrderInv
      <4> QED BY <2>4, <4>2, <4>3
    <3> QED BY <2>1, <2>5, <3>1 DEF EventInv, OrderInv
  <2>7. OnlyActionsOutliveTheirGame'
    BY <2>1, <2>4, <2>5 DEF EventInv, OnlyActionsOutliveTheirGame, gameVars
  <2>8. ArrivalInv'
    <3>1. ASSUME NEW i \in (saved + 1)..sent PROVE IsKnown(i)'
      <4>1. IsKnown(i) /\ i \in Nat /\ saved \in Nat /\ i > saved
        BY DEF EventInv, ArrivalInv, EventTypes
      <4>2. ASSUME NEW d \in Dests, NEW e \in ToSet(mEventBatch[d]) PROVE e.id # i
        <5>1. e.id <= saved
          BY <2>1 DEF EventInv, ArrivalInv
        <5>2. e \in Events
          <6>1. mEventBatch[d] \in Seq(Events)
            BY <2>4
          <6> QED BY <6>1, LenProperties DEF ToSet
        <5> QED BY <4>1, <5>1, <5>2 DEF Events
      <4> QED BY <2>4, <2>5, <4>1, <4>2 DEF IsKnown, HasId
    <3> QED BY <2>1, <3>1 DEF ArrivalInv, gameVars
  <2> QED BY <2>3, <2>6, <2>7, <2>8 DEF EventInv
<1> QED BY <1>1, <1>2

(* The current batch goes to the handlers, so that every event sent before *)
(* the update, and not saved, has arrived.                                 *)
LEMMA CallKeepsEvents ==
    ASSUME EventInv, CallEventHandlers
    PROVE  EventInv'
<1>1. /\ UNCHANGED <<mNewEventBatch, mMenuEvents, sent, gameVars, requestVars, slot, due>>
      /\ update = "events" /\ update' = "handlers"
      /\ mEventBatch' = NoEvents
  BY DEF CallEventHandlers
<1>2. /\ NoEvents \in [Dests -> Seq(Events)] /\ mNewEventBatch = NoEvents /\ due = sent
      /\ \A d \in Dests : NoEvents[d] = <<>>
  BY <1>1 DEF NoEvents, EventInv, ArrivalInv
<1>3. ASSUME NEW d \in Dests
      PROVE  /\ d \in Kinds /\ delivered[d] \in Seq(Events)
             /\ mEventBatch[d] \in Seq(Events)
             /\ Queued(d) = mEventBatch[d] /\ Queued(d)' = <<>>
             /\ delivered'[d] = delivered[d] \o mEventBatch[d]
             /\ delivered'[d] \in Seq(Events)
             /\ ToSet(delivered'[d]) = ToSet(delivered[d]) \cup ToSet(mEventBatch[d])
  <2>1. d \in Kinds /\ d # "menu"
    BY DEF Kinds, Dests
  <2>2. delivered[d] \in Seq(Events) /\ mEventBatch[d] \in Seq(Events)
    BY <2>1, QueuedTypes DEF EventInv
  <2>3. delivered'[d] = delivered[d] \o mEventBatch[d]
    BY <2>1 DEF CallEventHandlers, EventInv, EventTypes
  <2>4. Queued(d) = mEventBatch[d] \o <<>> /\ Queued(d)' = <<>> \o <<>>
    BY <1>1, <1>2, <2>1 DEF Queued
  <2>5. mEventBatch[d] \o <<>> = mEventBatch[d] /\ <<>> \o <<>> = <<>>
    BY <2>2, ConcatEmptySeq
  <2>6. /\ delivered[d] \o mEventBatch[d] \in Seq(Events)
        /\ ToSet(delivered[d] \o mEventBatch[d]) = ToSet(delivered[d]) \cup ToSet(mEventBatch[d])
    BY <2>2, ConcatSet
  <2> QED BY <2>1, <2>2, <2>3, <2>4, <2>5, <2>6
<1>4. /\ Queued("menu")' = Queued("menu") /\ Kinds = Dests \cup {"menu"}
      /\ delivered'["menu"] = delivered["menu"] /\ delivered["menu"] \in Seq(Events)
      /\ Queued("menu") = mMenuEvents
      /\ delivered' = [d \in Kinds |-> delivered'[d]]
  <2>1. Queued("menu")' = Queued("menu") /\ Queued("menu") = mMenuEvents
    BY <1>1 DEF Queued
  <2>2. Kinds = Dests \cup {"menu"} /\ "menu" \notin Dests /\ DOMAIN delivered = Kinds
        /\ delivered["menu"] \in Seq(Events)
    BY DEF Kinds, Dests, EventInv, EventTypes
  <2>3. delivered' = [d \in Kinds |->
                        IF d \in Dests THEN delivered[d] \o mEventBatch[d] ELSE delivered[d]]
    BY <2>2 DEF CallEventHandlers
  <2> QED BY <2>1, <2>2, <2>3
<1>5. EventTypes'
  <2>1. delivered' \in [Kinds -> Seq(Events)]
    BY <1>3, <1>4
  <2> QED BY <1>1, <1>2, <2>1 DEF EventInv, EventTypes, gameVars, requestVars
<1>6. OrderInv'
  <2>1. ASSUME NEW d \in Dests
        PROVE  /\ IsInOrder(delivered'[d] \o Queued(d)')
               /\ \A e \in ToSet(delivered'[d]) \cup ToSet(Queued(d)') : e.id <= sent
    <3>1. delivered'[d] \o Queued(d)' = delivered[d] \o Queued(d)
      BY <1>3, ConcatEmptySeq
    <3>2. ToSet(delivered'[d]) \cup ToSet(Queued(d)') = ToSet(delivered[d]) \cup ToSet(Queued(d))
      BY <1>3, EmptySet
    <3> QED BY <1>3, <3>1, <3>2 DEF EventInv, OrderInv
  <2> QED BY <1>1, <1>4, <2>1 DEF EventInv, OrderInv
<1>7. OnlyActionsOutliveTheirGame'
  BY <1>1, <1>3, <1>4, EmptySet DEF EventInv, OnlyActionsOutliveTheirGame, gameVars
<1>8. ArrivalInv'
  <2>1. ASSUME NEW i, IsKnown(i) PROVE IsKnown(i)' /\ HasArrived(i)'
    BY <1>1, <1>3, <1>4, <2>1, EmptySet DEF IsKnown, HasArrived, HasId
  <2>2. \A d \in Dests : ToSet(mEventBatch'[d]) = {}
    BY <1>1, <1>2, EmptySet
  <2> QED BY <1>1, <1>2, <2>1, <2>2 DEF EventInv, ArrivalInv, gameVars
<1> QED BY <1>5, <1>6, <1>7, <1>8 DEF EventInv

(* Menu scripts get their events in synchronizedUpdate.                    *)
LEMMA MenuCallKeepsEvents ==
    ASSUME EventInv, CallMenuEventHandlers, update # "events"
    PROVE  EventInv'
<1>1. /\ UNCHANGED <<update, mNewEventBatch, mEventBatch, sent, gameVars, requestVars, slot, due>>
      /\ mMenuEvents' = <<>>
      /\ delivered' = [delivered EXCEPT !["menu"] = @ \o mMenuEvents]
  BY DEF CallMenuEventHandlers
<1>2. /\ "menu" \in Kinds /\ mMenuEvents \in Seq(Events) /\ delivered["menu"] \in Seq(Events)
      /\ delivered \in [Kinds -> Seq(Events)]
      /\ Queued("menu") = mMenuEvents /\ Queued("menu")' = <<>>
  BY <1>1 DEF Kinds, EventInv, EventTypes, Queued
<1>3. /\ delivered["menu"] \o mMenuEvents \in Seq(Events)
      /\ ToSet(delivered["menu"] \o mMenuEvents) = ToSet(delivered["menu"]) \cup ToSet(mMenuEvents)
  BY <1>2, ConcatSet
<1>4. /\ delivered'["menu"] = delivered["menu"] \o mMenuEvents
      /\ \A d \in Kinds \ {"menu"} : delivered'[d] = delivered[d] /\ Queued(d)' = Queued(d)
      /\ delivered' \in [Kinds -> Seq(Events)]
  BY <1>1, <1>2, <1>3 DEF Queued
<1>5. EventTypes'
  <2>1. <<>> \in Seq(Events)
    OBVIOUS
  <2> QED BY <1>1, <1>4, <2>1 DEF EventInv, EventTypes, gameVars, requestVars
<1>6. OrderInv'
  <2>1. ASSUME NEW d \in Kinds
        PROVE  /\ delivered'[d] \o Queued(d)' = delivered[d] \o Queued(d)
               /\ ToSet(delivered'[d]) \cup ToSet(Queued(d)') = ToSet(delivered[d]) \cup ToSet(Queued(d))
    <3>1. CASE d = "menu"
      BY <1>2, <1>3, <1>4, <3>1, EmptySet, ConcatEmptySeq
    <3>2. CASE d # "menu"
      BY <1>4, <3>2
    <3> QED BY <3>1, <3>2
  <2> QED BY <1>1, <2>1 DEF EventInv, OrderInv
<1>7. OnlyActionsOutliveTheirGame'
  <2>1. \A d \in Kinds : ToSet(Queued(d)') \subseteq ToSet(Queued(d))
    BY <1>2, <1>4, EmptySet
  <2> QED BY <1>1, <2>1 DEF EventInv, OnlyActionsOutliveTheirGame, gameVars
<1>8. ArrivalInv'
  <2>1. ASSUME NEW i, IsKnown(i) PROVE IsKnown(i)'
    BY <1>2, <1>3, <1>4, <2>1 DEF IsKnown, HasId
  <2>2. ASSUME NEW i, HasArrived(i) PROVE HasArrived(i)'
    BY <1>2, <1>3, <1>4, <2>2 DEF HasArrived, HasId
  <2> QED BY <1>1, <2>1, <2>2 DEF EventInv, ArrivalInv, gameVars
<1> QED BY <1>5, <1>6, <1>7, <1>8 DEF EventInv
-----------------------------------------------------------------------------
(* Every step of the system.                                               *)

LEMMA EventInvInit == Init => EventInv
<1> SUFFICES ASSUME Init PROVE EventInv
  OBVIOUS
<1>1. /\ \A d \in Dests : NoEvents[d] = <<>>
      /\ \A d \in Kinds : NothingDelivered[d] = <<>>
      /\ NoEvents \in [Dests -> Seq(Events)] /\ NothingDelivered \in [Kinds -> Seq(Events)]
      /\ <<>> \in Seq(Events)
      /\ Kinds = Dests \cup {"menu"}
  BY DEF NoEvents, NothingDelivered, Kinds
<1>2. EventTypes
  BY <1>1 DEF Init, EventTypes
<1>3. \A d \in Kinds : delivered[d] = <<>> /\ Queued(d) = <<>> /\ <<>> \o <<>> = <<>>
  BY <1>1, ConcatEmptySeq DEF Init, Queued
<1>4. IsInOrder(<<>>) /\ ToSet(<<>>) = {}
  BY EmptySet DEF IsInOrder
<1>5. OrderInv
  BY <1>3, <1>4 DEF OrderInv
<1>6. OnlyActionsOutliveTheirGame
  BY <1>3, <1>4 DEF Init, OnlyActionsOutliveTheirGame
<1>7. ArrivalInv
  <2>1. \A d \in Dests : ToSet(mEventBatch[d]) = {}
    BY <1>1, <1>4 DEF Init
  <2> QED BY <2>1 DEF Init, ArrivalInv
<1> QED BY <1>2, <1>5, <1>6, <1>7 DEF EventInv

(* Games begin and end while update() does not run.                        *)
LEMMA GamesKeepEvents ==
    ASSUME EventInv, TypeOK, NewGame \/ (slot \in Slots /\ LoadGame),
           update = "idle", update' = update, slot' = slot, mLoadRequest' => mLoadRequest
    PROVE  EventInv'
<1>1. Nothing \in Slots /\ 0 \in Nat /\ game + 1 \in Nat /\ TRUE \in BOOLEAN /\ FALSE \in BOOLEAN
  BY BoundsAssumption DEF Nothing, Slots, TypeOK
<1>2. \/ Clear(game + 1, TRUE, Nothing) \/ Clear(0, FALSE, Nothing)
      \/ slot \in Slots /\ Clear(game + 1, FALSE, slot)
  BY DEF NewGame, LoadGame
<1>3. CASE Clear(game + 1, TRUE, Nothing)
  BY <1>1, <1>3, ClearKeepsEvents
<1>4. CASE Clear(0, FALSE, Nothing)
  BY <1>1, <1>4, ClearKeepsEvents
<1>5. CASE slot \in Slots /\ Clear(game + 1, FALSE, slot)
  BY <1>1, <1>5, ClearKeepsEvents
<1> QED BY <1>2, <1>3, <1>4, <1>5

(* The main thread runs no scripts and begins no game beside update().     *)
LEMMA MainKeepsEvents ==
    ASSUME EventInv, RunsInv,
           \/ HandlersRun \/ MainRunsScripts \/ CallMenuEventHandlers
           \/ MenuStartsGame \/ StateManagerStarts \/ StateManagerLoads
    PROVE  EventInv'
<1>1. main \in LuaPhases => update = "idle"
  BY DEF RunsInv, TypeOK, ThreadInv, InlineInv, LuaPhases
<1>2. TypeOK /\ mPlayer \in Nat
  BY BoundsAssumption DEF RunsInv, TypeOK
<1>3. slot # NoSave => slot \in Slots
  BY DEF EventInv, EventTypes
<1>4. mLoadRequest => slot \in Slots
  BY DEF EventInv, EventTypes
<1>5. CASE HandlersRun
  BY <1>2, <1>5, ScriptsKeepEvents DEF HandlersRun, gameVars, requestVars, history
<1>6. CASE MainRunsScripts
  BY <1>1, <1>2, <1>6, ScriptsKeepEvents DEF MainRunsScripts, gameVars, requestVars, history
<1>7. CASE CallMenuEventHandlers
  <2>1. main = "sync"
    BY <1>7 DEF CallMenuEventHandlers
  <2> QED BY <1>1, <1>7, <2>1, MenuCallKeepsEvents DEF LuaPhases
<1>8. CASE MenuStartsGame
  <2>1. /\ main \in LuaPhases
        /\ NewGame \/ (slot \in Slots /\ LoadGame)
        /\ UNCHANGED <<update, slot, mLoadRequest>>
    BY <1>3, <1>8 DEF MenuStartsGame, requestVars, LuaPhases
  <2> QED BY <1>1, <1>2, <2>1, GamesKeepEvents
<1>9. CASE StateManagerStarts
  <2>1. /\ main \in LuaPhases
        /\ UNCHANGED <<update, slot, mLoadRequest>>
    BY <1>9 DEF StateManagerStarts, LuaPhases
  <2>2. CASE mNewGameRequest
    BY <1>1, <1>2, <1>9, <2>1, <2>2, GamesKeepEvents DEF StateManagerStarts
  <2>3. CASE ~mNewGameRequest
    <3>1. UNCHANGED <<eventVars, gameVars, delivered, due>>
      BY <1>9, <2>3 DEF StateManagerStarts
    <3>2. EventTypes'
      BY <2>1, <3>1 DEF EventInv, EventTypes, eventVars, gameVars
    <3> QED BY <2>1, <3>1, <3>2, NothingMoves DEF gameVars
  <2> QED BY <2>2, <2>3
<1>10. CASE StateManagerLoads
  <2>1. /\ main \in LuaPhases /\ mLoadRequest' = FALSE
        /\ UNCHANGED <<update, slot>>
    BY <1>10 DEF StateManagerLoads, LuaPhases
  <2>2. CASE mLoadRequest
    BY <1>1, <1>2, <1>4, <1>10, <2>1, <2>2, GamesKeepEvents DEF StateManagerLoads
  <2>3. CASE ~mLoadRequest
    <3>1. UNCHANGED <<eventVars, gameVars, delivered, due>>
      BY <1>10, <2>3 DEF StateManagerLoads
    <3>2. EventTypes'
      BY <2>1, <3>1 DEF EventInv, EventTypes, eventVars, gameVars
    <3> QED BY <2>1, <3>1, <3>2, NothingMoves DEF gameVars
  <2> QED BY <2>2, <2>3
<1> QED BY <1>5, <1>6, <1>7, <1>8, <1>9, <1>10

(* Saving and asking for a game move no event.                             *)
LEMMA RequestsKeepEvents ==
    ASSUME EventInv, MenuSaves \/ MenuScriptSaves \/ KeyLoads \/ MenuScriptAsks
    PROVE  EventInv'
<1>1. /\ UNCHANGED <<eventVars, gameVars, delivered, due, update>>
      /\ slot' \in Slots \cup {slot}
      /\ mLoadRequest' => mLoadRequest \/ (slot # NoSave /\ slot' = slot)
  <2>1. CASE MenuSaves \/ MenuScriptSaves
    <3>1. SaveGame
      BY <2>1 DEF MenuSaves, MenuScriptSaves
    <3>2. \A d \in Dests : Len(mEventBatch[d]) + Len(mNewEventBatch[d]) \in Nat
      <4>1. ASSUME NEW d \in Dests PROVE Len(mEventBatch[d]) \in Nat /\ Len(mNewEventBatch[d]) \in Nat
        <5>1. mEventBatch[d] \in Seq(Events) /\ mNewEventBatch[d] \in Seq(Events)
          BY DEF EventInv, EventTypes
        <5> QED BY <5>1, LenProperties
      <4>2. \A m, n \in Nat : m + n \in Nat
        OBVIOUS
      <4> QED BY <4>1, <4>2
    <3>3. [d \in Dests |-> Len(mEventBatch[d]) + Len(mNewEventBatch[d])] \in Slots
      BY <3>2 DEF Slots
    <3>4. slot' \in Slots \cup {slot}
      BY <3>1, <3>3 DEF SaveGame
    <3> QED BY <3>1, <3>4 DEF SaveGame, requestVars
  <2>2. CASE KeyLoads \/ MenuScriptAsks
    BY <2>2 DEF KeyLoads, MenuScriptAsks, history
  <2> QED BY <2>1, <2>2
<1>2. EventTypes'
  BY <1>1 DEF EventInv, EventTypes, eventVars, gameVars
<1> QED BY <1>1, <1>2, NothingMoves DEF gameVars

(* Whose turn it is does not matter to the events.                         *)
LEMMA TurnsKeepEvents ==
    ASSUME EventInv, RunsInv,
           \/ FrameBegins \/ InputEnds \/ NewGameHandlerRuns
           \/ SynchronizedUpdateApplies \/ SynchronizedUpdateEnds \/ WorldEnds
           \/ FrameThrows \/ FrameIsAbandoned \/ UpdateReturns
           \/ AllowUpdate \/ NotifyUpdate \/ RenderingEnds \/ RenderingThrows
           \/ FinishUpdate \/ FinishUpdateInline \/ Quit \/ Join \/ NotifyJoin \/ Joined
           \/ WorkerGoesOn \/ UNCHANGED vars
    PROVE  EventInv'
<1>1. /\ UNCHANGED <<eventVars, mPlayer, game, saved, isNew, mLoadRequest, slot, delivered>>
      /\ mNewGameStarted' => mNewGameStarted
      /\ due' \in {0, due}
      /\ \/ update' = update /\ due' = due
         \/ update # "events" /\ update' \notin {"events", "handlers"}
  <2> USE DEF gameVars, requestVars, history, OthersUnchanged
  <2>1. CASE FrameBegins \/ InputEnds \/ WorldEnds \/ FrameThrows \/ FrameIsAbandoned
    BY <2>1 DEF FrameBegins, InputEnds, WorldEnds, FrameThrows, FrameIsAbandoned
  <2>2. CASE NewGameHandlerRuns \/ SynchronizedUpdateApplies \/ SynchronizedUpdateEnds
    BY <2>2 DEF NewGameHandlerRuns, SynchronizedUpdateApplies, SynchronizedUpdateEnds
  <2>3. CASE UpdateReturns
    BY <2>3 DEF UpdateReturns
  <2>4. CASE AllowUpdate \/ NotifyUpdate \/ RenderingEnds \/ RenderingThrows
    BY <2>4 DEF AllowUpdate, NotifyUpdate, Notify, RenderingEnds, RenderingThrows, workerVars
  <2>5. CASE FinishUpdate \/ FinishUpdateInline \/ Quit
    BY <2>5 DEF FinishUpdate, FinishUpdateInline, Quit, workerVars
  <2>6. CASE Join \/ NotifyJoin \/ Joined
    BY <2>6 DEF Join, NotifyJoin, Notify, Joined, workerVars
  <2>7. CASE WorkerGoesOn
    <3>1. worker = "awake" => update = "idle" \/ ~mThread
      BY DEF RunsInv, ThreadInv
    <3>2. worker = "gone" \/ mThread
      BY DEF RunsInv, InlineInv
    <3> QED BY <2>7, <3>1, <3>2 DEF WorkerGoesOn, WorkerTests, WorkerSleeps, WorkerResets,
                                    WorkerNotifies
  <2>8. CASE UNCHANGED vars
    BY <2>8 DEF vars, eventVars
  <2> QED BY <2>1, <2>2, <2>3, <2>4, <2>5, <2>6, <2>7, <2>8
<1>2. EventTypes'
  BY <1>1 DEF EventInv, EventTypes, eventVars
<1> QED BY <1>1, <1>2, NothingMoves

LEMMA EventInvNext == RunsInv /\ EventInv /\ [Next]_vars => EventInv'
  BY FinalizeKeepsEvents, CallKeepsEvents, MainKeepsEvents, RequestsKeepEvents, TurnsKeepEvents
  DEF Next, UpdateGoesOn, MainGoesOn

LEMMA EventInvHolds == Spec => []EventInv
  BY EventInvInit, EventInvNext, RunsInvHolds, PTL DEF Spec

(* Whatever clears the scripts at whatever point of the frame, no event is *)
(* left for another game and no loaded game is announced as a new one.     *)
THEOREM OnlyActionsOutlive == Spec => []OnlyActionsOutliveTheirGame
<1>1. EventInv => OnlyActionsOutliveTheirGame
  BY DEF EventInv
<1> QED BY <1>1, EventInvHolds, PTL

(* LuaEvents delivers every event once, in order, and in the update after  *)
(* it was sent, but for those that came with a saved game.                 *)
THEOREM EventsArriveInOrder == Spec => []EventsArriveUnlessSaved
<1>1. ASSUME EventInv PROVE EventsArriveUnlessSaved
  <2>1. ASSUME NEW d \in Kinds
        PROVE  /\ IsIncreasing(Way(d))
               /\ ToSet(Way(d)) = {e.id : e \in ToSet(delivered[d]) \cup ToSet(Queued(d))}
               /\ ToSet(Ids(delivered[d])) = {e.id : e \in ToSet(delivered[d])}
    <3>1. delivered[d] \in Seq(Events) /\ Queued(d) \in Seq(Events)
      BY <1>1, QueuedTypes DEF EventInv
    <3>2. /\ delivered[d] \o Queued(d) \in Seq(Events)
          /\ ToSet(delivered[d] \o Queued(d)) = ToSet(delivered[d]) \cup ToSet(Queued(d))
      BY <3>1, ConcatSet
    <3>3. IsInOrder(delivered[d] \o Queued(d))
      BY <1>1 DEF EventInv, OrderInv
    <3>4. /\ IsIncreasing(Way(d))
          /\ ToSet(Way(d)) = {e.id : e \in ToSet(delivered[d] \o Queued(d))}
      BY <3>2, <3>3, IdsSet DEF Way
    <3>5. ToSet(Ids(delivered[d])) = {e.id : e \in ToSet(delivered[d])}
      BY <3>1, IdsSet
    <3> QED BY <3>2, <3>4, <3>5
  <2>2. ToSet(Ids(mMenuEvents)) = {e.id : e \in ToSet(mMenuEvents)}
    BY <1>1, IdsSet DEF EventInv, EventTypes
  <2>3. ASSUME NEW i, IsKnown(i) PROVE \E d \in Kinds : i \in ToSet(Way(d))
    BY <2>1, <2>3 DEF IsKnown, HasId
  <2>4. ASSUME NEW i, HasArrived(i) PROVE i \in Arrived
    <3>1. CASE HasId(mMenuEvents, i)
      <4>1. i \in ToSet(Ids(mMenuEvents))
        BY <2>2, <3>1 DEF HasId
      <4> QED BY <4>1 DEF Arrived
    <3>2. CASE \E d \in Kinds : HasId(delivered[d], i)
      <4>1. PICK d \in Kinds : HasId(delivered[d], i)
        BY <3>2
      <4>2. i \in ToSet(Ids(delivered[d]))
        BY <2>1, <4>1 DEF HasId
      <4> QED BY <4>2 DEF Arrived
    <3> QED BY <2>4, <3>1, <3>2 DEF HasArrived
  <2> QED BY <1>1, <2>1, <2>3, <2>4 DEF EventInv, ArrivalInv, EventsArriveUnlessSaved
<1> QED BY <1>1, EventInvHolds, PTL
=============================================================================
