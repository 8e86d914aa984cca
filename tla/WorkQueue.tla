------------------------------ MODULE WorkQueue ------------------------------
(***************************************************************************)
(* SceneUtil::WorkQueue, WorkThread and WorkItem                           *)
(* (components/sceneutil/workqueue.cpp): a deque of items under a mutex,   *)
(* worker threads that sleep on a condition variable while it is empty,    *)
(* and items that can be waited for.  In the web build addWorkItem runs    *)
(* the item itself, unless OPENMW_WORKQUEUE_THREADED asks for threads.     *)
(*                                                                         *)
(* A critical section that ends without waiting is one step.  One that     *)
(* tests a condition and then sleeps is several, with the mutex held       *)
(* between test and sleep: that no notification falls in between is what   *)
(* the mutex is for.                                                       *)
(***************************************************************************)
EXTENDS Queues

CONSTANTS
    Items,          \* WorkItems
    Workers,        \* WorkThreads
    Callers,        \* threads that add items and wait for them
    NoItem

Threads == Workers \cup Callers

ASSUME QueueAssumption ==
    /\ NoItem \notin Items
    /\ Workers \cap Callers = {}
    /\ IsFiniteSet(Workers)

VARIABLES
    mQueue, mIsReleased,
    inline,         \* addWorkItem runs the item: start() and the environment decide
    mDone,          \* [Items -> BOOLEAN]
    thread,         \* [Threads -> [pc, item]]
    given           \* history: items given to addWorkItem

vars == <<mQueue, mIsReleased, inline, mDone, thread, given>>
queueVars == <<mQueue, mIsReleased, inline>>

(* "locked" and "empty" hold the queue's mutex, "checking" and "undone"    *)
(* that of their item, the second of each after a test that failed;        *)
(* "blocked" and "waiting" sleep on their condition variables.             *)
WorkerPcs == {"start", "locked", "empty", "blocked", "working", "signal", "notify",
              "exited"}
CallerPcs == {"idle", "working", "signal", "notify", "testing", "checking", "undone",
              "waiting", "joining", "stopped"}

IsAt(t, pcs) == thread[t].pc \in pcs
Blocked == {w \in Workers : IsAt(w, {"blocked"})}
Awake == {w \in Workers : IsAt(w, {"start", "locked"})}
QueueMutexFree == \A w \in Workers : ~IsAt(w, {"locked", "empty"})
ItemMutexFree(i) ==
    \A c \in Callers : ~(IsAt(c, {"checking", "undone"}) /\ thread[c].item = i)

Queued == Elements(mQueue)
Busy == {t \in Threads : IsAt(t, {"working", "signal"})}
Running == {thread[t].item : t \in Busy}
Done == {i \in Items : mDone[i]}

Init ==
    /\ mQueue = <<>> /\ mIsReleased = FALSE /\ inline \in BOOLEAN
    /\ mDone = [i \in Items |-> FALSE]
    /\ thread = [t \in Threads |->
                   [pc |-> IF t \in Workers THEN "start" ELSE "idle", item |-> NoItem]]
    /\ given = {}

Goto(t, pc) == thread' = [thread EXCEPT ![t].pc = pc]

-----------------------------------------------------------------------------
(* Callers: addWorkItem, waitTillDone and stop                             *)

(* notify_one wakes a sleeping worker, if there is one.                    *)
NotifyOne ==
    IF Blocked = {} THEN UNCHANGED thread
    ELSE \E w \in Blocked : Goto(w, "start")

(* Deviation: a worker is only woken when the queue was empty.             *)
AddWorkItemToEmpty(c, i) ==
    /\ ~inline /\ IsAt(c, {"idle"}) /\ ~mIsReleased
    /\ i \notin given /\ ~mDone[i]
    /\ given' = given \cup {i}
    /\ QueueMutexFree
    /\ mQueue' = Append(mQueue, i) \/ mQueue' = <<i>> \o mQueue
    /\ IF mQueue = <<>> THEN NotifyOne ELSE UNCHANGED thread
    /\ UNCHANGED <<mIsReleased, inline, mDone>>

(* An item is added once: every caller creates the item it adds.           *)
AddWorkItem(c, i) ==
    /\ IsAt(c, {"idle"}) /\ ~mIsReleased
    /\ i \notin given /\ ~mDone[i]
    /\ given' = given \cup {i}
    /\ IF inline
       THEN /\ thread' = [thread EXCEPT ![c] = [pc |-> "working", item |-> i]]
            /\ UNCHANGED mQueue
       ELSE /\ QueueMutexFree
            /\ mQueue' = Append(mQueue, i) \/ mQueue' = <<i>> \o mQueue
            /\ NotifyOne
    /\ UNCHANGED <<mIsReleased, inline, mDone>>

(* waitTillDone looks at mDone before it takes the item's mutex.           *)
WaitTillDone(c, i) ==
    /\ IsAt(c, {"idle"}) /\ ~mIsReleased
    /\ i \in given /\ ~mDone[i]
    /\ thread' = [thread EXCEPT ![c] = [pc |-> "testing", item |-> i]]
    /\ UNCHANGED <<queueVars, mDone, given>>

LockItem(c) ==
    /\ IsAt(c, {"testing"}) /\ ItemMutexFree(thread[c].item)
    /\ Goto(c, "checking")
    /\ UNCHANGED <<queueVars, mDone, given>>

CheckDone(c) ==
    /\ IsAt(c, {"checking"})
    /\ thread' = [thread EXCEPT ![c] =
                    IF mDone[@.item] THEN [pc |-> "idle", item |-> NoItem]
                    ELSE [@ EXCEPT !.pc = "undone"]]
    /\ UNCHANGED <<queueVars, mDone, given>>

WaitForItem(c) ==
    /\ IsAt(c, {"undone"})
    /\ Goto(c, "waiting")
    /\ UNCHANGED <<queueVars, mDone, given>>

(* Deviation: the flag is set and the workers are notified without the     *)
(* mutex.                                                                  *)
StopUnlocked(c) ==
    /\ \A d \in Callers : IsAt(d, {"idle"})
    /\ ~mIsReleased
    /\ mQueue' = <<>>
    /\ mIsReleased' = TRUE
    /\ thread' = [t \in Threads |->
                    IF t \in Blocked THEN [thread[t] EXCEPT !.pc = "start"]
                    ELSE IF t = c THEN [thread[t] EXCEPT !.pc = "joining"]
                    ELSE thread[t]]
    /\ UNCHANGED <<inline, mDone, given>>

(* stop(), from the destructor: nobody uses the queue any more.            *)
Stop(c) ==
    /\ \A d \in Callers : IsAt(d, {"idle"})
    /\ QueueMutexFree /\ ~mIsReleased
    /\ mQueue' = <<>>
    /\ mIsReleased' = TRUE
    /\ thread' = [t \in Threads |->
                    IF t \in Blocked THEN [thread[t] EXCEPT !.pc = "start"]
                    ELSE IF t = c THEN [thread[t] EXCEPT !.pc = "joining"]
                    ELSE thread[t]]
    /\ UNCHANGED <<inline, mDone, given>>

(* mThreads.clear() joins the threads.                                     *)
Join(c) ==
    /\ IsAt(c, {"joining"})
    /\ \A w \in Workers : IsAt(w, {"exited"})
    /\ Goto(c, "stopped")
    /\ UNCHANGED <<queueVars, mDone, given>>

-----------------------------------------------------------------------------
(* Workers: removeWorkItem                                                 *)

LockQueue(w) ==
    /\ IsAt(w, {"start"}) /\ QueueMutexFree
    /\ Goto(w, "locked")
    /\ UNCHANGED <<queueVars, mDone, given>>

FindEmpty(w) ==
    /\ IsAt(w, {"locked"})
    /\ mQueue = <<>> /\ ~mIsReleased
    /\ Goto(w, "empty")
    /\ UNCHANGED <<queueVars, mDone, given>>

Sleep(w) ==
    /\ IsAt(w, {"empty"})
    /\ Goto(w, "blocked")
    /\ UNCHANGED <<queueVars, mDone, given>>

(* Deviation: the newest item is taken.                                    *)
TakeLastItem(w) ==
    /\ IsAt(w, {"locked"})
    /\ mQueue # <<>>
    /\ LET n == Len(mQueue)
       IN  /\ thread' = [thread EXCEPT ![w] = [pc |-> "working", item |-> mQueue[n]]]
           /\ mQueue' = SubSeq(mQueue, 1, n - 1)
    /\ UNCHANGED <<mIsReleased, inline, mDone, given>>

(* Deviation: the item stays in the queue until its work is done.          *)
PeekItem(w) ==
    /\ IsAt(w, {"locked"})
    /\ mQueue # <<>>
    /\ thread' = [thread EXCEPT ![w] = [pc |-> "working", item |-> Head(mQueue)]]
    /\ UNCHANGED <<queueVars, mDone, given>>

(* A condition variable may wake a thread that nobody notified.            *)
WakeSpuriously(w) ==
    /\ IsAt(w, {"blocked"})
    /\ Goto(w, "start")
    /\ UNCHANGED <<queueVars, mDone, given>>

TakeItem(w) ==
    /\ IsAt(w, {"locked"})
    /\ mQueue # <<>>
    /\ thread' = [thread EXCEPT ![w] = [pc |-> "working", item |-> Head(mQueue)]]
    /\ mQueue' = Tail(mQueue)
    /\ UNCHANGED <<mIsReleased, inline, mDone, given>>

ExitThread(w) ==
    /\ IsAt(w, {"locked"})
    /\ mQueue = <<>> /\ mIsReleased
    /\ Goto(w, "exited")
    /\ UNCHANGED <<queueVars, mDone, given>>

-----------------------------------------------------------------------------
(* Whoever runs an item: doWork and signalDone                             *)

(* Deviation: mDone is atomic, so it is set without the item's mutex.      *)
SetDoneUnlocked(t) ==
    /\ IsAt(t, {"signal"})
    /\ mDone' = [mDone EXCEPT ![thread[t].item] = TRUE]
    /\ Goto(t, "notify")
    /\ UNCHANGED <<queueVars, given>>

DoWork(t) ==
    /\ IsAt(t, {"working"})
    /\ Goto(t, "signal")
    /\ UNCHANGED <<queueVars, mDone, given>>

SetDone(t) ==
    /\ IsAt(t, {"signal"})
    /\ ItemMutexFree(thread[t].item)
    /\ mDone' = [mDone EXCEPT ![thread[t].item] = TRUE]
    /\ Goto(t, "notify")
    /\ UNCHANGED <<queueVars, given>>

NotifyAll(t) ==
    /\ IsAt(t, {"notify"})
    /\ thread' = [u \in Threads |->
                    IF u = t
                    THEN [pc |-> IF t \in Workers THEN "start" ELSE "idle",
                          item |-> NoItem]
                    ELSE IF /\ u \in Callers /\ IsAt(u, {"waiting"})
                            /\ thread[u].item = thread[t].item
                    THEN [thread[u] EXCEPT !.pc = "testing"]
                    ELSE thread[u]]
    /\ UNCHANGED <<queueVars, mDone, given>>

-----------------------------------------------------------------------------
CallerStep(c) ==
    \/ \E i \in Items : AddWorkItem(c, i) \/ WaitTillDone(c, i)
    \/ LockItem(c) \/ CheckDone(c) \/ WaitForItem(c)
    \/ Stop(c) \/ Join(c)

WorkerStep(w) ==
    \/ LockQueue(w) \/ FindEmpty(w) \/ Sleep(w) \/ WakeSpuriously(w)
    \/ TakeItem(w) \/ ExitThread(w)

WorkStep(t) == DoWork(t) \/ SetDone(t) \/ NotifyAll(t)

(* The program goes on, without the queue.                                 *)
Terminated == (\E c \in Callers : IsAt(c, {"stopped"})) /\ UNCHANGED vars

Next ==
    \/ \E c \in Callers : CallerStep(c)
    \/ \E w \in Workers : WorkerStep(w)
    \/ \E t \in Threads : WorkStep(t)
    \/ Terminated

Spec == Init /\ [][Next]_vars

(* Threads are scheduled, work ends, and a mutex that is free again and    *)
(* again is granted in the end.  Nothing makes a caller call.              *)
Fairness ==
    /\ \A w \in Workers : /\ SF_vars(LockQueue(w))
                          /\ WF_vars(FindEmpty(w) \/ Sleep(w) \/ TakeItem(w) \/ ExitThread(w))
    /\ \A c \in Callers : /\ SF_vars(LockItem(c))
                          /\ WF_vars(CheckDone(c) \/ WaitForItem(c) \/ Join(c))
    /\ \A t \in Threads : /\ SF_vars(SetDone(t))
                          /\ WF_vars(DoWork(t) \/ NotifyAll(t))

FairSpec == Spec /\ Fairness

-----------------------------------------------------------------------------
(* Safety                                                                  *)

TypeOK ==
    /\ mQueue \in Seq(Items)
    /\ mIsReleased \in BOOLEAN /\ inline \in BOOLEAN
    /\ mDone \in [Items -> BOOLEAN]
    /\ thread \in [Threads -> [pc : WorkerPcs \cup CallerPcs, item : Items \cup {NoItem}]]
    /\ \A w \in Workers : thread[w].pc \in WorkerPcs
    /\ \A c \in Callers : thread[c].pc \in CallerPcs
    /\ given \subseteq Items
    /\ \A t \in Threads :
         thread[t].item = NoItem <=>
            IsAt(t, {"start", "locked", "empty", "blocked", "exited", "idle",
                     "joining", "stopped"})

(* An item that was given is queued once, or worked on by one thread, or   *)
(* done, or was dropped when the queue was destroyed: none runs twice, and *)
(* before stop() none is lost.                                             *)
ItemsAreInOnePlace ==
    /\ NoDuplicates(mQueue)
    /\ \A t, u \in Busy : thread[t].item = thread[u].item => t = u
    /\ Queued \cap Running = {} /\ Queued \cap Done = {} /\ Running \cap Done = {}
    /\ Queued \cup Running \cup Done \subseteq given
    /\ ~mIsReleased => Queued \cup Running \cup Done = given

(* While a worker sleeps, there are as many workers on their way to the    *)
(* queue as it has items: notify_one per item wakes enough of them.        *)
QueuedItemsHaveWorkers ==
    Blocked # {} => Len(mQueue) <= Cardinality(Awake)

(* No wakeup is lost: who waits for an item that is done is about to be    *)
(* notified.                                                               *)
WaitersAreNotified ==
    \A c \in Callers :
        IsAt(c, {"waiting"}) /\ mDone[thread[c].item] =>
            \E t \in Threads : IsAt(t, {"notify"}) /\ thread[t].item = thread[c].item

(* What users of the queue may rely on.                                    *)
Pool == INSTANCE WorkPool WITH queue <- mQueue, running <- Running, done <- Done,
                               destroyed <- mIsReleased
ImplementsPool == Pool!Spec

-----------------------------------------------------------------------------
(* Liveness                                                                *)

(* waitTillDone returns.                                                   *)
WaitReturns ==
    \A c \in Callers : IsAt(c, {"testing", "checking", "undone", "waiting"}) ~> IsAt(c, {"idle"})

(* stop() joins every thread.                                              *)
StopReturns == \A c \in Callers : IsAt(c, {"joining"}) ~> IsAt(c, {"stopped"})

(* No caller gets stuck in the queue.                                      *)
CallsReturn == WaitReturns /\ StopReturns
=============================================================================
