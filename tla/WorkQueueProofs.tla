--------------------------- MODULE WorkQueueProofs ---------------------------
(***************************************************************************)
(* Proofs about WorkQueue for any number of items, workers and callers,    *)
(* with and without threads.  The two auxiliary invariants say what a      *)
(* thread that found its condition false still knows when it goes to       *)
(* sleep: the mutexes exist to make them true.                             *)
(***************************************************************************)
EXTENDS WorkQueue, FiniteSetTheorems, SequenceTheorems, TLAPS

(* Between its test and its sleep a worker knows that the queue is empty.  *)
EmptyIsTested ==
    \A w \in Workers : IsAt(w, {"empty"}) => mQueue = <<>> /\ ~mIsReleased

(* Between its test and its sleep a caller knows that the item is not done. *)
UndoneIsTested ==
    \A c \in Callers : IsAt(c, {"undone"}) => ~mDone[thread[c].item]

(* stop() has woken every worker, and none goes to sleep afterwards.       *)
NobodySleepsAfterStop == mIsReleased => Blocked = {}

USE QueueAssumption DEF QueueAssumption

-----------------------------------------------------------------------------
(* Types                                                                   *)

(* Either end of the queue that addWorkItem uses.                          *)
LEMMA PushTyping ==
    ASSUME NEW S, NEW s \in Seq(S), NEW x \in S
    PROVE  /\ Append(s, x) \in Seq(S) /\ Len(Append(s, x)) = Len(s) + 1
           /\ <<x>> \o s \in Seq(S) /\ Len(<<x>> \o s) = Len(s) + 1
OBVIOUS

LEMMA TypeInit == Init => TypeOK
<1> SUFFICES ASSUME Init PROVE TypeOK
  OBVIOUS
<1> USE DEF Init, TypeOK, WorkerPcs, CallerPcs, Threads, IsAt
<1>1. mQueue \in Seq(Items)
  OBVIOUS
<1>5. mIsReleased \in BOOLEAN /\ given \subseteq Items
  OBVIOUS
<1>6. inline \in BOOLEAN
  OBVIOUS
<1>2. mDone \in [Items -> BOOLEAN]
  OBVIOUS
<1>3. thread \in [Threads -> [pc : WorkerPcs \cup CallerPcs, item : Items \cup {NoItem}]]
  OBVIOUS
<1>4. \A t \in Threads : thread[t].item = NoItem /\ thread[t].pc = IF t \in Workers THEN "start" ELSE "idle"
  OBVIOUS
<1> QED BY <1>1, <1>2, <1>3, <1>4, <1>5, <1>6

LEMMA TypeCaller ==
    ASSUME TypeOK, NEW c \in Callers, CallerStep(c)
    PROVE  TypeOK'
<1> USE DEF TypeOK, WorkerPcs, CallerPcs, Threads, IsAt, Goto
<1>1. ASSUME NEW i \in Items, AddWorkItem(c, i) PROVE TypeOK'
  <2>1. mQueue' \in Seq(Items)
    <3>1. mQueue' = mQueue \/ mQueue' = Append(mQueue, i) \/ mQueue' = <<i>> \o mQueue
      BY <1>1 DEF AddWorkItem
    <3>2. mQueue \in Seq(Items)
      OBVIOUS
    <3>3. Append(mQueue, i) \in Seq(Items) /\ <<i>> \o mQueue \in Seq(Items)
      BY <3>2
    <3> QED BY <3>1, <3>2, <3>3
  <2>2. given' \subseteq Items /\ mIsReleased' \in BOOLEAN /\ inline' \in BOOLEAN /\ mDone' \in [Items -> BOOLEAN]
    BY <1>1 DEF AddWorkItem
  <2>3. CASE inline
    <3>1. thread' = [thread EXCEPT ![c] = [pc |-> "working", item |-> i]]
      BY <1>1, <2>3 DEF AddWorkItem
    <3> QED BY <2>1, <2>2, <3>1
  <2>4. CASE ~inline
    <3>1. thread' = thread \/ \E w \in Workers :
              thread[w].pc = "blocked" /\ thread' = [thread EXCEPT ![w].pc = "start"]
      BY <1>1, <2>4 DEF AddWorkItem, NotifyOne, Blocked
    <3>2. CASE thread' = thread
      BY <2>1, <2>2, <3>2
    <3>3. ASSUME NEW w \in Workers, thread[w].pc = "blocked",
                 thread' = [thread EXCEPT ![w].pc = "start"]
          PROVE  TypeOK'
      BY <2>1, <2>2, <3>3
    <3> QED BY <3>1, <3>2, <3>3
  <2> QED BY <2>3, <2>4
<1>2. ASSUME NEW i \in Items, WaitTillDone(c, i) PROVE TypeOK'
  BY <1>2 DEF WaitTillDone, queueVars
<1>3. CASE LockItem(c)  BY <1>3 DEF LockItem, queueVars
<1>4. CASE CheckDone(c)  BY <1>4 DEF CheckDone, queueVars
<1>5. CASE WaitForItem(c)  BY <1>5 DEF WaitForItem, queueVars
<1>6. CASE Stop(c)  BY <1>6 DEF Stop, Blocked
<1>7. CASE Join(c)  BY <1>7 DEF Join, queueVars
<1> QED BY <1>1, <1>2, <1>3, <1>4, <1>5, <1>6, <1>7 DEF CallerStep

LEMMA TypeWorker ==
    ASSUME TypeOK, NEW w \in Workers, WorkerStep(w)
    PROVE  TypeOK'
<1> USE DEF TypeOK, WorkerPcs, CallerPcs, Threads, IsAt, Goto
<1>1. CASE LockQueue(w)  BY <1>1 DEF LockQueue, queueVars
<1>2. CASE FindEmpty(w)  BY <1>2 DEF FindEmpty, queueVars
<1>3. CASE Sleep(w)  BY <1>3 DEF Sleep, queueVars
<1>4. CASE WakeSpuriously(w)  BY <1>4 DEF WakeSpuriously, queueVars
<1>5. CASE TakeItem(w)
  <2>1. Tail(mQueue) \in Seq(Items) /\ Head(mQueue) \in Items
    BY <1>5 DEF TakeItem
  <2> QED BY <1>5, <2>1 DEF TakeItem
<1>6. CASE ExitThread(w)  BY <1>6 DEF ExitThread, queueVars
<1> QED BY <1>1, <1>2, <1>3, <1>4, <1>5, <1>6 DEF WorkerStep

LEMMA TypeWork ==
    ASSUME TypeOK, NEW t \in Threads, WorkStep(t)
    PROVE  TypeOK'
<1> USE DEF TypeOK, WorkerPcs, CallerPcs, Threads, IsAt, Goto
<1>1. CASE DoWork(t)  BY <1>1 DEF DoWork, queueVars
<1>2. CASE SetDone(t)  BY <1>2 DEF SetDone, queueVars
<1>3. CASE NotifyAll(t)  BY <1>3 DEF NotifyAll, queueVars
<1> QED BY <1>1, <1>2, <1>3 DEF WorkStep

LEMMA TypeStep == TypeOK /\ [Next]_vars => TypeOK'
<1> SUFFICES ASSUME TypeOK, [Next]_vars PROVE TypeOK'
  OBVIOUS
<1>1. CASE UNCHANGED vars
  BY <1>1 DEF vars, TypeOK, IsAt
<1> QED BY <1>1, TypeCaller, TypeWorker, TypeWork DEF Next, Terminated

(* TypeOK: every thread is at a place of its own code, and refers to an    *)
(* item exactly while it works on one or waits for one.                    *)
THEOREM Typing == Spec => []TypeOK
BY TypeInit, TypeStep, PTL DEF Spec

-----------------------------------------------------------------------------
(* Places of items.  SameWork, StartsWork and EndsWork say what a step does *)
(* to the threads that work.                                               *)

SameWork ==
    /\ Busy' = Busy /\ Running' = Running
    /\ \A u \in Busy : thread'[u].item = thread[u].item

StartsWork(t, i) ==
    /\ t \in Threads \ Busy /\ Busy' = Busy \cup {t}
    /\ thread'[t].item = i /\ Running' = Running \cup {i}
    /\ \A u \in Busy : thread'[u].item = thread[u].item

EndsWork(t) ==
    /\ t \in Busy /\ Busy' = Busy \ {t}
    /\ Running' = {thread[u].item : u \in Busy \ {t}}
    /\ \A u \in Busy : thread'[u].item = thread[u].item

(* A step whose threads work as before leaves the places of items alone.   *)
LEMMA Quiet ==
    ASSUME \A t \in Threads :
               /\ IsAt(t, {"working", "signal"}) <=> IsAt(t, {"working", "signal"})'
               /\ IsAt(t, {"working", "signal"}) => thread'[t].item = thread[t].item
    PROVE  SameWork
<1>1. Busy' = Busy
  BY DEF Busy
<1>2. Busy \subseteq Threads /\ \A u \in Busy : thread'[u].item = thread[u].item
  BY DEF Busy
<1>3. Running' = Running
  BY <1>1, <1>2 DEF Running
<1> QED BY <1>1, <1>2, <1>3 DEF SameWork

LEMMA Starts ==
    ASSUME TypeOK, NEW t \in Threads, NEW i \in Items, t \notin Busy,
           thread' = [thread EXCEPT ![t] = [pc |-> "working", item |-> i]]
    PROVE  StartsWork(t, i)
<1>1. /\ thread'[t] = [pc |-> "working", item |-> i]
      /\ \A u \in Threads \ {t} : thread'[u] = thread[u]
  BY DEF TypeOK
<1>2. Busy' = Busy \cup {t} /\ Busy \subseteq Threads
  BY <1>1 DEF Busy, IsAt
<1>3. Running' = Running \cup {i}
  BY <1>1, <1>2 DEF Running
<1> QED BY <1>1, <1>2, <1>3 DEF StartsWork

LEMMA Ends ==
    ASSUME TypeOK, NEW t \in Threads, IsAt(t, {"signal"}), Goto(t, "notify")
    PROVE  EndsWork(t)
<1>1. /\ thread'[t].pc = "notify"
      /\ \A u \in Threads : thread'[u].item = thread[u].item
      /\ \A u \in Threads \ {t} : thread'[u] = thread[u]
  BY DEF TypeOK, Goto
<1>2. Busy' = Busy \ {t} /\ t \in Busy /\ Busy \subseteq Threads
  BY <1>1 DEF Busy, IsAt
<1>3. Running' = {thread[u].item : u \in Busy \ {t}}
  BY <1>1, <1>2 DEF Running
<1> QED BY <1>1, <1>2, <1>3 DEF EndsWork

(* What the steps do that move no item.                                    *)
LEMMA QuietSteps ==
    ASSUME TypeOK,
           \/ \E c \in Callers : \/ \E i \in Items : WaitTillDone(c, i)
                                \/ LockItem(c) \/ CheckDone(c) \/ WaitForItem(c) \/ Join(c)
           \/ \E w \in Workers : \/ LockQueue(w) \/ FindEmpty(w) \/ Sleep(w)
                                \/ WakeSpuriously(w) \/ ExitThread(w)
           \/ \E t \in Threads : DoWork(t) \/ NotifyAll(t)
           \/ UNCHANGED vars
    PROVE  SameWork /\ UNCHANGED <<mQueue, mIsReleased, inline, mDone, given>>
<1> USE DEF TypeOK, IsAt, Goto, Threads, queueVars
<1>1. CASE \E c \in Callers, i \in Items : WaitTillDone(c, i)
  BY <1>1, Quiet DEF WaitTillDone
<1>2. CASE \E c \in Callers : LockItem(c) \/ CheckDone(c)
  BY <1>2, Quiet DEF LockItem, CheckDone
<1>3. CASE \E c \in Callers : WaitForItem(c) \/ Join(c)
  BY <1>3, Quiet DEF WaitForItem, Join
<1>4. CASE \E w \in Workers : LockQueue(w) \/ FindEmpty(w) \/ Sleep(w)
  BY <1>4, Quiet DEF LockQueue, FindEmpty, Sleep
<1>5. CASE \E w \in Workers : WakeSpuriously(w) \/ ExitThread(w)
  BY <1>5, Quiet DEF WakeSpuriously, ExitThread
<1>6. CASE \E t \in Threads : DoWork(t)
  BY <1>6, Quiet DEF DoWork
<1>7. CASE \E t \in Threads : NotifyAll(t)
  BY <1>7, Quiet DEF NotifyAll
<1>8. CASE UNCHANGED vars
  BY <1>8, Quiet DEF vars
<1> QED BY <1>1, <1>2, <1>3, <1>4, <1>5, <1>6, <1>7, <1>8

(* What the steps do that move one.                                        *)
LEMMA AddSteps ==
    ASSUME TypeOK, NEW c \in Callers, NEW i \in Items, AddWorkItem(c, i)
    PROVE  /\ ~mIsReleased /\ i \notin given /\ given' = given \cup {i}
           /\ UNCHANGED <<mIsReleased, mDone, inline>>
           /\ inline => StartsWork(c, i) /\ mQueue' = mQueue
           /\ ~inline => /\ SameWork
                         /\ mQueue' \in {Append(mQueue, i), <<i>> \o mQueue}
<1>1. CASE inline
  <2>1. thread' = [thread EXCEPT ![c] = [pc |-> "working", item |-> i]]
    BY <1>1 DEF AddWorkItem
  <2>2. c \in Threads /\ c \notin Busy
    BY DEF AddWorkItem, Busy, IsAt, Threads
  <2> QED BY <1>1, <2>1, <2>2, Starts DEF AddWorkItem
<1>2. CASE ~inline
  <2>1. NotifyOne
    BY <1>2 DEF AddWorkItem
  <2>2. SameWork
    BY <2>1, Quiet DEF NotifyOne, Blocked, Goto, IsAt, TypeOK, Threads
  <2> QED BY <1>2, <2>2 DEF AddWorkItem
<1> QED BY <1>1, <1>2

LEMMA TakeStep ==
    ASSUME TypeOK, NEW w \in Workers, TakeItem(w)
    PROVE  /\ mQueue # <<>> /\ mQueue' = Tail(mQueue)
           /\ Head(mQueue) \in Items /\ StartsWork(w, Head(mQueue))
           /\ UNCHANGED <<mIsReleased, mDone, given, inline>>
<1>1. Head(mQueue) \in Items
  BY DEF TakeItem, TypeOK
<1>2. w \in Threads /\ w \notin Busy
  BY DEF TakeItem, Busy, IsAt, Threads
<1> QED BY <1>1, <1>2, Starts DEF TakeItem

LEMMA StopStep ==
    ASSUME TypeOK, NEW c \in Callers, Stop(c)
    PROVE  /\ SameWork /\ ~mIsReleased /\ mQueue' = <<>> /\ mIsReleased' = TRUE
           /\ UNCHANGED <<mDone, given, inline>>
<1>1. SameWork
  BY Quiet DEF Stop, Blocked, IsAt, TypeOK, Threads
<1> QED BY <1>1 DEF Stop

LEMMA DoneStep ==
    ASSUME TypeOK, NEW t \in Threads, SetDone(t)
    PROVE  /\ EndsWork(t) /\ thread[t].item \in Items
           /\ Done' = Done \cup {thread[t].item}
           /\ UNCHANGED <<mQueue, mIsReleased, given, inline>>
<1>1. EndsWork(t)
  BY Ends DEF SetDone
<1>2. thread[t].item \in Items
  BY DEF SetDone, TypeOK, IsAt
<1>3. Done' = Done \cup {thread[t].item}
  BY <1>2 DEF SetDone, TypeOK, Done
<1> QED BY <1>1, <1>2, <1>3 DEF SetDone, queueVars

(* Every step is of one of these five kinds.                               *)
LEMMA StepKinds ==
    ASSUME TypeOK, [Next]_vars
    PROVE  \/ \E c \in Callers, i \in Items : AddWorkItem(c, i)
           \/ \E w \in Workers : TakeItem(w)
           \/ \E c \in Callers : Stop(c)
           \/ \E t \in Threads : SetDone(t)
           \/ SameWork /\ UNCHANGED <<mQueue, mIsReleased, inline, mDone, given>>
BY QuietSteps DEF Next, CallerStep, WorkerStep, WorkStep, Terminated

(* The queue after an item is pushed at either end, and after its head is  *)
(* taken.                                                                  *)
LEMMA PushedElements ==
    ASSUME NEW s \in Seq(Items), NEW i \in Items, NoDuplicates(s), i \notin Elements(s)
    PROVE  /\ NoDuplicates(Append(s, i)) /\ Elements(Append(s, i)) = Elements(s) \cup {i}
           /\ NoDuplicates(<<i>> \o s) /\ Elements(<<i>> \o s) = Elements(s) \cup {i}
<1>1. Len(s) \in Nat /\ DOMAIN s = 1..Len(s) /\ \A n \in DOMAIN s : s[n] # i
  BY DEF Elements
<1>2. NoDuplicates(Append(s, i)) /\ Elements(Append(s, i)) = Elements(s) \cup {i}
  <2> DEFINE t == Append(s, i)
  <2>1. /\ DOMAIN t = 1..Len(s) + 1 /\ t[Len(s) + 1] = i
        /\ \A n \in DOMAIN s : t[n] = s[n]
    BY <1>1
  <2> HIDE DEF t
  <2>2. \A n \in DOMAIN t : n = Len(s) + 1 \/ n \in DOMAIN s
    BY <1>1, <2>1
  <2>3. Len(s) + 1 \in DOMAIN t /\ \A n \in DOMAIN s : n \in DOMAIN t
    BY <1>1, <2>1
  <2>4. NoDuplicates(t) /\ Elements(t) = Elements(s) \cup {i}
    BY <1>1, <2>1, <2>2, <2>3 DEF NoDuplicates, Elements
  <2> QED BY <2>4 DEF t
<1>3. NoDuplicates(<<i>> \o s) /\ Elements(<<i>> \o s) = Elements(s) \cup {i}
  <2> DEFINE t == <<i>> \o s
  <2>1. <<i>> \in Seq(Items) /\ Len(<<i>>) = 1 /\ <<i>>[1] = i
    OBVIOUS
  <2>2. /\ DOMAIN t = 1..Len(s) + 1
        /\ \A n \in 1..Len(s) + 1 : t[n] = IF n <= 1 THEN i ELSE s[n - 1]
    BY <1>1, <2>1, ConcatProperties
  <2> HIDE DEF t
  <2>3. \A n \in DOMAIN t : (n = 1 /\ t[n] = i) \/ (n - 1 \in DOMAIN s /\ t[n] = s[n - 1])
    <3> SUFFICES ASSUME NEW n \in 1..Len(s) + 1
                 PROVE  (n = 1 /\ t[n] = i) \/ (n - 1 \in DOMAIN s /\ t[n] = s[n - 1])
      BY <2>2
    <3>1. CASE n = 1
      BY <2>2, <3>1
    <3>2. CASE n # 1
      <4>1. n - 1 \in 1..Len(s) /\ ~(n <= 1)
        BY <1>1, <3>2
      <4> QED BY <1>1, <2>2, <4>1
    <3> QED BY <3>1, <3>2
  <2>4. 1 \in DOMAIN t /\ t[1] = i
    BY <1>1, <2>2
  <2>5. \A n \in DOMAIN s : n + 1 \in DOMAIN t /\ t[n + 1] = s[n]
    BY <1>1, <2>2
  <2>6. Elements(t) = Elements(s) \cup {i}
    BY <2>3, <2>4, <2>5 DEF Elements
  <2>7. ASSUME NEW n \in DOMAIN t, NEW k \in DOMAIN t, t[n] = t[k]
        PROVE  n = k
    <3>1. CASE n = 1
      BY <1>1, <2>3, <2>4, <2>7, <3>1
    <3>2. CASE k = 1
      BY <1>1, <2>3, <2>4, <2>7, <3>2
    <3>3. CASE n # 1 /\ k # 1
      <4>1. n - 1 \in DOMAIN s /\ k - 1 \in DOMAIN s /\ s[n - 1] = s[k - 1]
        BY <2>3, <2>7, <3>3
      <4>2. n - 1 = k - 1
        BY <4>1 DEF NoDuplicates
      <4> QED BY <2>2, <4>2
    <3> QED BY <3>1, <3>2, <3>3
  <2>8. NoDuplicates(t) /\ Elements(t) = Elements(s) \cup {i}
    BY <2>6, <2>7 DEF NoDuplicates
  <2> QED BY <2>8 DEF t
<1> QED BY <1>2, <1>3

LEMMA TailElements ==
    ASSUME NEW s \in Seq(Items), s # <<>>, NoDuplicates(s)
    PROVE  /\ Tail(s) \in Seq(Items) /\ Head(s) \in Elements(s) /\ Head(s) \in Items
           /\ Elements(Tail(s)) = Elements(s) \ {Head(s)}
           /\ NoDuplicates(Tail(s))
<1> DEFINE t == Tail(s)
<1>1. /\ t \in Seq(Items) /\ Len(t) = Len(s) - 1 /\ Head(s) = s[1] /\ s[1] \in Items
      /\ \A i \in 1..(Len(s) - 1) : t[i] = s[i + 1]
      /\ Len(s) \in Nat \ {0}
  OBVIOUS
<1>2. DOMAIN t = 1..(Len(s) - 1) /\ DOMAIN s = 1..Len(s)
  BY <1>1
<1> HIDE DEF t
<1>3. Elements(t) = Elements(s) \ {Head(s)}
  <2>1. ASSUME NEW e \in Elements(t) PROVE e \in Elements(s) \ {Head(s)}
    <3>1. PICK i \in DOMAIN t : e = t[i]
      BY DEF Elements
    <3>2. i + 1 \in DOMAIN s /\ 1 \in DOMAIN s /\ i + 1 # 1 /\ e = s[i + 1]
      BY <1>1, <1>2, <3>1
    <3> QED BY <1>1, <3>2 DEF Elements, NoDuplicates
  <2>2. ASSUME NEW e \in Elements(s) \ {Head(s)} PROVE e \in Elements(t)
    <3>1. PICK i \in DOMAIN s : e = s[i]
      BY DEF Elements
    <3>2. i - 1 \in DOMAIN t /\ t[i - 1] = e
      BY <1>1, <1>2, <3>1
    <3> QED BY <3>2 DEF Elements
  <2> QED BY <2>1, <2>2
<1>4. ASSUME NEW i \in DOMAIN t, NEW k \in DOMAIN t, t[i] = t[k]
      PROVE  i = k
  <2>1. /\ i + 1 \in DOMAIN s /\ k + 1 \in DOMAIN s
        /\ s[i + 1] = s[k + 1] /\ i \in Int /\ k \in Int
    BY <1>1, <1>2, <1>4
  <2>2. i + 1 = k + 1
    BY <2>1 DEF NoDuplicates
  <2> QED BY <2>1, <2>2
<1>5. Head(s) \in Elements(s)
  BY <1>1, <1>2 DEF Elements
<1> QED BY <1>1, <1>3, <1>4, <1>5 DEF t, NoDuplicates

LEMMA PlacesStep ==
    ASSUME TypeOK, ItemsAreInOnePlace, [Next]_vars
    PROVE  ItemsAreInOnePlace'
<1>q. mQueue \in Seq(Items) /\ NoDuplicates(mQueue)
  BY DEF TypeOK, ItemsAreInOnePlace
<1> USE DEF ItemsAreInOnePlace, Queued
<1>1. ASSUME NEW c \in Callers, NEW i \in Items, AddWorkItem(c, i)
      PROVE  ItemsAreInOnePlace'
  <2>1. /\ i \notin given /\ given' = given \cup {i}
        /\ mIsReleased' = mIsReleased /\ mDone' = mDone
        /\ inline => StartsWork(c, i) /\ mQueue' = mQueue
        /\ ~inline => SameWork /\ mQueue' \in {Append(mQueue, i), <<i>> \o mQueue}
    BY <1>1, AddSteps
  <2>2. Done' = Done
    BY <2>1 DEF Done
  <2>3. i \notin Elements(mQueue) /\ i \notin Running /\ i \notin Done
    BY <2>1
  <2>4. CASE inline
    BY <2>1, <2>2, <2>3, <2>4 DEF StartsWork, Running
  <2>5. CASE ~inline
    <3>1. mQueue' \in {Append(mQueue, i), <<i>> \o mQueue}
      BY <2>1, <2>5
    <3>2. /\ NoDuplicates(Append(mQueue, i))
          /\ Elements(Append(mQueue, i)) = Elements(mQueue) \cup {i}
          /\ NoDuplicates(<<i>> \o mQueue)
          /\ Elements(<<i>> \o mQueue) = Elements(mQueue) \cup {i}
      BY <1>q, <2>3, PushedElements
    <3>3. NoDuplicates(mQueue') /\ Elements(mQueue') = Elements(mQueue) \cup {i}
      BY <3>1, <3>2
    <3> QED BY <2>1, <2>2, <2>3, <2>5, <3>3 DEF SameWork
  <2> QED BY <2>4, <2>5
<1>2. ASSUME NEW w \in Workers, TakeItem(w)
      PROVE  ItemsAreInOnePlace'
  <2>1. /\ mQueue # <<>> /\ mQueue' = Tail(mQueue)
        /\ Head(mQueue) \in Items /\ StartsWork(w, Head(mQueue))
        /\ mIsReleased' = mIsReleased /\ mDone' = mDone /\ given' = given
    BY <1>2, TakeStep
  <2>2. /\ NoDuplicates(Tail(mQueue)) /\ Head(mQueue) \in Elements(mQueue)
        /\ Elements(Tail(mQueue)) = Elements(mQueue) \ {Head(mQueue)}
    BY <1>q, <2>1, TailElements
  <2>3. Done' = Done
    BY <2>1 DEF Done
  <2> QED BY <2>1, <2>2, <2>3 DEF StartsWork, Running
<1>3. ASSUME NEW c \in Callers, Stop(c)
      PROVE  ItemsAreInOnePlace'
  <2>1. /\ SameWork /\ mQueue' = <<>> /\ mIsReleased' = TRUE
        /\ mDone' = mDone /\ given' = given
    BY <1>3, StopStep
  <2>2. NoDuplicates(<<>>) /\ Elements(<<>>) = {}
    BY DEF NoDuplicates, Elements
  <2>3. Done' = Done
    BY <2>1 DEF Done
  <2> QED BY <2>1, <2>2, <2>3 DEF SameWork
<1>4. ASSUME NEW t \in Threads, SetDone(t)
      PROVE  ItemsAreInOnePlace'
  <2>1. thread[t].item \in Running /\ Running' = Running \ {thread[t].item}
    BY <1>4, DoneStep DEF EndsWork, Running
  <2> QED BY <1>4, <2>1, DoneStep DEF EndsWork
<1>5. CASE SameWork /\ UNCHANGED <<mQueue, mIsReleased, inline, mDone, given>>
  BY <1>5 DEF SameWork, Done
<1> QED BY <1>1, <1>2, <1>3, <1>4, <1>5, StepKinds

LEMMA PlacesInit == Init => ItemsAreInOnePlace
<1> SUFFICES ASSUME Init PROVE ItemsAreInOnePlace
  OBVIOUS
<1>1. Queued = {} /\ NoDuplicates(mQueue)
  BY DEF Init, Queued, Elements, NoDuplicates
<1>2. Busy = {}
  BY DEF Init, Busy, IsAt, Threads
<1>3. Running = {} /\ Done = {}
  BY <1>2 DEF Init, Running, Done
<1> QED BY <1>1, <1>2, <1>3 DEF Init, ItemsAreInOnePlace

(* ItemsAreInOnePlace: no item is lost before stop(), and none runs twice, *)
(* whichever thread takes it and however long its work takes.              *)
THEOREM OnePlace == Spec => []ItemsAreInOnePlace
BY TypeInit, TypeStep, PlacesInit, PlacesStep, PTL DEF Spec

-----------------------------------------------------------------------------
(* Refinement                                                              *)

LEMMA PoolStep ==
    ASSUME TypeOK, ItemsAreInOnePlace, [Next]_vars
    PROVE  [Pool!Next]_(Pool!poolVars)
<1>k. Pool!Known \subseteq given
  BY DEF Pool!Known, Pool!Waiting, ItemsAreInOnePlace, Queued, Elements
<1>1. ASSUME NEW c \in Callers, NEW i \in Items, AddWorkItem(c, i)
      PROVE  Pool!Add(i)
  <2>1. Done' = Done
    BY <1>1, AddSteps DEF Done
  <2> QED BY <1>k, <1>1, <2>1, AddSteps DEF Pool!Add, StartsWork, SameWork
<1>2. ASSUME NEW w \in Workers, TakeItem(w)
      PROVE  Pool!Begin
  <2>1. Done' = Done
    BY <1>2, TakeStep DEF Done
  <2> QED BY <1>2, <2>1, TakeStep DEF Pool!Begin, StartsWork
<1>3. ASSUME NEW c \in Callers, Stop(c)
      PROVE  Pool!Destroy
  <2>1. Done' = Done
    BY <1>3, StopStep DEF Done
  <2> QED BY <1>3, <2>1, StopStep DEF Pool!Destroy, SameWork
<1>4. ASSUME NEW t \in Threads, SetDone(t)
      PROVE  thread[t].item \in Items /\ Pool!Complete(thread[t].item)
  <2>1. thread[t].item \in Running /\ Running' = Running \ {thread[t].item}
    BY <1>4, DoneStep DEF EndsWork, Running, ItemsAreInOnePlace
  <2> QED BY <1>4, <2>1, DoneStep DEF Pool!Complete
<1>5. CASE SameWork /\ UNCHANGED <<mQueue, mIsReleased, inline, mDone, given>>
  BY <1>5 DEF SameWork, Done, Pool!poolVars
<1> QED BY <1>1, <1>2, <1>3, <1>4, <1>5, StepKinds DEF Pool!Next

LEMMA PoolInit == Init => Pool!Init
<1> SUFFICES ASSUME Init PROVE Pool!Init
  OBVIOUS
<1>1. Busy = {}
  BY DEF Init, Busy, IsAt, Threads
<1> QED BY <1>1 DEF Init, Pool!Init, Running, Done

(* The work queue implements the pool its header describes: items start in *)
(* the order of the queue, each once, and none after stop().               *)
THEOREM PoolImplemented == Spec => ImplementsPool
BY TypeInit, TypeStep, PlacesInit, PlacesStep, PoolInit, PoolStep, PTL
   DEF Spec, ImplementsPool, Pool!Spec

-----------------------------------------------------------------------------
(* Wakeups of waitTillDone.  A waiter is threatened by SetDone alone, which *)
(* sends its own thread to notify; NotifyAll frees the waiters it leaves    *)
(* without a notifier; and only a thread that knows its item undone goes to *)
(* sleep.                                                                  *)

Heard == UndoneIsTested /\ WaitersAreNotified

LEMMA HeardAdd ==
    ASSUME TypeOK, Heard, NEW c \in Callers, NEW i \in Items, AddWorkItem(c, i)
    PROVE  Heard'
<1> USE DEF Heard, UndoneIsTested, WaitersAreNotified, TypeOK, IsAt, Threads, Goto
<1>1. mDone' = mDone
  BY DEF AddWorkItem
<1>2. CASE inline
  <2>1. thread' = [thread EXCEPT ![c] = [pc |-> "working", item |-> i]]
    BY <1>2 DEF AddWorkItem
  <2>2. thread[c].pc = "idle"
    BY DEF AddWorkItem
  <2> QED BY <1>1, <2>1, <2>2
<1>3. CASE ~inline
  <2>1. thread' = thread \/ \E w \in Workers :
            thread[w].pc = "blocked" /\ thread' = [thread EXCEPT ![w].pc = "start"]
    BY <1>3 DEF AddWorkItem, NotifyOne, Blocked
  <2> QED BY <1>1, <2>1
<1> QED BY <1>2, <1>3

LEMMA HeardCaller ==
    ASSUME TypeOK, Heard, NEW c \in Callers, CallerStep(c)
    PROVE  Heard'
<1> USE DEF Heard, UndoneIsTested, WaitersAreNotified, TypeOK, IsAt, Threads, Goto, queueVars
<1>1. CASE \E i \in Items : WaitTillDone(c, i)  BY <1>1 DEF WaitTillDone
<1>2. CASE LockItem(c)  BY <1>2 DEF LockItem
<1>3. CASE CheckDone(c)  BY <1>3 DEF CheckDone
<1>4. CASE WaitForItem(c)  BY <1>4 DEF WaitForItem
<1>5. CASE Stop(c)  BY <1>5 DEF Stop, Blocked
<1>6. CASE Join(c)  BY <1>6 DEF Join
<1> QED BY <1>1, <1>2, <1>3, <1>4, <1>5, <1>6, HeardAdd DEF CallerStep

LEMMA HeardWorker ==
    ASSUME TypeOK, Heard, NEW w \in Workers, WorkerStep(w)
    PROVE  Heard'
<1> USE DEF Heard, UndoneIsTested, WaitersAreNotified, TypeOK, IsAt, Threads, Goto, queueVars
<1>1. CASE LockQueue(w) \/ FindEmpty(w)  BY <1>1 DEF LockQueue, FindEmpty
<1>2. CASE Sleep(w) \/ WakeSpuriously(w)  BY <1>2 DEF Sleep, WakeSpuriously
<1>3. CASE ExitThread(w)  BY <1>3 DEF ExitThread
<1>4. CASE TakeItem(w)
  <2> DEFINE i == Head(mQueue)
  <2>1. /\ thread' = [thread EXCEPT ![w] = [pc |-> "working", item |-> i]]
        /\ thread[w].pc = "locked" /\ mDone' = mDone
    BY <1>4 DEF TakeItem
  <2> HIDE DEF i
  <2>2. /\ thread'[w] = [pc |-> "working", item |-> i]
        /\ \A u \in Threads \ {w} : thread'[u] = thread[u]
    BY <2>1
  <2> QED BY <2>1, <2>2
<1> QED BY <1>1, <1>2, <1>3, <1>4 DEF WorkerStep

LEMMA HeardWork ==
    ASSUME TypeOK, Heard, NEW t \in Threads, WorkStep(t)
    PROVE  Heard'
<1> USE DEF Heard, UndoneIsTested, WaitersAreNotified, TypeOK, IsAt, Threads, Goto, queueVars
<1>1. CASE DoWork(t)  BY <1>1 DEF DoWork
<1>2. CASE SetDone(t)
  BY <1>2 DEF SetDone, ItemMutexFree
<1>3. CASE NotifyAll(t)
  BY <1>3 DEF NotifyAll
<1> QED BY <1>1, <1>2, <1>3 DEF WorkStep

LEMMA HeardStep == TypeOK /\ Heard /\ [Next]_vars => Heard'
<1> SUFFICES ASSUME TypeOK, Heard, [Next]_vars PROVE Heard'
  OBVIOUS
<1>1. CASE UNCHANGED vars
  BY <1>1 DEF vars, Heard, UndoneIsTested, WaitersAreNotified, IsAt
<1> QED BY <1>1, HeardCaller, HeardWorker, HeardWork DEF Next, Terminated

(* WaitersAreNotified: whoever sleeps in waitTillDone on an item that is   *)
(* done is about to be woken.                                              *)
THEOREM WaitersNotified == Spec => []WaitersAreNotified
<1>1. Init => Heard
  BY DEF Init, Heard, UndoneIsTested, WaitersAreNotified, IsAt, Threads
<1>2. Heard => WaitersAreNotified
  BY DEF Heard
<1> QED BY <1>1, <1>2, TypeInit, TypeStep, HeardStep, PTL DEF Spec

-----------------------------------------------------------------------------
(* Wakeups of the workers                                                  *)

Roused == EmptyIsTested /\ QueuedItemsHaveWorkers /\ NobodySleepsAfterStop

LEMMA AwakeSize ==
    /\ IsFiniteSet(Awake) /\ Cardinality(Awake) \in Nat
    /\ IsFiniteSet(Awake') /\ Cardinality(Awake') \in Nat
<1>1. Awake \in SUBSET Workers /\ Awake' \in SUBSET Workers
  BY DEF Awake
<1>2. IsFiniteSet(Workers)
  OBVIOUS
<1> QED BY <1>1, <1>2, FS_Subset, FS_CardinalityType

(* A step that leaves the queue alone, sends nobody to sleep and nobody    *)
(* away from the queue keeps the invariant.                                *)
LEMMA RousedCalm ==
    ASSUME Roused, UNCHANGED queueVars,
           \A w \in Workers :
              /\ IsAt(w, {"start", "locked"}) => IsAt(w, {"start", "locked"})'
              /\ IsAt(w, {"blocked"})' => IsAt(w, {"blocked"})
              /\ IsAt(w, {"empty"})' => IsAt(w, {"empty"})
    PROVE  Roused'
<1>1. Awake \subseteq Awake' /\ Blocked' \subseteq Blocked
  BY DEF Awake, Blocked
<1>2. Cardinality(Awake) <= Cardinality(Awake')
  BY <1>1, AwakeSize, FS_Subset
<1>3. mQueue' = mQueue /\ mIsReleased' = mIsReleased
  BY DEF queueVars
<1>4. EmptyIsTested'
  BY <1>3 DEF Roused, EmptyIsTested
<1>5. QueuedItemsHaveWorkers'
  <2>1. SUFFICES ASSUME Blocked' # {} PROVE Len(mQueue') <= Cardinality(Awake')
    BY DEF QueuedItemsHaveWorkers
  <2>2. Len(mQueue) <= Cardinality(Awake)
    BY <1>1, <2>1 DEF Roused, QueuedItemsHaveWorkers
  <2> QED BY <1>2, <1>3, <2>2, AwakeSize
<1>6. NobodySleepsAfterStop'
  BY <1>1, <1>3 DEF Roused, NobodySleepsAfterStop
<1> QED BY <1>4, <1>5, <1>6 DEF Roused

(* So does one that leaves the queue empty and sends to sleep only who     *)
(* knows that there is nothing to do.                                      *)
LEMMA RousedEmpty ==
    ASSUME Roused, UNCHANGED queueVars, mQueue = <<>>, TypeOK,
           \A w \in Workers :
              /\ IsAt(w, {"blocked"})' => IsAt(w, {"blocked"}) \/ ~mIsReleased
              /\ IsAt(w, {"empty"})' => IsAt(w, {"empty"}) \/ ~mIsReleased
    PROVE  Roused'
<1>1. mQueue' = <<>> /\ mIsReleased' = mIsReleased
  BY DEF queueVars
<1>2. EmptyIsTested'
  BY <1>1 DEF Roused, EmptyIsTested
<1>3. QueuedItemsHaveWorkers'
  <2>1. Len(mQueue') = 0
    BY <1>1
  <2> QED BY <2>1, AwakeSize DEF QueuedItemsHaveWorkers
<1>4. NobodySleepsAfterStop'
  BY <1>1 DEF Roused, NobodySleepsAfterStop, Blocked
<1> QED BY <1>2, <1>3, <1>4 DEF Roused

LEMMA RousedAdd ==
    ASSUME TypeOK, Roused, NEW c \in Callers, NEW i \in Items, AddWorkItem(c, i)
    PROVE  Roused'
<1>1. CASE inline
  <2>1. UNCHANGED queueVars /\ \A w \in Workers : thread'[w] = thread[w]
    BY <1>1 DEF AddWorkItem, queueVars, TypeOK, Threads
  <2> QED BY <2>1, RousedCalm DEF IsAt
<1>2. CASE ~inline
  <2>1. /\ QueueMutexFree /\ NotifyOne /\ ~mIsReleased /\ mIsReleased' = mIsReleased
        /\ mQueue' \in {Append(mQueue, i), <<i>> \o mQueue}
    BY <1>2 DEF AddWorkItem
  <2>2. mQueue \in Seq(Items) /\ Len(mQueue) \in Nat
    BY DEF TypeOK
  <2>3. Len(mQueue') = Len(mQueue) + 1
    BY <2>1, <2>2, PushTyping
  <2>4. NobodySleepsAfterStop'
    BY <2>1 DEF NobodySleepsAfterStop
  <2>5. CASE Blocked = {}
    <3>1. thread' = thread
      BY <2>1, <2>5 DEF NotifyOne
    <3> QED BY <2>1, <2>4, <2>5, <3>1
            DEF Roused, EmptyIsTested, QueuedItemsHaveWorkers, QueueMutexFree, IsAt, Blocked
  <2>6. ASSUME NEW w \in Workers, w \in Blocked, Goto(w, "start")
        PROVE  Roused'
    <3>1. /\ thread[w].pc = "blocked" /\ thread'[w].pc = "start"
          /\ \A v \in Workers \ {w} : thread'[v] = thread[v]
      BY <2>6 DEF Goto, Blocked, IsAt, TypeOK, Threads
    <3>2. EmptyIsTested'
      BY <2>1, <3>1 DEF QueueMutexFree, IsAt, EmptyIsTested
    <3>3. Awake' = Awake \cup {w} /\ w \notin Awake
      BY <3>1 DEF Awake, IsAt
    <3>4. Cardinality(Awake') = Cardinality(Awake) + 1
      BY <3>3, AwakeSize, FS_AddElement
    <3>5. Len(mQueue) <= Cardinality(Awake)
      BY <2>6 DEF Roused, QueuedItemsHaveWorkers
    <3>6. Len(mQueue') <= Cardinality(Awake')
      BY <2>2, <2>3, <3>4, <3>5, AwakeSize
    <3> QED BY <2>4, <3>2, <3>6 DEF Roused, QueuedItemsHaveWorkers
  <2> QED BY <2>1, <2>5, <2>6 DEF NotifyOne, Blocked
<1> QED BY <1>1, <1>2

LEMMA RousedTake ==
    ASSUME TypeOK, Roused, NEW w \in Workers, TakeItem(w)
    PROVE  Roused'
<1>1. /\ thread[w].pc = "locked" /\ thread'[w].pc = "working"
      /\ \A v \in Workers \ {w} : thread'[v] = thread[v]
      /\ mQueue # <<>> /\ mQueue' = Tail(mQueue) /\ mIsReleased' = mIsReleased
  BY DEF TakeItem, IsAt, TypeOK, Threads
<1>2. EmptyIsTested'
  BY <1>1 DEF Roused, EmptyIsTested, IsAt
<1>3. Blocked' = Blocked /\ Awake' = Awake \ {w} /\ w \in Awake
  BY <1>1 DEF Blocked, Awake, IsAt
<1>4. NobodySleepsAfterStop'
  BY <1>1, <1>3 DEF Roused, NobodySleepsAfterStop
<1>5. Cardinality(Awake') = Cardinality(Awake) - 1
  BY <1>3, AwakeSize, FS_RemoveElement
<1>6. Len(mQueue) \in Nat /\ Len(mQueue') = Len(mQueue) - 1
  BY <1>1 DEF TypeOK
<1>7. QueuedItemsHaveWorkers'
  BY <1>3, <1>5, <1>6, AwakeSize DEF Roused, QueuedItemsHaveWorkers
<1> QED BY <1>2, <1>4, <1>7 DEF Roused

LEMMA RousedStop ==
    ASSUME TypeOK, Roused, NEW c \in Callers, Stop(c)
    PROVE  Roused'
<1>1. Blocked' = {}
  BY DEF Stop, Blocked, IsAt, TypeOK, Threads
<1>2. \A w \in Workers : ~IsAt(w, {"empty"})'
  BY DEF Stop, QueueMutexFree, Blocked, IsAt, TypeOK, Threads
<1> QED BY <1>1, <1>2
        DEF Roused, EmptyIsTested, QueuedItemsHaveWorkers, NobodySleepsAfterStop

LEMMA RousedStep ==
    ASSUME TypeOK, Roused, [Next]_vars
    PROVE  Roused'
<1> USE DEF IsAt, Goto, queueVars, TypeOK, Threads
<1>1. ASSUME NEW c \in Callers, CallerStep(c) PROVE Roused'
  <2>1. CASE \E i \in Items : WaitTillDone(c, i)
    BY <2>1, RousedCalm DEF WaitTillDone
  <2>2. CASE LockItem(c) \/ CheckDone(c)
    BY <2>2, RousedCalm DEF LockItem, CheckDone
  <2>3. CASE WaitForItem(c) \/ Join(c)
    BY <2>3, RousedCalm DEF WaitForItem, Join
  <2> QED BY <1>1, <2>1, <2>2, <2>3, RousedAdd, RousedStop DEF CallerStep
<1>2. ASSUME NEW w \in Workers, WorkerStep(w) PROVE Roused'
  <2>1. CASE LockQueue(w) \/ WakeSpuriously(w)
    BY <2>1, RousedCalm DEF LockQueue, WakeSpuriously
  <2>2. CASE FindEmpty(w)
    BY <2>2, RousedEmpty DEF FindEmpty
  <2>3. CASE Sleep(w)
    <3>1. mQueue = <<>> /\ ~mIsReleased
      BY <2>3 DEF Sleep, Roused, EmptyIsTested
    <3> QED BY <2>3, <3>1, RousedEmpty DEF Sleep
  <2>4. CASE ExitThread(w)
    BY <2>4, RousedEmpty DEF ExitThread
  <2> QED BY <1>2, <2>1, <2>2, <2>3, <2>4, RousedTake DEF WorkerStep
<1>3. ASSUME NEW t \in Threads, WorkStep(t) PROVE Roused'
  <2>1. CASE DoWork(t)  BY <2>1, RousedCalm DEF DoWork
  <2>2. CASE SetDone(t)  BY <2>2, RousedCalm DEF SetDone
  <2>3. CASE NotifyAll(t)  BY <2>3, RousedCalm DEF NotifyAll
  <2> QED BY <1>3, <2>1, <2>2, <2>3 DEF WorkStep
<1>4. CASE UNCHANGED vars
  BY <1>4, RousedCalm DEF vars
<1> QED BY <1>1, <1>2, <1>3, <1>4 DEF Next, Terminated

LEMMA RousedInit == Init => Roused
<1> SUFFICES ASSUME Init PROVE Roused
  OBVIOUS
<1>1. \A w \in Workers : thread[w].pc = "start"
  BY DEF Init, Threads
<1>2. mQueue = <<>> /\ ~mIsReleased
  BY DEF Init
<1>3. Blocked = {}
  BY <1>1 DEF Blocked, IsAt
<1> QED BY <1>1, <1>2, <1>3
        DEF Roused, EmptyIsTested, QueuedItemsHaveWorkers, NobodySleepsAfterStop, IsAt

(* QueuedItemsHaveWorkers: one notify_one per item is enough for any       *)
(* number of workers: none sleeps while an item has nobody to take it.     *)
THEOREM ItemsHaveWorkers == Spec => []QueuedItemsHaveWorkers
<1>1. Roused => QueuedItemsHaveWorkers
  BY DEF Roused
<1> QED BY <1>1, TypeInit, TypeStep, RousedInit, RousedStep, PTL DEF Spec

(* After stop() no worker sleeps, so each finds mIsReleased and its thread *)
(* can be joined.                                                          *)
THEOREM NoSleepAfterStop == Spec => []NobodySleepsAfterStop
<1>1. Roused => NobodySleepsAfterStop
  BY DEF Roused
<1> QED BY <1>1, TypeInit, TypeStep, RousedInit, RousedStep, PTL DEF Spec
=============================================================================
