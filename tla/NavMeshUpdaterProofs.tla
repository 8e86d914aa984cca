------------------------- MODULE NavMeshUpdaterProofs -------------------------
(* Proofs, for every value of the constants, that a job is in one place at *)
(* a time, that a tile is locked exactly while one job owns it, that       *)
(* mPushed is the set of keys with a waiting job, and that no posted       *)
(* change is forgotten.                                                    *)
EXTENDS NavMeshUpdater, FiniteSetTheorems, SequenceTheorems, TLAPS

-----------------------------------------------------------------------------
(* What the container operations do to the elements of a sequence without  *)
(* duplicates                                                              *)

(* Appending x adds it to the elements and keeps a sequence that did not   *)
(* hold it free of duplicates.                                             *)
LEMMA AppendElements ==
    ASSUME NEW S, NEW s \in Seq(S), NEW x \in S
    PROVE  /\ Append(s, x) \in Seq(S)
           /\ Elements(Append(s, x)) = Elements(s) \cup {x}
           /\ NoDuplicates(s) /\ x \notin Elements(s) => NoDuplicates(Append(s, x))
<1> DEFINE t == Append(s, x)
<1>1. /\ t \in Seq(S) /\ Len(t) = Len(s) + 1 /\ t[Len(s) + 1] = x
      /\ \A i \in 1..Len(s) : t[i] = s[i]
  OBVIOUS
<1>2. DOMAIN t = 1..(Len(s) + 1) /\ DOMAIN s = 1..Len(s) /\ Len(s) \in Nat
  BY <1>1
<1> HIDE DEF t
<1>3. Elements(t) = Elements(s) \cup {x}
  <2>1. ASSUME NEW e \in Elements(t) PROVE e \in Elements(s) \cup {x}
    <3>1. PICK i \in DOMAIN t : e = t[i]
      BY DEF Elements
    <3>2. CASE i = Len(s) + 1
      BY <1>1, <3>1, <3>2
    <3>3. CASE i # Len(s) + 1
      <4>1. i \in DOMAIN s /\ t[i] = s[i]
        BY <1>1, <1>2, <3>3
      <4> QED BY <3>1, <4>1 DEF Elements
    <3> QED BY <3>2, <3>3
  <2>2. ASSUME NEW e \in Elements(s) \cup {x} PROVE e \in Elements(t)
    <3>1. CASE e = x
      <4>1. Len(s) + 1 \in DOMAIN t
        BY <1>2
      <4> QED BY <1>1, <3>1, <4>1 DEF Elements
    <3>2. CASE e \in Elements(s)
      <4>1. PICK i \in DOMAIN s : e = s[i]
        BY <3>2 DEF Elements
      <4>2. i \in DOMAIN t /\ t[i] = s[i]
        BY <1>1, <1>2
      <4> QED BY <4>1, <4>2 DEF Elements
    <3> QED BY <3>1, <3>2
  <2> QED BY <2>1, <2>2
<1>4. ASSUME NoDuplicates(s), x \notin Elements(s),
             NEW i \in DOMAIN t, NEW k \in DOMAIN t, t[i] = t[k]
      PROVE  i = k
  <2>1. \A n \in DOMAIN s : s[n] # x
    BY <1>4 DEF Elements
  <2> QED BY <1>1, <1>2, <1>4, <2>1 DEF NoDuplicates
<1> QED BY <1>1, <1>3, <1>4 DEF t, NoDuplicates

(* Removing the element at one end removes exactly that element.           *)
LEMMA TailElements ==
    ASSUME NEW S, NEW s \in Seq(S), s # <<>>, NoDuplicates(s)
    PROVE  /\ Tail(s) \in Seq(S) /\ Head(s) \in Elements(s) /\ Head(s) \in S
           /\ Elements(Tail(s)) = Elements(s) \ {Head(s)}
           /\ NoDuplicates(Tail(s))
<1> DEFINE t == Tail(s)
<1>1. /\ t \in Seq(S) /\ Len(t) = Len(s) - 1 /\ Head(s) = s[1] /\ s[1] \in S
      /\ \A i \in 1..(Len(s) - 1) : t[i] = s[i + 1]
      /\ Len(s) \in Nat \ {0}
  OBVIOUS
<1>2. DOMAIN t = 1..(Len(s) - 1) /\ DOMAIN s = 1..Len(s)
  BY <1>1
<1> HIDE DEF t
<1>3. Elements(t) = Elements(s) \ {Head(s)}
  <2>1. ASSUME NEW e \in Elements(t) PROVE e \in Elements(s) \ {Head(s)}
    <3>1. PICK i \in DOMAIN t : e = t[i]
      BY DEF Elements
    <3>2. i + 1 \in DOMAIN s /\ 1 \in DOMAIN s /\ i + 1 # 1 /\ e = s[i + 1]
      BY <1>1, <1>2, <3>1
    <3> QED BY <1>1, <3>2 DEF Elements, NoDuplicates
  <2>2. ASSUME NEW e \in Elements(s) \ {Head(s)} PROVE e \in Elements(t)
    <3>1. PICK i \in DOMAIN s : e = s[i]
      BY DEF Elements
    <3>2. i - 1 \in DOMAIN t /\ t[i - 1] = e
      BY <1>1, <1>2, <3>1
    <3> QED BY <3>2 DEF Elements
  <2> QED BY <2>1, <2>2
<1>4. ASSUME NEW i \in DOMAIN t, NEW k \in DOMAIN t, t[i] = t[k]
      PROVE  i = k
  <2>1. /\ i + 1 \in DOMAIN s /\ k + 1 \in DOMAIN s
        /\ s[i + 1] = s[k + 1] /\ i \in Int /\ k \in Int
    BY <1>1, <1>2, <1>4
  <2>2. i + 1 = k + 1
    BY <2>1 DEF NoDuplicates
  <2> QED BY <2>1, <2>2
<1>5. Head(s) \in Elements(s)
  BY <1>1, <1>2 DEF Elements
<1> QED BY <1>1, <1>3, <1>4, <1>5 DEF t, NoDuplicates

LEMMA AllButLastElements ==
    ASSUME NEW S, NEW s \in Seq(S), s # <<>>, NoDuplicates(s)
    PROVE  /\ AllButLast(s) \in Seq(S)
           /\ s[Len(s)] \in Elements(s) /\ s[Len(s)] \in S
           /\ Elements(AllButLast(s)) = Elements(s) \ {s[Len(s)]}
           /\ NoDuplicates(AllButLast(s))
<1> DEFINE t == AllButLast(s)
<1>1. /\ t \in Seq(S) /\ Len(t) = Len(s) - 1 /\ s[Len(s)] \in S
      /\ \A i \in 1..(Len(s) - 1) : t[i] = s[i]
      /\ Len(s) \in Nat \ {0}
  <2>1. Len(s) \in Nat \ {0} /\ \A i \in 1..Len(s) : s[i] \in S
    OBVIOUS
  <2>2. \A i \in 1..(Len(s) - 1) : s[i] \in S
    BY <2>1
  <2>3. /\ t \in Seq(S)
        /\ Len(t) = IF 1 <= Len(s) - 1 THEN Len(s) - 1 - 1 + 1 ELSE 0
        /\ \A i \in 1..(Len(s) - 1 - 1 + 1) : t[i] = s[1 + i - 1]
    BY <2>1, <2>2, SubSeqProperties DEF AllButLast
  <2> HIDE DEF t
  <2>4. ASSUME NEW i \in 1..(Len(s) - 1) PROVE t[i] = s[i]
    <3>1. i \in 1..(Len(s) - 1 - 1 + 1) /\ 1 + i - 1 = i
      BY <2>1
    <3> QED BY <2>3, <3>1
  <2>5. ASSUME NEW m \in Nat \ {0}, NEW l,
               l = IF 1 <= m - 1 THEN m - 1 - 1 + 1 ELSE 0
        PROVE  l = m - 1 /\ m \in 1..m
    BY <2>5
  <2> QED BY <2>1, <2>3, <2>4, <2>5
<1>2. DOMAIN t = 1..(Len(s) - 1) /\ DOMAIN s = 1..Len(s)
  BY <1>1
<1> HIDE DEF t
<1>3. Elements(t) = Elements(s) \ {s[Len(s)]}
  <2>1. ASSUME NEW e \in Elements(t) PROVE e \in Elements(s) \ {s[Len(s)]}
    <3>1. PICK i \in DOMAIN t : e = t[i]
      BY DEF Elements
    <3>2. i \in DOMAIN s /\ Len(s) \in DOMAIN s /\ i # Len(s) /\ e = s[i]
      BY <1>1, <1>2, <3>1
    <3> QED BY <3>2 DEF Elements, NoDuplicates
  <2>2. ASSUME NEW e \in Elements(s) \ {s[Len(s)]} PROVE e \in Elements(t)
    <3>1. PICK i \in DOMAIN s : e = s[i]
      BY DEF Elements
    <3>2. i \in DOMAIN t /\ t[i] = e
      BY <1>1, <1>2, <3>1
    <3> QED BY <3>2 DEF Elements
  <2> QED BY <2>1, <2>2
<1>4. NoDuplicates(t)
  <2>1. ASSUME NEW i \in DOMAIN t, NEW k \in DOMAIN t, t[i] = t[k]
        PROVE  i = k
    <3>1. i \in DOMAIN s /\ k \in DOMAIN s /\ s[i] = s[k]
      BY <1>1, <1>2, <2>1
    <3> QED BY <3>1 DEF NoDuplicates
  <2> QED BY <2>1 DEF NoDuplicates
<1>5. s[Len(s)] \in Elements(s)
  BY <1>1, <1>2 DEF Elements
<1> QED BY <1>1, <1>3, <1>4, <1>5 DEF t

(* Appending one sequence to another joins their elements.                 *)
LEMMA ConcatElements ==
    ASSUME NEW S, NEW s \in Seq(S), NEW u \in Seq(S),
           NoDuplicates(s), NoDuplicates(u), Elements(s) \cap Elements(u) = {}
    PROVE  /\ s \o u \in Seq(S)
           /\ Elements(s \o u) = Elements(s) \cup Elements(u)
           /\ NoDuplicates(s \o u)
<1> DEFINE t == s \o u
<1>1. /\ t \in Seq(S) /\ Len(t) = Len(s) + Len(u)
      /\ \A i \in 1..(Len(s) + Len(u)) :
            t[i] = IF i <= Len(s) THEN s[i] ELSE u[i - Len(s)]
      /\ Len(s) \in Nat /\ Len(u) \in Nat
  BY ConcatProperties
<1>2. /\ DOMAIN t = 1..(Len(s) + Len(u))
      /\ DOMAIN s = 1..Len(s) /\ DOMAIN u = 1..Len(u)
  BY <1>1
<1> HIDE DEF t
<1>3. ASSUME NEW i \in DOMAIN s PROVE i \in DOMAIN t /\ t[i] = s[i]
  BY <1>1, <1>2
<1>4. ASSUME NEW i \in DOMAIN u PROVE Len(s) + i \in DOMAIN t /\ t[Len(s) + i] = u[i]
  BY <1>1, <1>2
<1>5. ASSUME NEW i \in DOMAIN t
      PROVE  \/ i \in DOMAIN s /\ t[i] = s[i]
             \/ i - Len(s) \in DOMAIN u /\ t[i] = u[i - Len(s)]
  BY <1>1, <1>2
<1>6. Elements(t) = Elements(s) \cup Elements(u)
  BY <1>3, <1>4, <1>5 DEF Elements
<1>7. ASSUME NEW i \in DOMAIN t, NEW k \in DOMAIN t, t[i] = t[k]
      PROVE  i = k
  <2>1. ASSUME NEW a \in DOMAIN s, NEW b \in DOMAIN u PROVE s[a] # u[b]
    <3>1. s[a] \in Elements(s) /\ u[b] \in Elements(u)
      BY DEF Elements
    <3> QED BY <3>1
  <2>2. CASE i \in DOMAIN s /\ t[i] = s[i] /\ k \in DOMAIN s /\ t[k] = s[k]
    BY <1>7, <2>2 DEF NoDuplicates
  <2>3. CASE /\ i - Len(s) \in DOMAIN u /\ t[i] = u[i - Len(s)]
             /\ k - Len(s) \in DOMAIN u /\ t[k] = u[k - Len(s)]
    <3>1. i - Len(s) = k - Len(s)
      BY <1>7, <2>3 DEF NoDuplicates
    <3> QED BY <1>1, <1>2, <3>1
  <2> QED BY <1>5, <1>7, <2>1, <2>2, <2>3
<1> QED BY <1>1, <1>6, <1>7 DEF t, NoDuplicates

(* What is left of a queue after its first n elements have been taken.     *)
LEMMA SuffixElements ==
    ASSUME NEW S, NEW s \in Seq(S), NoDuplicates(s), NEW n \in 0..Len(s)
    PROVE  LET first == {s[i] : i \in 1..n}
               rest  == SubSeq(s, n + 1, Len(s))
           IN  /\ rest \in Seq(S) /\ first \subseteq S
               /\ NoDuplicates(rest)
               /\ Elements(rest) = Elements(s) \ first
               /\ first \subseteq Elements(s)
<1> DEFINE first == {s[i] : i \in 1..n}
           t == SubSeq(s, n + 1, Len(s))
<1>1. /\ t \in Seq(S) /\ Len(t) = Len(s) - n
      /\ \A i \in 1..(Len(s) - n) : t[i] = s[n + i]
      /\ Len(s) \in Nat
  <2>1. Len(s) \in Nat /\ n \in Nat /\ n <= Len(s)
        /\ \A i \in 1..Len(s) : s[i] \in S
    OBVIOUS
  <2>2. \A i \in (n + 1)..Len(s) : s[i] \in S
    BY <2>1
  <2>3. /\ t \in Seq(S)
        /\ Len(t) = IF n + 1 <= Len(s) THEN Len(s) - (n + 1) + 1 ELSE 0
        /\ \A i \in 1..(Len(s) - (n + 1) + 1) : t[i] = s[(n + 1) + i - 1]
    BY <2>1, <2>2, SubSeqProperties
  <2> QED BY <2>1, <2>3
<1>2. DOMAIN t = 1..(Len(s) - n) /\ DOMAIN s = 1..Len(s) /\ n \in Nat /\ n <= Len(s)
  BY <1>1
<1>3. first \subseteq Elements(s) /\ first \subseteq S
  <2>1. \A i \in DOMAIN s : s[i] \in S
    OBVIOUS
  <2>2. \A i \in 1..n : i \in DOMAIN s
    <3> HIDE DEF first, t
    <3> QED BY <1>2
  <2> QED BY <2>1, <2>2 DEF Elements
<1> HIDE DEF t
<1>4. Elements(t) = Elements(s) \ first
  <2>1. ASSUME NEW e \in Elements(t) PROVE e \in Elements(s) \ first
    <3>1. PICK i \in DOMAIN t : e = t[i]
      BY DEF Elements
    <3>2. n + i \in DOMAIN s /\ e = s[n + i] /\ i \in Nat \ {0}
      BY <1>1, <1>2, <3>1
    <3>3. \A k \in 1..n : s[k] # s[n + i]
      <4>1. ASSUME NEW k \in 1..n PROVE s[k] # s[n + i]
        <5>1. k \in DOMAIN s /\ k # n + i
          BY <1>1, <1>2, <3>2
        <5> QED BY <3>2, <5>1 DEF NoDuplicates
      <4> QED BY <4>1
    <3> QED BY <3>2, <3>3 DEF Elements
  <2>2. ASSUME NEW e \in Elements(s) \ first PROVE e \in Elements(t)
    <3>1. PICK i \in DOMAIN s : e = s[i]
      BY DEF Elements
    <3>2. i \notin 1..n
      BY <3>1
    <3>3. i - n \in DOMAIN t /\ t[i - n] = e
      BY <1>1, <1>2, <3>1, <3>2
    <3> QED BY <3>3 DEF Elements
  <2> QED BY <2>1, <2>2
<1>5. NoDuplicates(t)
  <2>1. ASSUME NEW i \in DOMAIN t, NEW k \in DOMAIN t, t[i] = t[k]
        PROVE  i = k
    <3>1. /\ n + i \in DOMAIN s /\ n + k \in DOMAIN s /\ s[n + i] = s[n + k]
          /\ i \in Nat /\ k \in Nat
      BY <1>1, <1>2, <2>1
    <3>2. n + i = n + k
      BY <3>1 DEF NoDuplicates
    <3> QED BY <1>2, <3>1, <3>2
  <2> QED BY <2>1 DEF NoDuplicates
<1> QED BY <1>1, <1>3, <1>4, <1>5 DEF t

(* An ordering of a finite set is a sequence of its elements.              *)
LEMMA OrderElements ==
    ASSUME NEW S, NEW T \in SUBSET S, IsFiniteSet(S), NEW s \in Orders(T)
    PROVE  s \in Seq(S) /\ Elements(s) = T /\ NoDuplicates(s)
<1>1. Cardinality(T) \in Nat
  BY FS_Subset, FS_CardinalityType
<1>2. s \in [1..Cardinality(T) -> S]
  BY DEF Orders
<1> QED BY <1>1, <1>2 DEF Orders

-----------------------------------------------------------------------------
(* What the operations of a JobQueue do to the jobs it holds.              *)

(* JobQueue::pop takes one waiting job and leaves the others.              *)
LEMMA PoppedJob ==
    ASSUME mWaiting \in JobQueues, QueueHasNoDuplicates(mWaiting),
           NEW n \in Popped
    PROVE  /\ n.job \in WaitingJobs /\ n.job \in JobIds
           /\ n.rest \in JobQueues
           /\ QueueJobs(n.rest) = WaitingJobs \ {n.job}
           /\ QueueHasNoDuplicates(n.rest)
<1> DEFINE R == mWaiting.mRemoving
           U == mWaiting.mUpdating
           L == mWaiting.mDelayed
<1>1. R \in Seq(JobIds) /\ U \in SUBSET JobIds /\ L \in Seq(JobIds)
  BY DEF JobQueues
<1>2. mWaiting = [mRemoving |-> R, mUpdating |-> U, mDelayed |-> L]
  BY DEF JobQueues
<1>3. /\ NoDuplicates(R) /\ NoDuplicates(L)
      /\ Elements(R) \cap U = {} /\ Elements(R) \cap Elements(L) = {}
      /\ U \cap Elements(L) = {}
  BY DEF QueueHasNoDuplicates
<1>4. WaitingJobs = Elements(R) \cup U \cup Elements(L)
  BY DEF WaitingJobs, QueueJobs
<1>5. CASE R # <<>>
  <2>1. n = [job |-> R[Len(R)],
             rest |-> [mRemoving |-> AllButLast(R), mUpdating |-> U, mDelayed |-> L]]
    BY <1>2, <1>5 DEF Popped
  <2>2. /\ AllButLast(R) \in Seq(JobIds)
        /\ R[Len(R)] \in Elements(R) /\ R[Len(R)] \in JobIds
        /\ Elements(AllButLast(R)) = Elements(R) \ {R[Len(R)]}
        /\ NoDuplicates(AllButLast(R))
    BY <1>1, <1>3, <1>5, AllButLastElements
  <2>3. n.job \in WaitingJobs /\ n.job \in JobIds /\ n.rest \in JobQueues
    BY <1>1, <1>4, <2>1, <2>2 DEF JobQueues
  <2>4. QueueJobs(n.rest) = WaitingJobs \ {n.job}
    BY <1>3, <1>4, <2>1, <2>2 DEF QueueJobs
  <2>5. QueueHasNoDuplicates(n.rest)
    BY <1>3, <2>1, <2>2 DEF QueueHasNoDuplicates
  <2> QED BY <2>3, <2>4, <2>5
<1>6. CASE R = <<>> /\ U # {}
  <2>a. PICK j \in NearestJobs(U, mPlayerTile) :
          n = [job |-> j, rest |-> [mWaiting EXCEPT !.mUpdating = U \ {j}]]
    BY <1>6 DEF Popped
  <2>1. /\ j \in U
        /\ n = [job |-> j,
                rest |-> [mRemoving |-> R, mUpdating |-> U \ {j}, mDelayed |-> L]]
    BY <1>2, <2>a DEF NearestJobs
  <2>2. n.job \in WaitingJobs /\ n.job \in JobIds /\ n.rest \in JobQueues
    BY <1>1, <1>4, <2>1 DEF JobQueues
  <2>3. QueueJobs(n.rest) = WaitingJobs \ {n.job}
    BY <1>3, <1>4, <2>1 DEF QueueJobs
  <2>4. QueueHasNoDuplicates(n.rest)
    BY <1>3, <2>1 DEF QueueHasNoDuplicates
  <2> QED BY <2>2, <2>3, <2>4
<1>7. CASE R = <<>> /\ U = {}
  <2>1. /\ n = [job |-> Head(L),
                rest |-> [mRemoving |-> R, mUpdating |-> U, mDelayed |-> Tail(L)]]
        /\ L # <<>>
    BY <1>2, <1>7 DEF Popped, HasJob
  <2>2. /\ Tail(L) \in Seq(JobIds)
        /\ Head(L) \in Elements(L) /\ Head(L) \in JobIds
        /\ Elements(Tail(L)) = Elements(L) \ {Head(L)}
        /\ NoDuplicates(Tail(L))
    BY <1>1, <1>3, <2>1, TailElements
  <2>3. n.job \in WaitingJobs /\ n.job \in JobIds /\ n.rest \in JobQueues
    BY <1>1, <1>4, <2>1, <2>2 DEF JobQueues
  <2>4. QueueJobs(n.rest) = WaitingJobs \ {n.job}
    BY <1>3, <1>4, <2>1, <2>2 DEF QueueJobs
  <2>5. QueueHasNoDuplicates(n.rest)
    BY <1>3, <2>1, <2>2 DEF QueueHasNoDuplicates
  <2> QED BY <2>3, <2>4, <2>5
<1> QED BY <1>5, <1>6, <1>7

(* JobQueue::push adds one job.                                            *)
LEMMA PushedJob ==
    ASSUME NEW q \in JobQueues, QueueHasNoDuplicates(q),
           NEW j \in JobIds, j \notin QueueJobs(q), NEW r \in Job
    PROVE  /\ Pushed(q, j, r) \in JobQueues
           /\ QueueJobs(Pushed(q, j, r)) = QueueJobs(q) \cup {j}
           /\ QueueHasNoDuplicates(Pushed(q, j, r))
<1> DEFINE p == Pushed(q, j, r)
<1>1. /\ q.mRemoving \in Seq(JobIds) /\ q.mUpdating \in SUBSET JobIds
      /\ q.mDelayed \in Seq(JobIds)
      /\ q = [mRemoving |-> q.mRemoving, mUpdating |-> q.mUpdating,
              mDelayed |-> q.mDelayed]
  BY DEF JobQueues
<1>2. j \notin Elements(q.mRemoving) /\ j \notin q.mUpdating
      /\ j \notin Elements(q.mDelayed)
  BY DEF QueueJobs
<1>3. CASE ~r.due
  <2>1. p = [mRemoving |-> q.mRemoving, mUpdating |-> q.mUpdating,
             mDelayed |-> Append(q.mDelayed, j)]
    BY <1>1, <1>3 DEF Pushed
  <2>2. /\ Append(q.mDelayed, j) \in Seq(JobIds)
        /\ Elements(Append(q.mDelayed, j)) = Elements(q.mDelayed) \cup {j}
        /\ NoDuplicates(Append(q.mDelayed, j))
    BY <1>1, <1>2, AppendElements DEF QueueHasNoDuplicates
  <2> HIDE DEF p
  <2>3. p \in JobQueues
    BY <1>1, <2>1, <2>2 DEF JobQueues
  <2>4. QueueJobs(p) = QueueJobs(q) \cup {j} /\ QueueHasNoDuplicates(p)
    BY <1>2, <2>1, <2>2 DEF QueueJobs, QueueHasNoDuplicates
  <2> QED BY <2>3, <2>4 DEF p
<1>4. CASE r.due /\ r.type = "remove"
  <2>1. p = [mRemoving |-> Append(q.mRemoving, j), mUpdating |-> q.mUpdating,
             mDelayed |-> q.mDelayed]
    BY <1>1, <1>4 DEF Pushed
  <2>2. /\ Append(q.mRemoving, j) \in Seq(JobIds)
        /\ Elements(Append(q.mRemoving, j)) = Elements(q.mRemoving) \cup {j}
        /\ NoDuplicates(Append(q.mRemoving, j))
    BY <1>1, <1>2, AppendElements DEF QueueHasNoDuplicates
  <2> HIDE DEF p
  <2>3. p \in JobQueues
    BY <1>1, <2>1, <2>2 DEF JobQueues
  <2>4. QueueJobs(p) = QueueJobs(q) \cup {j} /\ QueueHasNoDuplicates(p)
    BY <1>2, <2>1, <2>2 DEF QueueJobs, QueueHasNoDuplicates
  <2> QED BY <2>3, <2>4 DEF p
<1>5. CASE r.due /\ r.type # "remove"
  <2>1. p = [mRemoving |-> q.mRemoving, mUpdating |-> q.mUpdating \cup {j},
             mDelayed |-> q.mDelayed]
    BY <1>1, <1>5 DEF Pushed
  <2> HIDE DEF p
  <2>2. p \in JobQueues
    BY <1>1, <2>1 DEF JobQueues
  <2>3. QueueJobs(p) = QueueJobs(q) \cup {j} /\ QueueHasNoDuplicates(p)
    BY <1>2, <2>1 DEF QueueJobs, QueueHasNoDuplicates
  <2> QED BY <2>2, <2>3 DEF p
<1> QED BY <1>3, <1>4, <1>5 DEF Job

(* JobQueue::update moves jobs between the three containers and keeps      *)
(* which jobs there are, their keys and their stages.                      *)
LEMMA UpdatedQueue ==
    ASSUME mWaiting \in JobQueues, QueueHasNoDuplicates(mWaiting),
           job \in [JobIds -> Job \cup {NoJob}], WaitingJobs \subseteq mJobs,
           UpdateWaiting
    PROVE  /\ mWaiting' \in JobQueues /\ QueueJobs(mWaiting') = WaitingJobs
           /\ QueueHasNoDuplicates(mWaiting')
           /\ job' \in [JobIds -> Job \cup {NoJob}] /\ mJobs' = mJobs
           /\ \A j \in mJobs : /\ job'[j].stage = job[j].stage
                               /\ job'[j].key = job[j].key
                               /\ job'[j].expired = job[j].expired
<1> DEFINE R == mWaiting.mRemoving
           U == mWaiting.mUpdating
           L == mWaiting.mDelayed
           due(n) == {L[i] : i \in 1..n}
           far(n) == {j \in U \cup due(n) : ~ShouldAddTile(job[j].key[2], mPlayerTile)}
           left(n) == SubSeq(L, n + 1, Len(L))
<1>0. PICK n \in 0..Len(L) : \E order \in Orders(far(n)) :
        /\ mWaiting' = [mRemoving |-> R \o order,
                        mUpdating |-> (U \cup due(n)) \ far(n),
                        mDelayed  |-> left(n)]
        /\ job' = [j \in JobIds |->
                       IF j \in far(n) THEN [job[j] EXCEPT !.type = "remove"]
                                       ELSE job[j]]
  BY DEF UpdateWaiting
<1>1. PICK order \in Orders(far(n)) :
        /\ mWaiting' = [mRemoving |-> R \o order,
                        mUpdating |-> (U \cup due(n)) \ far(n),
                        mDelayed  |-> left(n)]
        /\ job' = [j \in JobIds |->
                       IF j \in far(n) THEN [job[j] EXCEPT !.type = "remove"]
                                       ELSE job[j]]
  BY <1>0
<1>2. R \in Seq(JobIds) /\ U \in SUBSET JobIds /\ L \in Seq(JobIds)
  BY DEF JobQueues
<1>3. /\ NoDuplicates(R) /\ NoDuplicates(L)
      /\ Elements(R) \cap U = {} /\ Elements(R) \cap Elements(L) = {}
      /\ U \cap Elements(L) = {}
      /\ WaitingJobs = Elements(R) \cup U \cup Elements(L)
  BY DEF QueueHasNoDuplicates, WaitingJobs, QueueJobs
<1>4. /\ left(n) \in Seq(JobIds) /\ due(n) \subseteq JobIds
      /\ NoDuplicates(left(n)) /\ Elements(left(n)) = Elements(L) \ due(n)
      /\ due(n) \subseteq Elements(L)
  BY <1>2, <1>3, SuffixElements
<1> DEFINE D == due(n)
           F == far(n)
           l == left(n)
<1>5. F \subseteq U \cup D /\ F \subseteq JobIds
  BY <1>2, <1>4
<1>6. order \in Seq(JobIds) /\ Elements(order) = F /\ NoDuplicates(order)
  BY <1>5, UpdaterAssumption, OrderElements
<1>7. /\ l \in Seq(JobIds) /\ D \subseteq JobIds
      /\ NoDuplicates(l) /\ Elements(l) = Elements(L) \ D
      /\ D \subseteq Elements(L)
  BY <1>4
<1>8. /\ mWaiting' = [mRemoving |-> R \o order, mUpdating |-> (U \cup D) \ F,
                      mDelayed  |-> l]
      /\ job' = [j \in JobIds |->
                   IF j \in F THEN [job[j] EXCEPT !.type = "remove"] ELSE job[j]]
  BY <1>1
<1> HIDE DEF R, U, L, D, F, l
<1>9. Elements(R) \cap Elements(order) = {}
  BY <1>3, <1>5, <1>6, <1>7
<1>10. /\ R \o order \in Seq(JobIds)
       /\ Elements(R \o order) = Elements(R) \cup F
       /\ NoDuplicates(R \o order)
  BY <1>2, <1>3, <1>6, <1>9, ConcatElements
<1>11. mWaiting' \in JobQueues
  BY <1>2, <1>7, <1>8, <1>10 DEF JobQueues
<1>12. QueueJobs(mWaiting') = WaitingJobs /\ QueueHasNoDuplicates(mWaiting')
  BY <1>3, <1>5, <1>7, <1>8, <1>10 DEF QueueJobs, QueueHasNoDuplicates
<1>13. F \subseteq mJobs
  BY <1>3, <1>5, <1>7
<1>14. ASSUME NEW j \in JobIds
       PROVE  /\ job'[j] \in Job \cup {NoJob}
              /\ job'[j] = NoJob <=> job[j] = NoJob
              /\ j \in mJobs => /\ job'[j].stage = job[j].stage
                                /\ job'[j].key = job[j].key
                                /\ job'[j].expired = job[j].expired
  <2>1. CASE j \in F
    <3>1. job[j] \in Job
      BY <1>13, <2>1 DEF mJobs
    <3>2. job'[j] = [job[j] EXCEPT !.type = "remove"]
      BY <1>8, <2>1
    <3>3. job'[j] \in Job /\ job'[j].stage = job[j].stage
          /\ job'[j].key = job[j].key /\ job'[j].expired = job[j].expired
      BY <3>1, <3>2 DEF Job, ChangeTypes
    <3> QED BY <3>1, <3>3, UpdaterAssumption
  <2>2. CASE j \notin F
    BY <1>8, <2>2
  <2> QED BY <2>1, <2>2
<1>15. job' \in [JobIds -> Job \cup {NoJob}] /\ mJobs' = mJobs
  BY <1>8, <1>14 DEF mJobs
<1> QED BY <1>11, <1>12, <1>14, <1>15 DEF mJobs

-----------------------------------------------------------------------------
(* The inductive invariant: besides the types and the places, which stage  *)
(* a job is in at each place.  Without it RemoveJob could free a job that  *)
(* still owns its tile, and a step could read the record of a freed one.   *)

PcStages(pc) ==
    CASE pc = "initial" -> {"initial"}
      [] pc = "withDb" -> {"withDb"}
      [] pc = "miss" -> {"miss"}
      [] pc \in {"unlock", "finish"} -> {"initial", "withDb", "generated"}
      [] OTHER -> {"initial", "withDb"}

JobsAreInStage ==
    /\ \A j \in WaitingJobs : job[j].stage \in {"initial", "withDb"}
    /\ \A j \in dbQueue.mReading : job[j].stage = "miss"
    /\ \A j \in Elements(dbQueue.mWriting) : job[j].stage = "generated"
    /\ db.job # NoJob => job[db.job].stage \in {"miss", "generated"}
    /\ \A w \in Workers : worker[w].job # NoJob =>
          Stage(w) \in PcStages(worker[w].pc)

IInv == TypeOK /\ JobsAreReferencedOnce /\ JobsAreInStage

(* Steps that move no job and change no stage keep the places.             *)
LEMMA SamePlaces ==
    ASSUME JobsAreReferencedOnce, JobsAreInStage,
           QueueJobs(mWaiting') = WaitingJobs, QueueHasNoDuplicates(mWaiting'),
           dbQueue'.mReading = dbQueue.mReading,
           dbQueue'.mWriting = dbQueue.mWriting,
           db'.job = db.job,
           \A w \in Workers : worker'[w].job = worker[w].job,
           \A w \in Workers : worker[w].job # NoJob =>
               job'[worker[w].job].stage \in PcStages(worker'[w].pc),
           \A j \in mJobs : j \notin HeldJobs => job'[j].stage = job[j].stage,
           mJobs \subseteq mJobs'
    PROVE  JobsAreReferencedOnce' /\ JobsAreInStage'
<1>1. WaitingJobs' = WaitingJobs /\ DbQueueJobs' = DbQueueJobs
      /\ HeldJobs' = HeldJobs /\ DbHeldJobs' = DbHeldJobs
  BY DEF WaitingJobs, DbQueueJobs, HeldJobs, DbHeldJobs
<1>2. JobsAreReferencedOnce'
  BY <1>1 DEF JobsAreReferencedOnce
<1>3. \A j \in WaitingJobs \cup DbQueueJobs \cup DbHeldJobs :
         job'[j].stage = job[j].stage
  BY DEF JobsAreReferencedOnce
<1>4. JobsAreInStage'
  BY <1>1, <1>3 DEF JobsAreInStage, DbQueueJobs, DbHeldJobs, Stage
<1> QED BY <1>2, <1>4

LEMMA InitPlaces == Init => IInv
<1> SUFFICES ASSUME Init PROVE IInv
  OBVIOUS
<1>1. TypeOK
  <2>1. mWaiting \in JobQueues
    BY DEF Init, JobQueues, EmptyQueue
  <2>2. dbQueue \in DbQueues /\ db \in DbStates /\ (db.job = NoJob <=> db.pc # "busy")
    BY DEF Init, DbQueues, DbStates, IdleDb
  <2>3. /\ worker \in [Workers -> WorkerStates]
        /\ \A w \in Workers :
              worker[w].job = NoJob <=> worker[w].pc \in {"idle", "stopped"}
    BY DEF Init, IdleWorker, WorkerStates, WorkerPcs, Statuses
  <2>4. job \in [JobIds -> Job \cup {NoJob}]
    BY DEF Init
  <2>5. posting \in [agent : Agents, tileChanged : BOOLEAN]
    BY DEF Init
  <2> QED BY <2>1, <2>2, <2>3, <2>4, <2>5 DEF Init, TypeOK, MainPcs
<1>2. /\ WaitingJobs = {} /\ DbQueueJobs = {} /\ HeldJobs = {} /\ DbHeldJobs = {}
      /\ Elements(dbQueue.mWriting) = {} /\ QueueHasNoDuplicates(mWaiting)
      /\ NoDuplicates(dbQueue.mWriting)
  BY DEF Init, WaitingJobs, QueueJobs, DbQueueJobs, HeldJobs, DbHeldJobs, Elements,
     EmptyQueue, IdleWorker, IdleDb, QueueHasNoDuplicates, NoDuplicates
<1>3. JobsAreReferencedOnce
  BY <1>2 DEF JobsAreReferencedOnce, Init, IdleWorker
<1>4. JobsAreInStage
  BY <1>2 DEF JobsAreInStage, Init, IdleWorker, IdleDb, DbQueueJobs
<1> QED BY <1>1, <1>3, <1>4 DEF IInv

(* The calls of the main thread and the steps of time that leave the jobs  *)
(* and the queues alone.                                                   *)
LEMMA QuietStepPlaces ==
    ASSUME IInv,
           \/ \E a \in Agents, p \in PlayerTiles : PostPlayerTile(a, p)
           \/ PostUnlock \/ PostDbUpdate
           \/ WaitAllJobs \/ WaitTilesReturns \/ WaitRequiredTiles
           \/ WaitRequiredReturns \/ Stop \/ JoinDb \/ JoinThreads
           \/ \E w \in Workers : GetNextJobTimeout(w)
           \/ \E k \in Keys : CleanupLastUpdates(k)
           \/ UNCHANGED vars
    PROVE  IInv'
<1> USE DEF IInv, mainVars, tileVars
<1>1. TypeOK'
  <2>1. CASE \E a \in Agents, p \in PlayerTiles : PostPlayerTile(a, p)
    BY <2>1 DEF PostPlayerTile, TypeOK, MainPcs
  <2>2. CASE PostUnlock
    BY <2>2 DEF PostUnlock, TypeOK, MainPcs
  <2>3. CASE PostDbUpdate
    BY <2>3 DEF PostDbUpdate, TypeOK, MainPcs, DbQueues
  <2>4. CASE WaitAllJobs \/ WaitTilesReturns \/ WaitRequiredTiles \/ WaitRequiredReturns
    BY <2>4 DEF WaitAllJobs, WaitTilesReturns, WaitRequiredTiles,
       WaitRequiredReturns, TypeOK, MainPcs
  <2>5. CASE Stop \/ JoinDb \/ JoinThreads
    BY <2>5 DEF Stop, JoinDb, JoinThreads, TypeOK, MainPcs
  <2>6. CASE \E w \in Workers : GetNextJobTimeout(w)
    BY <2>6 DEF GetNextJobTimeout, TypeOK, MainPcs
  <2>7. CASE \E k \in Keys : CleanupLastUpdates(k)
    BY <2>7 DEF CleanupLastUpdates, TypeOK
  <2>8. CASE UNCHANGED vars
    BY <2>8 DEF vars, TypeOK
  <2> QED BY <2>1, <2>2, <2>3, <2>4, <2>5, <2>6, <2>7, <2>8
<1>2. /\ UNCHANGED <<job, mWaiting, worker, db>>
      /\ dbQueue'.mReading = dbQueue.mReading
      /\ dbQueue'.mWriting = dbQueue.mWriting
  BY DEF PostPlayerTile, PostUnlock, PostDbUpdate, WaitAllJobs, WaitTilesReturns,
     WaitRequiredTiles, WaitRequiredReturns, Stop, JoinDb, JoinThreads,
     GetNextJobTimeout, CleanupLastUpdates, vars, TypeOK, DbQueues
<1>3. JobsAreReferencedOnce' /\ JobsAreInStage'
  <2>1. QueueJobs(mWaiting') = WaitingJobs /\ QueueHasNoDuplicates(mWaiting')
        /\ mJobs' = mJobs
    BY <1>2 DEF JobsAreReferencedOnce, WaitingJobs, mJobs
  <2>2. \A w \in Workers : worker[w].job # NoJob =>
           job'[worker[w].job].stage \in PcStages(worker'[w].pc)
    BY <1>2 DEF JobsAreInStage, Stage
  <2> QED BY <1>2, <2>1, <2>2, SamePlaces
<1> QED BY <1>1, <1>3

-----------------------------------------------------------------------------
(* The other steps of the main thread.                                     *)

LEMMA PostLockPlaces == IInv /\ PostLock => IInv'
<1> SUFFICES ASSUME IInv, PostLock PROVE IInv'
  OBVIOUS
<1> USE DEF IInv, mainVars, tileVars
<1>1. /\ mWaiting' \in JobQueues /\ QueueJobs(mWaiting') = WaitingJobs
      /\ QueueHasNoDuplicates(mWaiting')
      /\ job' \in [JobIds -> Job \cup {NoJob}] /\ mJobs' = mJobs
      /\ \A j \in mJobs : job'[j].stage = job[j].stage
  <2>1. mWaiting \in JobQueues /\ QueueHasNoDuplicates(mWaiting)
        /\ job \in [JobIds -> Job \cup {NoJob}] /\ WaitingJobs \subseteq mJobs
    BY DEF TypeOK, JobsAreReferencedOnce
  <2>2. CASE UpdateWaiting
    BY <2>1, <2>2, UpdatedQueue
  <2>3. CASE UNCHANGED <<mWaiting, job>>
    BY <2>1, <2>3 DEF WaitingJobs, mJobs
  <2> QED BY <2>2, <2>3 DEF PostLock
<1>2. TypeOK'
  BY <1>1 DEF PostLock, TypeOK, MainPcs
<1>3. UNCHANGED <<worker, dbQueue, db>>
  BY DEF PostLock
<1>4. \A w \in Workers : worker[w].job # NoJob =>
         job'[worker[w].job].stage \in PcStages(worker'[w].pc)
  <2>1. \A w \in Workers : worker[w].job # NoJob => worker[w].job \in mJobs
    BY DEF JobsAreReferencedOnce, HeldJobs
  <2> QED BY <1>1, <1>3, <2>1 DEF JobsAreInStage, Stage
<1>5. JobsAreReferencedOnce' /\ JobsAreInStage'
  BY <1>1, <1>3, <1>4, SamePlaces
<1> QED BY <1>2, <1>5

LEMMA PostTilePlaces ==
    ASSUME IInv, NEW k \in Keys, NEW type \in ChangeTypes, PostTile(k, type)
    PROVE  IInv'
<1> USE DEF IInv, mainVars, tileVars
<1>1. CASE k \in mPushed
  <2>1. TypeOK'
    BY <1>1 DEF PostTile, TypeOK
  <2>2. UNCHANGED <<job, mWaiting, worker, dbQueue, db>>
    BY <1>1 DEF PostTile
  <2>3. QueueJobs(mWaiting') = WaitingJobs /\ QueueHasNoDuplicates(mWaiting')
        /\ mJobs' = mJobs
    BY <2>2 DEF JobsAreReferencedOnce, WaitingJobs, mJobs
  <2>4. \A w \in Workers : worker[w].job # NoJob =>
           job'[worker[w].job].stage \in PcStages(worker'[w].pc)
    BY <2>2 DEF JobsAreInStage, Stage
  <2>5. JobsAreReferencedOnce' /\ JobsAreInStage'
    BY <2>2, <2>3, <2>4, SamePlaces
  <2> QED BY <2>1, <2>5
<1>2. CASE k \notin mPushed
  <2> DEFINE d == ~(type = "update" /\ k \in mLastUpdates)
             r == [key |-> k, type |-> type, stage |-> "initial", due |-> d,
                   expired |-> FALSE]
  <2>1. PICK j \in JobIds \ mJobs :
          /\ mPushed' = mPushed \cup {k}
          /\ job' = [job EXCEPT ![j] = r]
          /\ mWaiting' = Pushed(mWaiting, j, r)
    BY <1>2 DEF PostTile
  <2>2. r \in Job /\ r.stage = "initial" /\ r # NoJob
    <3>1. d \in BOOLEAN
      OBVIOUS
    <3> HIDE DEF d
    <3>2. r \in Job /\ r.stage = "initial"
      BY <3>1 DEF Job, Stages
    <3> QED BY <3>2, UpdaterAssumption
  <2> HIDE DEF r
  <2>3. UNCHANGED <<worker, dbQueue, db>>
    BY DEF PostTile
  <2>4. /\ mWaiting \in JobQueues /\ QueueHasNoDuplicates(mWaiting)
        /\ job \in [JobIds -> Job \cup {NoJob}]
        /\ j \notin WaitingJobs \cup DbQueueJobs \cup HeldJobs \cup DbHeldJobs
    BY <2>1 DEF TypeOK, JobsAreReferencedOnce
  <2>5. /\ mWaiting' \in JobQueues /\ QueueHasNoDuplicates(mWaiting')
        /\ WaitingJobs' = WaitingJobs \cup {j}
    BY <2>1, <2>2, <2>4, PushedJob DEF WaitingJobs
  <2>6. /\ job' \in [JobIds -> Job \cup {NoJob}] /\ mJobs' = mJobs \cup {j}
        /\ job'[j].stage = "initial"
        /\ \A i \in mJobs : job'[i] = job[i]
    BY <2>1, <2>2, <2>4 DEF mJobs
  <2>7. TypeOK'
    BY <2>1, <2>5, <2>6 DEF PostTile, TypeOK
  <2>8. DbQueueJobs' = DbQueueJobs /\ HeldJobs' = HeldJobs /\ DbHeldJobs' = DbHeldJobs
    BY <2>3 DEF DbQueueJobs, HeldJobs, DbHeldJobs
  <2>9. JobsAreReferencedOnce'
    BY <2>3, <2>4, <2>5, <2>6, <2>8 DEF JobsAreReferencedOnce
  <2>10. JobsAreInStage'
    <3>1. /\ \A i \in WaitingJobs \cup DbQueueJobs \cup DbHeldJobs : i \in mJobs
          /\ \A w \in Workers : worker[w].job # NoJob => worker[w].job \in mJobs
      BY DEF JobsAreReferencedOnce, HeldJobs
    <3> QED BY <2>3, <2>5, <2>6, <3>1
            DEF JobsAreInStage, DbQueueJobs, DbHeldJobs, Stage
  <2> QED BY <2>7, <2>9, <2>10
<1> QED BY <1>1, <1>2

LEMMA ReplaceCacheItemPlaces ==
    ASSUME IInv, NEW a \in Replaced, ReplaceCacheItem(a)
    PROVE  IInv'
<1> USE DEF IInv, mainVars, tileVars
<1>1. /\ job' \in [JobIds -> Job \cup {NoJob}] /\ mJobs' = mJobs
      /\ \A j \in mJobs : job'[j].stage = job[j].stage
  <2>1. ASSUME NEW j \in JobIds
        PROVE  /\ job'[j] \in Job \cup {NoJob} /\ (job'[j] = NoJob <=> job[j] = NoJob)
               /\ job[j] # NoJob => job'[j].stage = job[j].stage
    <3>1. \/ job'[j] = job[j]
          \/ job[j] # NoJob /\ job'[j] = [job[j] EXCEPT !.expired = TRUE]
      BY DEF ReplaceCacheItem, mJobs
    <3>2. job[j] \in Job \cup {NoJob}
      BY DEF TypeOK
    <3>3. ASSUME NEW r \in Job
          PROVE  /\ [r EXCEPT !.expired = TRUE] \in Job
                 /\ [r EXCEPT !.expired = TRUE].stage = r.stage
      BY DEF Job
    <3> QED BY <3>1, <3>2, <3>3, UpdaterAssumption
  <2>2. job' \in [JobIds -> Job \cup {NoJob}]
    BY <2>1 DEF ReplaceCacheItem
  <2> QED BY <2>1, <2>2 DEF mJobs
<1>2. /\ worker' \in [Workers -> WorkerStates]
      /\ \A w \in Workers : /\ worker'[w].job = worker[w].job
                            /\ worker'[w].pc = worker[w].pc
  BY DEF ReplaceCacheItem, TypeOK, WorkerStates
<1>3. TypeOK'
  BY <1>1, <1>2 DEF ReplaceCacheItem, TypeOK
<1>4. UNCHANGED <<mWaiting, dbQueue, db>>
  BY DEF ReplaceCacheItem
<1>5. QueueJobs(mWaiting') = WaitingJobs /\ QueueHasNoDuplicates(mWaiting')
  BY <1>4 DEF JobsAreReferencedOnce, WaitingJobs
<1>6. \A w \in Workers : worker[w].job # NoJob =>
         job'[worker[w].job].stage \in PcStages(worker'[w].pc)
  <2>1. \A w \in Workers : worker[w].job # NoJob => worker[w].job \in mJobs
    BY DEF JobsAreReferencedOnce, HeldJobs
  <2> QED BY <1>1, <1>2, <2>1 DEF JobsAreInStage, Stage
<1>7. JobsAreReferencedOnce' /\ JobsAreInStage'
  BY <1>1, <1>2, <1>4, <1>5, <1>6, SamePlaces
<1> QED BY <1>3, <1>7

(* stop() only drops references.                                           *)
LEMMA StopPlaces ==
    ASSUME IInv, StopDb \/ ClearWaiting
    PROVE  IInv'
<1> USE DEF IInv, mainVars, tileVars
<1>1. UNCHANGED <<job, worker, db>>
  BY DEF StopDb, ClearWaiting
<1>2. HeldJobs' = HeldJobs /\ DbHeldJobs' = DbHeldJobs /\ mJobs' = mJobs
  BY <1>1 DEF HeldJobs, DbHeldJobs, mJobs
<1>3. \A w \in Workers : Stage(w)' = Stage(w)
  BY <1>1 DEF Stage
<1>4. Elements(<<>>) = {} /\ NoDuplicates(<<>>) /\ <<>> \in Seq(JobIds)
  BY DEF Elements, NoDuplicates
<1>5. CASE StopDb
  <2>1. /\ dbQueue' \in DbQueues /\ dbQueue'.mReading = {}
        /\ dbQueue'.mWriting = <<>> /\ mWaiting' = mWaiting
    BY <1>4, <1>5 DEF StopDb, TypeOK, DbQueues
  <2>2. TypeOK'
    BY <1>5, <2>1 DEF StopDb, TypeOK, MainPcs
  <2>3. WaitingJobs' = WaitingJobs /\ DbQueueJobs' = {}
    BY <1>4, <2>1 DEF WaitingJobs, DbQueueJobs
  <2>4. JobsAreReferencedOnce'
    BY <1>1, <1>2, <1>4, <2>1, <2>3 DEF JobsAreReferencedOnce
  <2>5. JobsAreInStage'
    BY <1>1, <1>3, <1>4, <2>1, <2>3 DEF JobsAreInStage
  <2> QED BY <2>2, <2>4, <2>5
<1>6. CASE ClearWaiting
  <2>1. mWaiting' = EmptyQueue /\ dbQueue' = dbQueue
    BY <1>6 DEF ClearWaiting
  <2>2. /\ mWaiting' \in JobQueues /\ WaitingJobs' = {}
        /\ QueueHasNoDuplicates(mWaiting') /\ DbQueueJobs' = DbQueueJobs
    BY <1>4, <2>1 DEF EmptyQueue, JobQueues, WaitingJobs, QueueJobs,
       QueueHasNoDuplicates, DbQueueJobs
  <2>3. TypeOK'
    BY <1>6, <2>2 DEF ClearWaiting, TypeOK, MainPcs
  <2>4. JobsAreReferencedOnce'
    BY <1>1, <1>2, <2>1, <2>2 DEF JobsAreReferencedOnce
  <2>5. JobsAreInStage'
    BY <1>1, <1>3, <2>1, <2>2 DEF JobsAreInStage
  <2> QED BY <2>3, <2>4, <2>5
<1> QED BY <1>5, <1>6

-----------------------------------------------------------------------------
(* The updater threads.                                                    *)

(* A thread that takes a job: what getNextJob returns it holds alone.      *)
LEMMA TakeJobPlaces ==
    ASSUME IInv, NEW w \in Workers, ResumeJob(w) \/ StartJob(w)
    PROVE  IInv'
<1> USE DEF IInv, mainVars, tileVars
<1>1. /\ mWaiting \in JobQueues /\ QueueHasNoDuplicates(mWaiting)
      /\ worker \in [Workers -> WorkerStates] /\ job \in [JobIds -> Job \cup {NoJob}]
      /\ WaitingJobs \subseteq mJobs /\ worker[w].job = NoJob
  BY DEF TypeOK, JobsAreReferencedOnce, ResumeJob, StartJob
<1>2. PICK n \in Popped :
        /\ job[n.job].stage \in {"initial", "withDb"} /\ mWaiting' = n.rest
        /\ worker' = [worker EXCEPT ![w] =
                        [IdleWorker EXCEPT !.pc = "loaded", !.job = n.job]]
  BY DEF ResumeJob, StartJob
<1>3. /\ n.job \in WaitingJobs /\ n.job \in JobIds /\ n.rest \in JobQueues
      /\ QueueJobs(n.rest) = WaitingJobs \ {n.job} /\ QueueHasNoDuplicates(n.rest)
  BY <1>1, PoppedJob
<1>4. /\ worker'[w].pc = "loaded" /\ worker'[w].job = n.job
      /\ \A v \in Workers : v # w => worker'[v] = worker[v]
      /\ worker' \in [Workers -> WorkerStates]
  BY <1>1, <1>2, <1>3 DEF IdleWorker, WorkerStates, WorkerPcs, Statuses
<1>5. UNCHANGED <<job, dbQueue, db>>
  BY DEF ResumeJob, StartJob
<1>6. TypeOK'
  <2>1. \A v \in Workers : worker'[v].job = NoJob <=> worker'[v].pc \in {"idle", "stopped"}
    BY <1>3, <1>4, UpdaterAssumption DEF TypeOK
  <2>2. mProcessingTiles' \subseteq Keys /\ mLastUpdates' \subseteq Keys
        /\ mPushed' \subseteq Keys
    <3>1. job[n.job].key \in Keys
      BY <1>1, <1>3 DEF mJobs, Job
    <3>2. CASE ResumeJob(w)
      BY <3>2 DEF ResumeJob, TypeOK
    <3>3. CASE StartJob(w)
      <4>1. \A i \in Popped : job[i.job].key \in Keys
        <5>1. ASSUME NEW i \in Popped PROVE i.job \in WaitingJobs /\ i.job \in JobIds
          BY <1>1, PoppedJob
        <5> QED BY <1>1, <5>1 DEF mJobs, Job
      <4> QED BY <3>3, <4>1 DEF StartJob, TypeOK
    <3> QED BY <3>2, <3>3
  <2>3. UNCHANGED <<main, posting, mPlayerTile, mShouldStop, job, mPresentTiles,
                    navTiles, dbQueue, db, unread>>
    BY DEF ResumeJob, StartJob
  <2> QED BY <1>2, <1>3, <1>4, <2>1, <2>2, <2>3 DEF TypeOK
<1>7. /\ WaitingJobs' = WaitingJobs \ {n.job} /\ DbQueueJobs' = DbQueueJobs
      /\ DbHeldJobs' = DbHeldJobs /\ mJobs' = mJobs
      /\ HeldJobs' = HeldJobs \cup {n.job}
  <2>1. n.job # NoJob
    BY <1>3, UpdaterAssumption
  <2>2. HeldJobs' = HeldJobs \cup {n.job}
    BY <1>1, <1>4, <2>1 DEF HeldJobs
  <2> QED BY <1>2, <1>3, <1>5, <2>2 DEF WaitingJobs, DbQueueJobs, DbHeldJobs, mJobs
<1>8. JobsAreReferencedOnce'
  <2>1. \A w1, w2 \in Workers :
          worker'[w1].job = worker'[w2].job /\ worker'[w1].job # NoJob => w1 = w2
    <3>1. \A v \in Workers : worker[v].job # n.job
      BY <1>3, UpdaterAssumption DEF JobsAreReferencedOnce, HeldJobs
    <3> QED BY <1>4, <3>1 DEF JobsAreReferencedOnce
  <2>2. n.job \notin DbQueueJobs \cup DbHeldJobs \cup HeldJobs
    BY <1>3 DEF JobsAreReferencedOnce
  <2> QED BY <1>2, <1>3, <1>5, <1>7, <2>1, <2>2 DEF JobsAreReferencedOnce
<1>9. JobsAreInStage'
  BY <1>2, <1>4, <1>5, <1>7 DEF JobsAreInStage, PcStages, Stage, DbQueueJobs, DbHeldJobs
<1> QED BY <1>6, <1>8, <1>9

(* A job whose tile is locked goes back into the queue.                    *)
LEMMA DeferJobPlaces ==
    ASSUME IInv, NEW w \in Workers, DeferJob(w)
    PROVE  IInv'
<1> USE DEF IInv, mainVars, tileVars
<1>1. /\ mWaiting \in JobQueues /\ QueueHasNoDuplicates(mWaiting)
      /\ job \in [JobIds -> Job \cup {NoJob}]
      /\ WaitingJobs \subseteq mJobs
  BY DEF TypeOK, JobsAreReferencedOnce
<1>2. PICK n \in Popped :
        /\ job[n.job].stage = "initial"
        /\ job' = [job EXCEPT ![n.job] = [job[n.job] EXCEPT !.due = FALSE]]
        /\ mWaiting' = Pushed(n.rest, n.job, [job[n.job] EXCEPT !.due = FALSE])
  BY DEF DeferJob
<1> DEFINE late == [job[n.job] EXCEPT !.due = FALSE]
<1>3. /\ n.job \in WaitingJobs /\ n.job \in JobIds /\ n.rest \in JobQueues
      /\ QueueJobs(n.rest) = WaitingJobs \ {n.job} /\ QueueHasNoDuplicates(n.rest)
  BY <1>1, PoppedJob
<1>4. late \in Job /\ late.stage = "initial" /\ late # NoJob
  <2>1. job[n.job] \in Job
    BY <1>1, <1>3 DEF mJobs
  <2>2. late \in Job /\ late.stage = "initial"
    BY <1>2, <2>1 DEF Job
  <2> QED BY <2>2, UpdaterAssumption
<1>5. job' = [job EXCEPT ![n.job] = late] /\ mWaiting' = Pushed(n.rest, n.job, late)
  BY <1>2
<1> HIDE DEF late
<1>6. /\ mWaiting' \in JobQueues /\ QueueHasNoDuplicates(mWaiting')
      /\ QueueJobs(mWaiting') = WaitingJobs
  <2>1. n.job \notin QueueJobs(n.rest)
    BY <1>3
  <2>2. /\ mWaiting' \in JobQueues /\ QueueHasNoDuplicates(mWaiting')
        /\ QueueJobs(mWaiting') = QueueJobs(n.rest) \cup {n.job}
    BY <1>3, <1>4, <1>5, <2>1, PushedJob
  <2> QED BY <1>3, <2>2
<1>7. /\ job' \in [JobIds -> Job \cup {NoJob}] /\ mJobs' = mJobs
      /\ \A j \in mJobs : job'[j].stage = job[j].stage
  <2>1. n.job \in mJobs /\ job[n.job].stage = late.stage
    BY <1>1, <1>2, <1>3, <1>4
  <2>2. /\ job' \in [JobIds -> Job \cup {NoJob}] /\ job'[n.job] = late
        /\ \A j \in JobIds : j # n.job => job'[j] = job[j]
    BY <1>1, <1>3, <1>4, <1>5
  <2>3. mJobs' = mJobs
    BY <1>4, <2>1, <2>2 DEF mJobs
  <2>4. \A j \in mJobs : job'[j].stage = job[j].stage
    BY <2>1, <2>2 DEF mJobs
  <2> QED BY <2>2, <2>3, <2>4
<1>8. UNCHANGED <<worker, dbQueue, db>>
  BY DEF DeferJob
<1>9. TypeOK'
  BY <1>6, <1>7, <1>8 DEF DeferJob, TypeOK
<1>10. \A v \in Workers : worker[v].job # NoJob =>
         job'[worker[v].job].stage \in PcStages(worker'[v].pc)
  <2>1. \A v \in Workers : worker[v].job # NoJob => worker[v].job \in mJobs
    BY DEF JobsAreReferencedOnce, HeldJobs
  <2> QED BY <1>7, <1>8, <2>1 DEF JobsAreInStage, Stage
<1>11. JobsAreReferencedOnce' /\ JobsAreInStage'
  BY <1>6, <1>7, <1>8, <1>10, SamePlaces
<1> QED BY <1>9, <1>11

(* A thread goes on with the job it holds, which it may write to.          *)
LEMMA LocalPlaces ==
    ASSUME IInv, NEW w \in Workers, worker[w].job # NoJob,
           UNCHANGED <<mWaiting, dbQueue, db>>,
           \A v \in Workers : v # w => worker'[v] = worker[v],
           worker'[w].job = worker[w].job,
           NEW r \in Job, job' = [job EXCEPT ![worker[w].job] = r],
           r.stage \in PcStages(worker'[w].pc)
    PROVE  /\ job' \in [JobIds -> Job \cup {NoJob}]
           /\ JobsAreReferencedOnce' /\ JobsAreInStage'
<1> DEFINE h == worker[w].job
<1>1. h \in JobIds /\ h \in HeldJobs /\ job \in [JobIds -> Job \cup {NoJob}]
  BY UpdaterAssumption DEF IInv, TypeOK, WorkerStates, HeldJobs
<1>2. /\ job'[h] = r /\ \A j \in JobIds : j # h => job'[j] = job[j]
      /\ job' \in [JobIds -> Job \cup {NoJob}]
  BY <1>1
<1>3. mJobs \subseteq mJobs'
  BY <1>2, UpdaterAssumption DEF mJobs
<1>4. \A j \in mJobs : j \notin HeldJobs => job'[j].stage = job[j].stage
  BY <1>1, <1>2 DEF mJobs
<1>5. \A v \in Workers : worker[v].job # NoJob =>
         job'[worker[v].job].stage \in PcStages(worker'[v].pc)
  <2>1. ASSUME NEW v \in Workers, v # w, worker[v].job # NoJob
        PROVE  worker[v].job \in JobIds /\ worker[v].job # h
    BY <2>1, UpdaterAssumption DEF IInv, TypeOK, WorkerStates, JobsAreReferencedOnce
  <2> QED BY <1>2, <2>1 DEF IInv, JobsAreInStage, Stage
<1>6. QueueJobs(mWaiting') = WaitingJobs /\ QueueHasNoDuplicates(mWaiting')
  BY DEF IInv, JobsAreReferencedOnce, WaitingJobs
<1> QED BY <1>2, <1>3, <1>4, <1>5, <1>6, SamePlaces DEF IInv

LEMMA GotoStates ==
    ASSUME worker \in [Workers -> WorkerStates], NEW w \in Workers,
           NEW pc \in WorkerPcs, Goto(w, pc)
    PROVE  /\ worker' \in [Workers -> WorkerStates]
           /\ worker'[w].pc = pc /\ worker'[w].job = worker[w].job
           /\ \A v \in Workers : v # w => worker'[v] = worker[v]
BY DEF Goto, WorkerStates

(* The job a thread holds exists and has a key.                            *)
LEMMA HeldJob ==
    ASSUME IInv, NEW w \in Workers, worker[w].pc \notin {"idle", "stopped"}
    PROVE  /\ worker[w].job # NoJob /\ worker[w].job \in mJobs
           /\ worker[w].job \in JobIds /\ job[worker[w].job] \in Job
           /\ KeyOf(w) \in Keys /\ Stage(w) \in PcStages(worker[w].pc)
           /\ job = [job EXCEPT ![worker[w].job] = job[worker[w].job]]
<1>1. worker[w].job # NoJob /\ worker[w].job \in mJobs
  BY DEF IInv, TypeOK, JobsAreReferencedOnce, HeldJobs
<1>2. worker[w].job \in JobIds /\ job[worker[w].job] \in Job
  BY <1>1 DEF IInv, TypeOK, mJobs
<1>3. KeyOf(w) \in Keys
  BY <1>2 DEF Job, KeyOf
<1> QED BY <1>1, <1>2, <1>3 DEF IInv, TypeOK, JobsAreInStage

LEMMA StopWorkerPlaces ==
    ASSUME IInv, NEW w \in Workers, StopWorker(w)
    PROVE  IInv'
<1>1. /\ worker' \in [Workers -> WorkerStates]
      /\ worker'[w].pc = "stopped" /\ worker[w].job = NoJob
      /\ worker'[w].job = worker[w].job
      /\ \A v \in Workers : v # w => worker'[v] = worker[v]
  BY DEF IInv, TypeOK, StopWorker, WorkerStates, WorkerPcs
<1>2. UNCHANGED <<job, mWaiting, dbQueue, db>>
  BY DEF StopWorker
<1>3. TypeOK'
  BY <1>1 DEF IInv, TypeOK, StopWorker, mainVars, tileVars
<1>4. QueueJobs(mWaiting') = WaitingJobs /\ QueueHasNoDuplicates(mWaiting')
      /\ mJobs' = mJobs
  BY <1>2 DEF IInv, JobsAreReferencedOnce, WaitingJobs, mJobs
<1>5. \A v \in Workers : worker[v].job # NoJob =>
         job'[worker[v].job].stage \in PcStages(worker'[v].pc)
  BY <1>1, <1>2 DEF IInv, JobsAreInStage, Stage
<1> QED BY <1>1, <1>2, <1>3, <1>4, <1>5, SamePlaces DEF IInv

(* processJob and what follows, until the job is handed over or removed.   *)
LEMMA ProcessPlaces ==
    ASSUME IInv, NEW w \in Workers,
           \/ ProcessJob(w) \/ RemoveFarTile(w) \/ ProcessInitialJob(w)
           \/ ProcessJobWithDbResult(w) \/ MarkAsEmpty(w) \/ UpdateTile(w)
           \/ HandleUpdateNavMeshStatus(w) \/ UnlockTile(w)
    PROVE  IInv'
<1> DEFINE h == worker[w].job
           pc == worker'[w].pc
<1> USE DEF mainVars, tileVars
<1>1. worker[w].pc \notin {"idle", "stopped"}
  BY DEF ProcessJob, RemoveFarTile, ProcessInitialJob, ProcessJobWithDbResult,
     MarkAsEmpty, UpdateTile, HandleUpdateNavMeshStatus, UnlockTile
<1>2. /\ h # NoJob /\ h \in mJobs /\ h \in JobIds /\ job[h] \in Job
      /\ KeyOf(w) \in Keys /\ Stage(w) \in PcStages(worker[w].pc)
      /\ job = [job EXCEPT ![h] = job[h]]
  BY <1>1, HeldJob
<1>3. UNCHANGED <<mWaiting, dbQueue, db>>
  BY DEF ProcessJob, RemoveFarTile, ProcessInitialJob, ProcessJobWithDbResult,
     MarkAsEmpty, UpdateTile, HandleUpdateNavMeshStatus, UnlockTile
<1>4. worker \in [Workers -> WorkerStates]
  BY DEF IInv, TypeOK
<1> DEFINE Kept == \E r \in Job :
        /\ worker' \in [Workers -> WorkerStates] /\ worker'[w].job = h
        /\ \A v \in Workers : v # w => worker'[v] = worker[v]
        /\ pc \notin {"idle", "stopped"}
        /\ job' = [job EXCEPT ![h] = r] /\ r.stage \in PcStages(pc)
<1>5. Kept
  <2>0. ASSUME NEW p \in WorkerPcs \ {"idle", "stopped"}, Goto(w, p), job' = job,
               Stage(w) \in PcStages(p)
        PROVE  Kept
    <3>1. /\ worker' \in [Workers -> WorkerStates] /\ worker'[w].job = h
          /\ \A v \in Workers : v # w => worker'[v] = worker[v]
          /\ pc = p
      BY <1>4, <2>0, GotoStates
    <3> QED BY <1>2, <2>0, <3>1 DEF Stage
  <2>1. CASE ProcessJob(w)
    <3>1. \E p \in {"unlock", "far", "initial", "withDb"} :
             Goto(w, p) /\ (p \in {"initial", "withDb"} => Stage(w) = p)
      BY <1>2, <2>1 DEF ProcessJob, PcStages
    <3>2. Stage(w) \in {"initial", "withDb"} /\ job' = job
      BY <1>2, <2>1 DEF ProcessJob, PcStages
    <3> HIDE DEF Kept
    <3> QED BY <2>0, <3>1, <3>2 DEF PcStages, WorkerPcs
  <2>2. CASE RemoveFarTile(w)
    <3> DEFINE r == [job[h] EXCEPT !.type = "remove"]
    <3>1. r \in Job /\ r.stage = job[h].stage
      BY <1>2 DEF Job, ChangeTypes
    <3>2. job' = [job EXCEPT ![h] = r] /\ Goto(w, "unlock")
      BY <2>2 DEF RemoveFarTile
    <3> HIDE DEF r
    <3>3. Stage(w) \in {"initial", "withDb"}
      BY <1>2, <2>2 DEF RemoveFarTile, PcStages
    <3>4. /\ worker' \in [Workers -> WorkerStates] /\ worker'[w].job = h
          /\ \A v \in Workers : v # w => worker'[v] = worker[v]
          /\ pc = "unlock"
      BY <1>4, <3>2, GotoStates DEF WorkerPcs
    <3> QED BY <3>1, <3>2, <3>3, <3>4 DEF PcStages, Stage
  <2>3. CASE ProcessInitialJob(w)
    <3>1. Stage(w) = "initial"
      BY <1>2, <2>3 DEF ProcessInitialJob, PcStages
    <3>2. CASE job' = job /\ \E p \in {"empty", "apply", "unlock"} : Goto(w, p)
      <4> HIDE DEF Kept
      <4> QED BY <2>0, <3>1, <3>2 DEF PcStages, WorkerPcs
    <3>3. CASE /\ job' = [job EXCEPT ![h] = [job[h] EXCEPT !.stage = "miss"]]
               /\ Goto(w, "miss")
      <4> DEFINE r == [job[h] EXCEPT !.stage = "miss"]
      <4>1. r \in Job /\ r.stage = "miss" /\ job' = [job EXCEPT ![h] = r]
        BY <1>2, <3>3 DEF Job, Stages
      <4> HIDE DEF r
      <4>2. /\ worker' \in [Workers -> WorkerStates] /\ worker'[w].job = h
            /\ \A v \in Workers : v # w => worker'[v] = worker[v]
            /\ pc = "miss"
        BY <1>4, <3>3, GotoStates DEF WorkerPcs
      <4> QED BY <4>1, <4>2 DEF PcStages
    <3>4. \/ job' = job /\ \E p \in {"empty", "apply", "unlock"} : Goto(w, p)
          \/ /\ job' = [job EXCEPT ![h] = [job[h] EXCEPT !.stage = "miss"]]
             /\ Goto(w, "miss")
      BY <2>3 DEF ProcessInitialJob
    <3> QED BY <3>2, <3>3, <3>4
  <2>4. CASE ProcessJobWithDbResult(w)
    <3>1. Stage(w) = "withDb"
      BY <1>2, <2>4 DEF ProcessJobWithDbResult, PcStages
    <3>2. job' = job /\ \E p \in {"empty", "apply", "unlock"} : Goto(w, p)
      BY <2>4 DEF ProcessJobWithDbResult
    <3> HIDE DEF Kept
    <3> QED BY <2>0, <3>1, <3>2 DEF PcStages, WorkerPcs
  <2>5. CASE MarkAsEmpty(w)
    <3>1. Stage(w) \in {"initial", "withDb"}
      BY <1>2, <2>5 DEF MarkAsEmpty, PcStages
    <3>2. job' = job /\ Goto(w, "unlock")
      BY <2>5 DEF MarkAsEmpty
    <3> HIDE DEF Kept
    <3> QED BY <2>0, <3>1, <3>2 DEF PcStages, WorkerPcs
  <2>6. CASE UpdateTile(w)
    <3>1. Stage(w) \in {"initial", "withDb"}
      BY <1>2, <2>6 DEF UpdateTile, PcStages
    <3>2. job' = job /\ \E s \in Statuses :
             worker' = [worker EXCEPT ![w].pc = "report", ![w].status = s]
      BY <2>6 DEF UpdateTile
    <3>a. PICK s \in Statuses :
             worker' = [worker EXCEPT ![w] = [@ EXCEPT !.pc = "report", !.status = s]]
      BY <3>2
    <3>b. ASSUME NEW x \in WorkerStates
          PROVE  LET y == [x EXCEPT !.pc = "report", !.status = s]
                 IN  y \in WorkerStates /\ y.job = x.job /\ y.pc = "report"
      BY DEF WorkerStates, WorkerPcs
    <3>3. /\ worker' \in [Workers -> WorkerStates] /\ worker'[w].job = h
          /\ \A v \in Workers : v # w => worker'[v] = worker[v]
          /\ pc = "report"
      BY <1>4, <3>a, <3>b
    <3> QED BY <1>2, <3>1, <3>2, <3>3 DEF PcStages, Stage
  <2>7. CASE HandleUpdateNavMeshStatus(w)
    <3>1. Stage(w) \in {"initial", "withDb"}
      BY <1>2, <2>7 DEF HandleUpdateNavMeshStatus, PcStages
    <3>2. worker' = [worker EXCEPT ![w].pc = "unlock", ![w].status = "none"]
      BY <2>7 DEF HandleUpdateNavMeshStatus
    <3>3. /\ worker' \in [Workers -> WorkerStates] /\ worker'[w].job = h
          /\ \A v \in Workers : v # w => worker'[v] = worker[v]
          /\ pc = "unlock"
      BY <1>4, <3>2 DEF WorkerStates, WorkerPcs, Statuses
    <3>4. CASE job' = job
      BY <1>2, <3>1, <3>3, <3>4 DEF PcStages, Stage
    <3>5. CASE job' = [job EXCEPT ![h] = [job[h] EXCEPT !.stage = "generated"]]
      <4> DEFINE r == [job[h] EXCEPT !.stage = "generated"]
      <4>1. r \in Job /\ r.stage = "generated" /\ job' = [job EXCEPT ![h] = r]
        BY <1>2, <3>5 DEF Job, Stages
      <4> HIDE DEF r
      <4> QED BY <3>3, <4>1 DEF PcStages
    <3>6. \/ job' = job
          \/ job' = [job EXCEPT ![h] = [job[h] EXCEPT !.stage = "generated"]]
      BY <2>7 DEF HandleUpdateNavMeshStatus
    <3> QED BY <3>4, <3>5, <3>6
  <2>8. CASE UnlockTile(w)
    <3>1. Stage(w) \in PcStages("finish")
      BY <1>2, <2>8 DEF UnlockTile, PcStages
    <3>2. job' = job /\ Goto(w, "finish")
      BY <2>8 DEF UnlockTile
    <3> HIDE DEF Kept
    <3> QED BY <2>0, <3>1, <3>2 DEF WorkerPcs
  <2> QED BY <2>1, <2>2, <2>3, <2>4, <2>5, <2>6, <2>7, <2>8
<1>6. job' \in [JobIds -> Job \cup {NoJob}] /\ JobsAreReferencedOnce' /\ JobsAreInStage'
  BY <1>2, <1>3, <1>5, LocalPlaces
<1>7. TypeOK'
  <2>1. /\ worker' \in [Workers -> WorkerStates]
        /\ \A v \in Workers : worker'[v].job = NoJob <=> worker'[v].pc \in {"idle", "stopped"}
    BY <1>2, <1>5 DEF IInv, TypeOK
  <2>2. UNCHANGED <<main, posting, mPlayerTile, mShouldStop, mPushed, mLastUpdates>>
    BY DEF ProcessJob, RemoveFarTile, ProcessInitialJob, ProcessJobWithDbResult,
       MarkAsEmpty, UpdateTile, HandleUpdateNavMeshStatus, UnlockTile
  <2>3. navTiles' \subseteq Keys
    <3>1. AddTile(w) => navTiles' \subseteq Keys
      BY <1>2 DEF AddTile, IInv, TypeOK
    <3>2. DropTile(w) => navTiles' \subseteq Keys
      BY DEF DropTile, IInv, TypeOK
    <3>3. navTiles' = navTiles => navTiles' \subseteq Keys
      BY DEF IInv, TypeOK
    <3>4. UpdateTile(w) => AddTile(w) \/ DropTile(w) \/ navTiles' = navTiles
      BY DEF UpdateTile
    <3>5. AddTile(w) \/ DropTile(w) \/ navTiles' = navTiles
      BY <3>4 DEF ProcessJob, RemoveFarTile, ProcessInitialJob,
         ProcessJobWithDbResult, MarkAsEmpty, HandleUpdateNavMeshStatus, UnlockTile
    <3> QED BY <3>1, <3>2, <3>3, <3>5
  <2>4. mProcessingTiles' \subseteq Keys /\ mPresentTiles' \subseteq Keys
        /\ unread' \subseteq Keys
    BY <1>2 DEF ProcessJob, RemoveFarTile, ProcessInitialJob, ProcessJobWithDbResult,
       MarkAsEmpty, UpdateTile, HandleUpdateNavMeshStatus, UnlockTile, IInv, TypeOK
  <2> QED BY <1>3, <1>6, <2>1, <2>2, <2>3, <2>4 DEF IInv, TypeOK
<1> QED BY <1>6, <1>7 DEF IInv

-----------------------------------------------------------------------------
(* Jobs change hands: to the database and back, or out of the list.        *)

LEMMA EnqueueDbJobPlaces ==
    ASSUME IInv, NEW w \in Workers, EnqueueDbJob(w)
    PROVE  IInv'
<1> DEFINE h == worker[w].job
<1>1. worker[w].pc \in {"miss", "finish"}
  BY DEF EnqueueDbJob
<1>2. /\ h # NoJob /\ h \in mJobs /\ h \in JobIds
      /\ Stage(w) \in PcStages(worker[w].pc)
  BY <1>1, HeldJob
<1>3. /\ worker' = [worker EXCEPT ![w] = IdleWorker]
      /\ UNCHANGED <<mainVars, job, mWaiting, mPushed, mProcessingTiles, mLastUpdates,
                     tileVars, db, unread>>
  BY DEF EnqueueDbJob
<1>4. /\ worker \in [Workers -> WorkerStates] /\ worker' \in [Workers -> WorkerStates]
      /\ worker'[w] = IdleWorker
      /\ \A v \in Workers : v # w => worker'[v] = worker[v]
  BY <1>3 DEF IInv, TypeOK, WorkerStates, IdleWorker, WorkerPcs, Statuses
<1>5. \/ /\ dbQueue' = [dbQueue EXCEPT !.mReading = @ \cup {h}]
         /\ job[h].stage = "miss"
      \/ /\ dbQueue' = [dbQueue EXCEPT !.mWriting = Append(@, h)]
         /\ job[h].stage = "generated"
  BY <1>2 DEF EnqueueDbJob, PcStages, Stage
<1>6. h \notin WaitingJobs \cup DbQueueJobs \cup DbHeldJobs
  BY <1>2 DEF IInv, JobsAreReferencedOnce, HeldJobs
<1>7. dbQueue.mReading \in SUBSET JobIds /\ dbQueue.mWriting \in Seq(JobIds)
  BY DEF IInv, TypeOK, DbQueues
<1>8. /\ dbQueue' \in DbQueues /\ NoDuplicates(dbQueue'.mWriting)
      /\ dbQueue'.mReading \cap Elements(dbQueue'.mWriting) = {}
      /\ DbQueueJobs' = DbQueueJobs \cup {h}
      /\ \A j \in dbQueue'.mReading : job[j].stage = "miss"
      /\ \A j \in Elements(dbQueue'.mWriting) : job[j].stage = "generated"
  <2>1. /\ NoDuplicates(dbQueue.mWriting)
        /\ dbQueue.mReading \cap Elements(dbQueue.mWriting) = {}
        /\ h \notin dbQueue.mReading /\ h \notin Elements(dbQueue.mWriting)
        /\ \A j \in dbQueue.mReading : job[j].stage = "miss"
        /\ \A j \in Elements(dbQueue.mWriting) : job[j].stage = "generated"
    BY <1>6 DEF IInv, JobsAreReferencedOnce, JobsAreInStage, DbQueueJobs
  <2>2. /\ Append(dbQueue.mWriting, h) \in Seq(JobIds)
        /\ Elements(Append(dbQueue.mWriting, h)) = Elements(dbQueue.mWriting) \cup {h}
        /\ NoDuplicates(Append(dbQueue.mWriting, h))
    BY <1>2, <1>7, <2>1, AppendElements
  <2>3. dbQueue \in DbQueues
    BY DEF IInv, TypeOK
  <2>4. CASE /\ dbQueue' = [dbQueue EXCEPT !.mReading = @ \cup {h}]
             /\ job[h].stage = "miss"
    <3>1. /\ dbQueue' \in DbQueues /\ dbQueue'.mReading = dbQueue.mReading \cup {h}
          /\ dbQueue'.mWriting = dbQueue.mWriting
      BY <1>2, <1>7, <2>3, <2>4 DEF DbQueues
    <3> QED BY <2>1, <2>4, <3>1 DEF DbQueueJobs
  <2>5. CASE /\ dbQueue' = [dbQueue EXCEPT !.mWriting = Append(@, h)]
             /\ job[h].stage = "generated"
    <3>1. /\ dbQueue' \in DbQueues /\ dbQueue'.mReading = dbQueue.mReading
          /\ dbQueue'.mWriting = Append(dbQueue.mWriting, h)
      BY <1>2, <1>7, <2>2, <2>3, <2>5 DEF DbQueues
    <3> QED BY <2>1, <2>2, <2>5, <3>1 DEF DbQueueJobs
  <2> QED BY <1>5, <2>4, <2>5
<1>9. TypeOK'
  BY <1>3, <1>4, <1>8 DEF IInv, TypeOK, mainVars, tileVars, IdleWorker
<1>10. /\ WaitingJobs' = WaitingJobs /\ DbHeldJobs' = DbHeldJobs /\ mJobs' = mJobs
       /\ HeldJobs' = HeldJobs \ {h}
  <2>1. \A v \in Workers : v # w => worker[v].job # h
    BY <1>2 DEF IInv, JobsAreReferencedOnce
  <2>2. HeldJobs' = HeldJobs \ {h}
    BY <1>2, <1>4, <2>1 DEF HeldJobs, IdleWorker
  <2> QED BY <1>3, <2>2 DEF WaitingJobs, DbHeldJobs, mJobs
<1>11. JobsAreReferencedOnce'
  <2>1. \A w1, w2 \in Workers :
          worker'[w1].job = worker'[w2].job /\ worker'[w1].job # NoJob => w1 = w2
    BY <1>4 DEF IInv, JobsAreReferencedOnce, IdleWorker
  <2>2. QueueHasNoDuplicates(mWaiting')
    BY <1>3 DEF IInv, JobsAreReferencedOnce
  <2> QED BY <1>2, <1>6, <1>8, <1>10, <2>1, <2>2 DEF IInv, JobsAreReferencedOnce
<1>12. JobsAreInStage'
  BY <1>3, <1>4, <1>8, <1>10 DEF IInv, JobsAreInStage, Stage, IdleWorker
<1> QED BY <1>9, <1>11, <1>12 DEF IInv

LEMMA RemoveJobPlaces ==
    ASSUME IInv, NEW w \in Workers, RemoveJob(w)
    PROVE  IInv'
<1> DEFINE h == worker[w].job
<1>1. /\ h # NoJob /\ h \in mJobs /\ h \in JobIds
  BY HeldJob DEF RemoveJob
<1>2. /\ worker' = [worker EXCEPT ![w] = IdleWorker]
      /\ job' = [job EXCEPT ![h] = NoJob]
      /\ UNCHANGED <<mainVars, mWaiting, mPushed, mProcessingTiles, mLastUpdates,
                     tileVars, dbQueue, db, unread>>
  BY DEF RemoveJob
<1>3. /\ worker' \in [Workers -> WorkerStates]
      /\ worker'[w] = IdleWorker
      /\ \A v \in Workers : v # w => worker'[v] = worker[v]
  BY <1>2 DEF IInv, TypeOK, WorkerStates, IdleWorker, WorkerPcs, Statuses
<1>4. /\ job' \in [JobIds -> Job \cup {NoJob}] /\ mJobs' = mJobs \ {h}
      /\ \A j \in mJobs' : job'[j] = job[j]
  BY <1>1, <1>2 DEF IInv, TypeOK, mJobs
<1>5. h \notin WaitingJobs \cup DbQueueJobs \cup DbHeldJobs
      /\ \A v \in Workers : v # w => worker[v].job # h
  BY <1>1 DEF IInv, JobsAreReferencedOnce, HeldJobs
<1>6. /\ WaitingJobs' = WaitingJobs /\ DbHeldJobs' = DbHeldJobs
      /\ DbQueueJobs' = DbQueueJobs /\ HeldJobs' = HeldJobs \ {h}
  <2>1. HeldJobs' = HeldJobs \ {h}
    BY <1>1, <1>3, <1>5 DEF HeldJobs, IdleWorker
  <2> QED BY <1>2, <2>1 DEF WaitingJobs, DbHeldJobs, DbQueueJobs
<1>7. TypeOK'
  BY <1>2, <1>3, <1>4 DEF IInv, TypeOK, mainVars, tileVars, IdleWorker
<1>8. JobsAreReferencedOnce'
  <2>1. \A w1, w2 \in Workers :
          worker'[w1].job = worker'[w2].job /\ worker'[w1].job # NoJob => w1 = w2
    BY <1>3 DEF IInv, JobsAreReferencedOnce, IdleWorker
  <2>2. /\ QueueHasNoDuplicates(mWaiting') /\ NoDuplicates(dbQueue'.mWriting)
        /\ dbQueue'.mReading \cap Elements(dbQueue'.mWriting) = {}
    BY <1>2 DEF IInv, JobsAreReferencedOnce
  <2> QED BY <1>4, <1>5, <1>6, <2>1, <2>2 DEF IInv, JobsAreReferencedOnce
<1>9. JobsAreInStage'
  <2>1. \A j \in JobIds : j # h => job'[j] = job[j]
    BY <1>2 DEF IInv, TypeOK
  <2>2. /\ \A j \in WaitingJobs \cup DbQueueJobs \cup DbHeldJobs : j \in JobIds /\ j # h
        /\ \A v \in Workers : v # w /\ worker[v].job # NoJob =>
               worker[v].job \in JobIds /\ worker[v].job # h
    <3>1. WaitingJobs \cup DbQueueJobs \cup DbHeldJobs \cup HeldJobs \subseteq JobIds
      BY DEF IInv, JobsAreReferencedOnce, mJobs
    <3> QED BY <1>5, <3>1 DEF HeldJobs
  <2> QED BY <1>2, <1>3, <1>6, <2>1, <2>2
          DEF IInv, JobsAreInStage, Stage, IdleWorker, DbQueueJobs, DbHeldJobs
<1> QED BY <1>7, <1>8, <1>9 DEF IInv

LEMMA DbPopPlaces ==
    ASSUME IInv, DbPop
    PROVE  IInv'
<1> DEFINE R == dbQueue.mReading
           W == dbQueue.mWriting
<1>1. /\ dbQueue \in DbQueues /\ R \in SUBSET JobIds /\ W \in Seq(JobIds)
      /\ NoDuplicates(W) /\ R \cap Elements(W) = {}
      /\ \A j \in R : job[j].stage = "miss"
      /\ \A j \in Elements(W) : job[j].stage = "generated"
      /\ db.job = NoJob
  BY DEF IInv, TypeOK, DbQueues, JobsAreReferencedOnce, JobsAreInStage, DbPop
<1>2. UNCHANGED <<mainVars, job, mWaiting, mPushed, mProcessingTiles, mLastUpdates,
                  tileVars, worker, unread>>
  BY DEF DbPop
<1>3. PICK j \in DbQueueJobs :
        /\ j \in JobIds /\ db' = [pc |-> "busy", job |-> j]
        /\ dbQueue' \in DbQueues /\ NoDuplicates(dbQueue'.mWriting)
        /\ dbQueue'.mReading \subseteq R
        /\ Elements(dbQueue'.mWriting) \subseteq Elements(W)
        /\ j \notin dbQueue'.mReading \cup Elements(dbQueue'.mWriting)
        /\ job[j].stage \in {"miss", "generated"}
  <2>1. CASE \E j \in R : /\ dbQueue' = [dbQueue EXCEPT !.mReading = @ \ {j}]
                          /\ db' = [pc |-> "busy", job |-> j]
    <3>1. PICK j \in R : /\ dbQueue' = [dbQueue EXCEPT !.mReading = @ \ {j}]
                         /\ db' = [pc |-> "busy", job |-> j]
      BY <2>1
    <3>2. /\ dbQueue' \in DbQueues /\ dbQueue'.mReading = R \ {j}
          /\ dbQueue'.mWriting = W
      BY <1>1, <3>1 DEF DbQueues
    <3> QED BY <1>1, <3>1, <3>2 DEF DbQueueJobs
  <2>2. CASE /\ R = {} /\ W # <<>>
             /\ dbQueue' = [dbQueue EXCEPT !.mWriting = Tail(@)]
             /\ db' = [pc |-> "busy", job |-> Head(W)]
    <3>1. /\ Tail(W) \in Seq(JobIds) /\ Head(W) \in Elements(W) /\ Head(W) \in JobIds
          /\ Elements(Tail(W)) = Elements(W) \ {Head(W)} /\ NoDuplicates(Tail(W))
      BY <1>1, <2>2, TailElements
    <3>2. /\ dbQueue' \in DbQueues /\ dbQueue'.mReading = R
          /\ dbQueue'.mWriting = Tail(W)
      BY <1>1, <2>2, <3>1 DEF DbQueues
    <3> QED BY <1>1, <2>2, <3>1, <3>2 DEF DbQueueJobs
  <2>3. \A p : NearestJobs(R, p) \subseteq R
    BY DEF NearestJobs
  <2> QED BY <2>1, <2>2, <2>3 DEF DbPop
<1>4. j # NoJob /\ DbHeldJobs = {} /\ DbHeldJobs' = {j}
  BY <1>1, <1>3, UpdaterAssumption DEF DbHeldJobs
<1>5. TypeOK'
  BY <1>2, <1>3, <1>4 DEF IInv, TypeOK, mainVars, tileVars, DbStates
<1>6. /\ WaitingJobs' = WaitingJobs /\ HeldJobs' = HeldJobs /\ mJobs' = mJobs
      /\ DbQueueJobs' \subseteq DbQueueJobs \ {j}
      /\ dbQueue'.mReading \cap Elements(dbQueue'.mWriting) = {}
  BY <1>1, <1>2, <1>3 DEF WaitingJobs, HeldJobs, mJobs, DbQueueJobs
<1>7. JobsAreReferencedOnce'
  BY <1>2, <1>3, <1>4, <1>6 DEF IInv, JobsAreReferencedOnce
<1>8. JobsAreInStage'
  BY <1>1, <1>2, <1>3, <1>4, <1>6 DEF IInv, JobsAreInStage, Stage
<1> QED BY <1>5, <1>7, <1>8 DEF IInv

LEMMA DbReadDonePlaces ==
    ASSUME IInv, DbReadDone
    PROVE  IInv'
<1> DEFINE h == db.job
           r == [job[h] EXCEPT !.stage = "withDb"]
<1>1. /\ h # NoJob /\ h \in mJobs /\ h \in JobIds /\ job[h] \in Job
  BY DEF IInv, TypeOK, DbStates, DbReadDone, JobsAreReferencedOnce, DbHeldJobs, mJobs
<1>2. r \in Job /\ r.stage = "withDb" /\ r # NoJob
  BY <1>1, UpdaterAssumption DEF Job, Stages
<1>3. /\ job' = [job EXCEPT ![h] = r] /\ mWaiting' = Pushed(mWaiting, h, r)
      /\ db' = IdleDb
      /\ UNCHANGED <<mainVars, mPushed, mProcessingTiles, mLastUpdates, tileVars,
                     worker, dbQueue, unread>>
  BY DEF DbReadDone
<1> HIDE DEF r
<1>4. h \notin WaitingJobs \cup DbQueueJobs \cup HeldJobs /\ DbHeldJobs = {h}
  BY <1>1 DEF IInv, JobsAreReferencedOnce, DbHeldJobs
<1>5. /\ mWaiting' \in JobQueues /\ WaitingJobs' = WaitingJobs \cup {h}
      /\ QueueHasNoDuplicates(mWaiting')
  BY <1>1, <1>2, <1>3, <1>4, PushedJob DEF IInv, TypeOK, JobsAreReferencedOnce, WaitingJobs
<1>6. /\ job' \in [JobIds -> Job \cup {NoJob}] /\ mJobs' = mJobs
      /\ job'[h] = r /\ \A j \in JobIds : j # h => job'[j] = job[j]
  BY <1>1, <1>2, <1>3 DEF IInv, TypeOK, mJobs
<1>7. DbHeldJobs' = {} /\ HeldJobs' = HeldJobs /\ DbQueueJobs' = DbQueueJobs
  BY <1>3 DEF IdleDb, DbHeldJobs, HeldJobs, DbQueueJobs
<1>8. TypeOK'
  BY <1>3, <1>5, <1>6 DEF IInv, TypeOK, mainVars, tileVars, IdleDb, DbStates
<1>9. JobsAreReferencedOnce'
  BY <1>1, <1>3, <1>4, <1>5, <1>6, <1>7 DEF IInv, JobsAreReferencedOnce
<1>10. JobsAreInStage'
  <2>1. /\ \A j \in WaitingJobs \cup DbQueueJobs : j \in JobIds /\ j # h
        /\ \A v \in Workers : worker[v].job # NoJob =>
               worker[v].job \in JobIds /\ worker[v].job # h
    <3>1. WaitingJobs \cup DbQueueJobs \cup HeldJobs \subseteq JobIds
      BY DEF IInv, JobsAreReferencedOnce, mJobs
    <3> QED BY <1>4, <3>1 DEF HeldJobs
  <2> QED BY <1>2, <1>3, <1>5, <1>6, <2>1
          DEF IInv, JobsAreInStage, Stage, IdleDb, DbQueueJobs
<1> QED BY <1>8, <1>9, <1>10 DEF IInv

LEMMA DbWriteDonePlaces ==
    ASSUME IInv, DbWriteDone
    PROVE  IInv'
<1> DEFINE h == db.job
<1>1. h # NoJob /\ h \in mJobs /\ h \in JobIds
  BY DEF IInv, TypeOK, DbStates, DbWriteDone, JobsAreReferencedOnce, DbHeldJobs, mJobs
<1>2. /\ job' = [job EXCEPT ![h] = NoJob] /\ db' = IdleDb
      /\ UNCHANGED <<mainVars, mWaiting, mPushed, mProcessingTiles, mLastUpdates,
                     tileVars, worker, dbQueue, unread>>
  BY DEF DbWriteDone
<1>3. h \notin WaitingJobs \cup DbQueueJobs \cup HeldJobs /\ DbHeldJobs = {h}
  BY <1>1 DEF IInv, JobsAreReferencedOnce, DbHeldJobs
<1>4. /\ job' \in [JobIds -> Job \cup {NoJob}] /\ mJobs' = mJobs \ {h}
      /\ \A j \in JobIds : j # h => job'[j] = job[j]
  BY <1>1, <1>2 DEF IInv, TypeOK, mJobs
<1>5. DbHeldJobs' = {} /\ HeldJobs' = HeldJobs /\ DbQueueJobs' = DbQueueJobs
      /\ WaitingJobs' = WaitingJobs
  BY <1>2 DEF IdleDb, DbHeldJobs, HeldJobs, DbQueueJobs, WaitingJobs
<1>6. TypeOK'
  BY <1>2, <1>4 DEF IInv, TypeOK, mainVars, tileVars, IdleDb, DbStates
<1>7. JobsAreReferencedOnce'
  BY <1>2, <1>3, <1>4, <1>5 DEF IInv, JobsAreReferencedOnce
<1>8. JobsAreInStage'
  <2>1. /\ \A j \in WaitingJobs \cup DbQueueJobs : j \in JobIds /\ j # h
        /\ \A v \in Workers : worker[v].job # NoJob =>
               worker[v].job \in JobIds /\ worker[v].job # h
    <3>1. WaitingJobs \cup DbQueueJobs \cup HeldJobs \subseteq JobIds
      BY DEF IInv, JobsAreReferencedOnce, mJobs
    <3> QED BY <1>3, <3>1 DEF HeldJobs
  <2> QED BY <1>2, <1>4, <1>5, <2>1
          DEF IInv, JobsAreInStage, Stage, IdleDb, DbQueueJobs
<1> QED BY <1>6, <1>7, <1>8 DEF IInv

LEMMA DbStoppedPlaces ==
    ASSUME IInv, DbStopped
    PROVE  IInv'
<1>1. /\ db' = [IdleDb EXCEPT !.pc = "stopped"] /\ db.job = NoJob
      /\ UNCHANGED <<mainVars, job, mWaiting, mPushed, mProcessingTiles, mLastUpdates,
                     tileVars, worker, dbQueue, unread>>
  BY DEF DbStopped, IInv, TypeOK
<1>2. db' \in DbStates /\ db'.job = NoJob /\ db'.pc = "stopped"
  BY <1>1 DEF IdleDb, DbStates
<1>3. TypeOK'
  BY <1>1, <1>2 DEF IInv, TypeOK, mainVars, tileVars
<1>4. /\ QueueJobs(mWaiting') = WaitingJobs /\ QueueHasNoDuplicates(mWaiting')
      /\ mJobs' = mJobs
  BY <1>1 DEF IInv, JobsAreReferencedOnce, WaitingJobs, mJobs
<1>5. \A v \in Workers : worker[v].job # NoJob =>
         job'[worker[v].job].stage \in PcStages(worker'[v].pc)
  BY <1>1 DEF IInv, JobsAreInStage, Stage
<1> QED BY <1>1, <1>2, <1>3, <1>4, <1>5, SamePlaces DEF IInv

LEMMA JobBecomesDuePlaces ==
    ASSUME IInv, NEW j \in JobIds, JobBecomesDue(j)
    PROVE  IInv'
<1> DEFINE r == [job[j] EXCEPT !.due = TRUE]
<1>1. r \in Job /\ r.stage = job[j].stage /\ r # NoJob /\ job[j] # NoJob
  <2>1. job[j] \in Job
    BY DEF IInv, TypeOK, JobBecomesDue
  <2> QED BY <2>1, UpdaterAssumption DEF Job
<1>2. /\ job' = [job EXCEPT ![j] = r]
      /\ UNCHANGED <<mainVars, mWaiting, mPushed, mProcessingTiles, mLastUpdates,
                     tileVars, worker, dbQueue, db, unread>>
  BY DEF JobBecomesDue
<1> HIDE DEF r
<1>3. /\ job' \in [JobIds -> Job \cup {NoJob}] /\ mJobs' = mJobs
      /\ \A i \in JobIds : job'[i].stage = job[i].stage
  BY <1>1, <1>2 DEF IInv, TypeOK, mJobs
<1>4. TypeOK'
  BY <1>2, <1>3 DEF IInv, TypeOK, mainVars, tileVars
<1>5. /\ QueueJobs(mWaiting') = WaitingJobs /\ QueueHasNoDuplicates(mWaiting')
  BY <1>2 DEF IInv, JobsAreReferencedOnce, WaitingJobs
<1>6. \A v \in Workers : worker[v].job # NoJob =>
         job'[worker[v].job].stage \in PcStages(worker'[v].pc)
  <2>1. \A v \in Workers : worker[v].job # NoJob => worker[v].job \in JobIds
    BY DEF IInv, TypeOK, WorkerStates
  <2> QED BY <1>2, <1>3, <2>1 DEF IInv, JobsAreInStage, Stage
<1>7. \A i \in mJobs : job'[i].stage = job[i].stage
  BY <1>3 DEF mJobs
<1> QED BY <1>2, <1>3, <1>4, <1>5, <1>6, <1>7, SamePlaces DEF IInv

LEMMA NextPlaces == IInv /\ [Next]_vars => IInv'
<1> SUFFICES ASSUME IInv, [Next]_vars PROVE IInv'
  OBVIOUS
<1>1. CASE MainStep
  BY <1>1, QuietStepPlaces, PostLockPlaces, PostTilePlaces, ReplaceCacheItemPlaces,
     StopPlaces DEF MainStep
<1>2. CASE \E w \in Workers : WorkerStep(w)
  BY <1>2, QuietStepPlaces, TakeJobPlaces, DeferJobPlaces, StopWorkerPlaces,
     ProcessPlaces, EnqueueDbJobPlaces, RemoveJobPlaces DEF WorkerStep
<1>3. CASE DbStep
  BY <1>3, DbPopPlaces, DbReadDonePlaces, DbWriteDonePlaces, DbStoppedPlaces DEF DbStep
<1>4. CASE TimePasses
  BY <1>4, QuietStepPlaces, JobBecomesDuePlaces DEF TimePasses
<1>5. CASE Terminated \/ UNCHANGED vars
  BY <1>5, QuietStepPlaces DEF Terminated
<1> QED BY <1>1, <1>2, <1>3, <1>4, <1>5 DEF Next

(* The list of jobs, the three queues, the threads and the lock set keep   *)
(* the shapes the code gives them, whatever is posted and whenever the     *)
(* updater is stopped.                                                     *)
THEOREM TypeCorrect == Spec => []TypeOK
<1>1. IInv => TypeOK
  BY DEF IInv
<1> QED BY <1>1, InitPlaces, NextPlaces, PTL DEF Spec

(* No thread ever uses a job that another one has removed from mJobs, and  *)
(* no job is in two queues or processed by two threads.                    *)
THEOREM JobsReferencedOnce == Spec => []JobsAreReferencedOnce
<1>1. IInv => JobsAreReferencedOnce
  BY DEF IInv
<1> QED BY <1>1, InitPlaces, NextPlaces, PTL DEF Spec

-----------------------------------------------------------------------------
(* Which jobs own a tile can be read off their places.                     *)

OwnsByPlace ==
    /\ \A w \in Workers : worker[w].job # NoJob =>
          (Owns(worker[w].job) <=> worker[w].pc # "finish")
    /\ \A j \in mJobs \ HeldJobs :
          Owns(j) <=> job[j].stage \in {"miss", "withDb"}

LEMMA OwnsIff == IInv => OwnsByPlace
<1> SUFFICES ASSUME IInv PROVE OwnsByPlace
  OBVIOUS
<1>1. ASSUME NEW w \in Workers, worker[w].job # NoJob
      PROVE  Owns(worker[w].job) <=> worker[w].pc # "finish"
  <2>1. worker[w].pc \notin {"idle", "stopped"}
    BY <1>1 DEF IInv, TypeOK
  <2>2. \A v \in Workers : worker[v].job = worker[w].job => v = w
    BY <1>1 DEF IInv, JobsAreReferencedOnce
  <2> QED BY <2>1, <2>2 DEF Owns, Processing, Finishing
<1>2. ASSUME NEW j \in mJobs \ HeldJobs
      PROVE  Owns(j) <=> job[j].stage \in {"miss", "withDb"}
  <2>1. \A w \in Workers : worker[w].job # j
    <3>1. j # NoJob
      BY UpdaterAssumption DEF mJobs
    <3> QED BY <3>1 DEF HeldJobs
  <2> QED BY <2>1 DEF Owns, Finishing
<1> QED BY <1>1, <1>2 DEF OwnsByPlace

LEMMA OwnsIffNext == IInv' => OwnsByPlace'
BY OwnsIff, PTL

(* The lock set changes with the owners.                                   *)
LEMMA SameOwners ==
    ASSUME TilesAreOwnedOnce, Owners' = Owners,
           \A j \in Owners : job'[j].key = job[j].key,
           mProcessingTiles' = mProcessingTiles
    PROVE  TilesAreOwnedOnce'
BY DEF TilesAreOwnedOnce

(* Steps after which every job is where it was, in the same stage.         *)
LEMMA QuietOwners ==
    ASSUME IInv, IInv', TilesAreOwnedOnce, mJobs' = mJobs,
           \A j \in mJobs : job'[j].stage = job[j].stage /\ job'[j].key = job[j].key,
           \A w \in Workers : /\ worker'[w].job = worker[w].job
                              /\ worker'[w].pc = worker[w].pc,
           mProcessingTiles' = mProcessingTiles
    PROVE  TilesAreOwnedOnce'
<1>1. OwnsByPlace /\ OwnsByPlace'
  BY OwnsIff, OwnsIffNext
<1>2. HeldJobs' = HeldJobs
  BY DEF HeldJobs
<1>3. \A j \in mJobs : Owns(j)' <=> Owns(j)
  <2>1. ASSUME NEW j \in mJobs PROVE Owns(j)' <=> Owns(j)
    <3>1. CASE j \in HeldJobs
      <4>1. PICK w \in Workers : j = worker[w].job /\ j # NoJob
        BY <3>1 DEF HeldJobs
      <4>2. Owns(j) <=> worker[w].pc # "finish"
        BY <1>1, <4>1 DEF OwnsByPlace
      <4>3. Owns(j)' <=> worker'[w].pc # "finish"
        BY <1>1, <4>1 DEF OwnsByPlace
      <4> QED BY <4>2, <4>3
    <3>2. CASE j \notin HeldJobs
      BY <1>1, <1>2, <3>2 DEF OwnsByPlace
    <3> QED BY <3>1, <3>2
  <2> QED BY <2>1
<1>4. Owners' = Owners
  BY <1>3 DEF Owners
<1>5. \A j \in Owners : job'[j].key = job[j].key
  BY DEF Owners
<1> QED BY <1>4, <1>5, SameOwners

(* Steps that touch one job leave the owners among the others.             *)
LEMMA OtherOwners ==
    ASSUME IInv, IInv', NEW h \in JobIds,
           \A j \in JobIds : j # h => job'[j] = job[j],
           \A w \in Workers : \/ worker'[w] = worker[w]
                              \/ {worker[w].job, worker'[w].job} \subseteq {h, NoJob}
    PROVE  /\ Owners' \ {h} = Owners \ {h}
           /\ \A j \in Owners \ {h} : job'[j] = job[j]
<1>1. OwnsByPlace /\ OwnsByPlace'
  BY OwnsIff, OwnsIffNext
<1>2. ASSUME NEW j \in JobIds, j # h
      PROVE  j \in Owners' <=> j \in Owners
  <2>1. job'[j] = job[j] /\ j # NoJob /\ (j \in mJobs' <=> j \in mJobs)
    BY <1>2, UpdaterAssumption DEF mJobs
  <2>2. \A w \in Workers : worker'[w].job = j <=> worker[w].job = j
    BY <1>2, <2>1
  <2>3. \A w \in Workers : worker[w].job = j => worker'[w] = worker[w]
    BY <1>2, <2>1
  <2>4. CASE \E w \in Workers : worker[w].job = j
    <3>1. PICK w \in Workers : worker[w].job = j
      BY <2>4
    <3>2. worker'[w] = worker[w]
      BY <2>3, <3>1
    <3>3. Owns(j) <=> worker[w].pc # "finish"
      BY <1>1, <2>1, <3>1 DEF OwnsByPlace
    <3>4. Owns(j)' <=> worker'[w].pc # "finish"
      BY <1>1, <2>1, <3>1, <3>2 DEF OwnsByPlace
    <3> QED BY <2>1, <3>2, <3>3, <3>4 DEF Owners
  <2>5. CASE ~\E w \in Workers : worker[w].job = j
    <3>1. j \notin HeldJobs /\ j \notin HeldJobs'
      BY <2>2, <2>5 DEF HeldJobs
    <3> QED BY <1>1, <2>1, <3>1 DEF OwnsByPlace, Owners
  <2> QED BY <2>4, <2>5
<1>3. Owners \subseteq JobIds /\ Owners' \subseteq JobIds
  BY DEF Owners, mJobs
<1> QED BY <1>2, <1>3

(* ... and change the lock set as they change that job's ownership.        *)
LEMMA OneOwner ==
    ASSUME IInv, IInv', TilesAreOwnedOnce, NEW h \in JobIds,
           \A j \in JobIds : j # h => job'[j] = job[j],
           \A w \in Workers : \/ worker'[w] = worker[w]
                              \/ {worker[w].job, worker'[w].job} \subseteq {h, NoJob},
           h \in Owners' <=> h \in Owners,
           h \in Owners => job'[h].key = job[h].key,
           mProcessingTiles' = mProcessingTiles
    PROVE  TilesAreOwnedOnce'
<1>1. Owners' = Owners /\ \A j \in Owners : job'[j].key = job[j].key
  BY OtherOwners
<1> QED BY <1>1, SameOwners

LEMMA MainOwners ==
    ASSUME IInv, IInv', TilesAreOwnedOnce, MainStep
    PROVE  TilesAreOwnedOnce'
<1> USE DEF mainVars, tileVars
<1>1. CASE PostLock
  <2>1. /\ mJobs' = mJobs
        /\ \A j \in mJobs : job'[j].stage = job[j].stage /\ job'[j].key = job[j].key
    <3>1. mWaiting \in JobQueues /\ QueueHasNoDuplicates(mWaiting)
          /\ job \in [JobIds -> Job \cup {NoJob}] /\ WaitingJobs \subseteq mJobs
      BY DEF IInv, TypeOK, JobsAreReferencedOnce
    <3>2. CASE UpdateWaiting
      BY <3>1, <3>2, UpdatedQueue
    <3>3. CASE UNCHANGED <<mWaiting, job>>
      BY <3>3 DEF mJobs
    <3> QED BY <1>1, <3>2, <3>3 DEF PostLock
  <2>2. UNCHANGED <<worker, mProcessingTiles>>
    BY <1>1 DEF PostLock
  <2> QED BY <2>1, <2>2, QuietOwners
<1>2. ASSUME NEW k \in Keys, NEW type \in ChangeTypes, PostTile(k, type)
      PROVE  TilesAreOwnedOnce'
  <2>1. UNCHANGED <<worker, mProcessingTiles>>
    BY <1>2 DEF PostTile
  <2>2. CASE k \in mPushed
    <3>1. mJobs' = mJobs /\ job' = job
      BY <1>2, <2>2 DEF PostTile, mJobs
    <3> QED BY <2>1, <3>1, QuietOwners
  <2>3. CASE k \notin mPushed
    <3>1. PICK j \in JobIds \ mJobs :
            job' = [job EXCEPT ![j] =
              [key |-> k, type |-> type, stage |-> "initial",
               due |-> ~(type = "update" /\ k \in mLastUpdates),
               expired |-> FALSE]]
      BY <1>2, <2>3 DEF PostTile
    <3>2. job'[j].stage = "initial" /\ \A i \in JobIds : i # j => job'[i] = job[i]
      BY <3>1 DEF IInv, TypeOK
    <3>3. j \notin HeldJobs' /\ j \notin Owners
      BY <2>1 DEF IInv, JobsAreReferencedOnce, HeldJobs, Owners
    <3>4. j \notin Owners'
      BY <3>2, <3>3, OwnsIffNext DEF OwnsByPlace, Owners
    <3> QED BY <2>1, <3>2, <3>3, <3>4, OneOwner
  <2> QED BY <2>2, <2>3
<1>3. ASSUME NEW a \in Replaced, ReplaceCacheItem(a)
      PROVE  TilesAreOwnedOnce'
  <2>1. /\ mJobs' = mJobs
        /\ \A j \in mJobs : job'[j].stage = job[j].stage /\ job'[j].key = job[j].key
    <3>1. ASSUME NEW j \in JobIds
          PROVE  /\ job'[j] = NoJob <=> job[j] = NoJob
                 /\ job[j] # NoJob => /\ job'[j].stage = job[j].stage
                                      /\ job'[j].key = job[j].key
      <4>1. \/ job'[j] = job[j]
            \/ job[j] # NoJob /\ job'[j] = [job[j] EXCEPT !.expired = TRUE]
        BY <1>3 DEF ReplaceCacheItem, mJobs
      <4>2. job[j] \in Job \cup {NoJob}
        BY DEF IInv, TypeOK
      <4>3. ASSUME NEW r \in Job
            PROVE  /\ [r EXCEPT !.expired = TRUE] \in Job
                   /\ [r EXCEPT !.expired = TRUE].stage = r.stage
                   /\ [r EXCEPT !.expired = TRUE].key = r.key
        BY DEF Job
      <4> QED BY <4>1, <4>2, <4>3, UpdaterAssumption
    <3> QED BY <3>1 DEF mJobs
  <2>2. \A w \in Workers : /\ worker'[w].job = worker[w].job
                           /\ worker'[w].pc = worker[w].pc
    BY <1>3 DEF ReplaceCacheItem, IInv, TypeOK, WorkerStates
  <2> QED BY <1>3, <2>1, <2>2, QuietOwners DEF ReplaceCacheItem
<1>4. CASE ~PostLock /\ ~(\E k \in Keys, type \in ChangeTypes : PostTile(k, type))
           /\ ~(\E a \in Replaced : ReplaceCacheItem(a))
  <2>1. UNCHANGED <<job, worker, mProcessingTiles>>
    BY <1>4 DEF MainStep, PostPlayerTile, PostUnlock, PostDbUpdate, WaitAllJobs,
       WaitTilesReturns, WaitRequiredTiles, WaitRequiredReturns, Stop, StopDb,
       JoinDb, ClearWaiting, JoinThreads
  <2> QED BY <2>1, QuietOwners DEF mJobs
<1> QED BY <1>1, <1>2, <1>3, <1>4

LEMMA GetJobOwners ==
    ASSUME IInv, IInv', TilesAreOwnedOnce, NEW w \in Workers,
           ResumeJob(w) \/ StartJob(w) \/ DeferJob(w)
    PROVE  TilesAreOwnedOnce'
<1>1. OwnsByPlace /\ OwnsByPlace'
  BY OwnsIff, OwnsIffNext
<1>2. /\ mWaiting \in JobQueues /\ QueueHasNoDuplicates(mWaiting)
      /\ worker \in [Workers -> WorkerStates] /\ job \in [JobIds -> Job \cup {NoJob}]
      /\ WaitingJobs \subseteq mJobs /\ WaitingJobs \cap HeldJobs = {}
      /\ worker[w].job = NoJob
  BY DEF IInv, TypeOK, JobsAreReferencedOnce, ResumeJob, StartJob, DeferJob
<1>3. ASSUME NEW n \in Popped
      PROVE  n.job \in JobIds /\ n.job # NoJob /\ n.job \in mJobs /\ n.job \notin HeldJobs
  <2>1. n.job \in WaitingJobs /\ n.job \in JobIds
    BY <1>2, PoppedJob
  <2> QED BY <1>2, <2>1, UpdaterAssumption
<1>4. ASSUME NEW n \in Popped, job' = job,
             worker' = [worker EXCEPT ![w] =
                          [IdleWorker EXCEPT !.pc = "loaded", !.job = n.job]]
      PROVE  /\ n.job \in Owners'
             /\ \A v \in Workers : \/ worker'[v] = worker[v]
                                   \/ {worker[v].job, worker'[v].job} \subseteq {n.job, NoJob}
  <2>1. worker'[w].job = n.job /\ worker'[w].pc = "loaded"
    BY <1>2, <1>4 DEF IdleWorker
  <2>2. n.job \in mJobs'
    BY <1>3, <1>4 DEF mJobs
  <2>3. Owns(n.job)'
    BY <1>1, <1>3, <2>1 DEF OwnsByPlace
  <2> QED BY <1>2, <1>4, <2>1, <2>2, <2>3 DEF Owners
<1>5. CASE ResumeJob(w)
  <2>1. PICK n \in Popped :
          /\ job[n.job].stage = "withDb"
          /\ worker' = [worker EXCEPT ![w] =
                          [IdleWorker EXCEPT !.pc = "loaded", !.job = n.job]]
    BY <1>5 DEF ResumeJob
  <2>2. job' = job /\ mProcessingTiles' = mProcessingTiles
    BY <1>5 DEF ResumeJob
  <2>3. n.job \in Owners
    BY <1>1, <1>3, <2>1 DEF OwnsByPlace, Owners
  <2>4. /\ n.job \in Owners'
        /\ \A v \in Workers : \/ worker'[v] = worker[v]
                              \/ {worker[v].job, worker'[v].job} \subseteq {n.job, NoJob}
    BY <1>4, <2>1, <2>2
  <2>5. n.job \in JobIds
    BY <1>3
  <2> QED BY <2>2, <2>3, <2>4, <2>5, OneOwner
<1>6. CASE StartJob(w)
  <2>1. PICK n \in Popped :
          /\ job[n.job].stage = "initial" /\ job[n.job].key \notin mProcessingTiles
          /\ mProcessingTiles' = mProcessingTiles \cup {job[n.job].key}
          /\ worker' = [worker EXCEPT ![w] =
                          [IdleWorker EXCEPT !.pc = "loaded", !.job = n.job]]
    BY <1>6 DEF StartJob
  <2>2. job' = job
    BY <1>6 DEF StartJob
  <2>3. n.job \notin Owners
    BY <1>1, <1>3, <2>1 DEF OwnsByPlace, Owners
  <2>4. Owners' = Owners \cup {n.job}
    <3>1. Owners' \ {n.job} = Owners \ {n.job} /\ n.job \in Owners'
      BY <1>3, <1>4, <2>1, <2>2, OtherOwners
    <3> QED BY <2>3, <3>1
  <2> QED BY <2>1, <2>2, <2>4 DEF TilesAreOwnedOnce
<1>7. CASE DeferJob(w)
  <2>1. PICK n \in Popped :
          job' = [job EXCEPT ![n.job] = [job[n.job] EXCEPT !.due = FALSE]]
    BY <1>7 DEF DeferJob
  <2> DEFINE late == [job[n.job] EXCEPT !.due = FALSE]
  <2>2. late.stage = job[n.job].stage /\ late.key = job[n.job].key /\ late # NoJob
    <3>1. job[n.job] \in Job
      BY <1>2, <1>3 DEF mJobs
    <3> QED BY <3>1, UpdaterAssumption DEF Job
  <2>3. job' = [job EXCEPT ![n.job] = late]
    BY <2>1
  <2> HIDE DEF late
  <2>4. /\ mJobs' = mJobs
        /\ \A j \in mJobs : job'[j].stage = job[j].stage /\ job'[j].key = job[j].key
    BY <1>2, <1>3, <2>2, <2>3 DEF mJobs
  <2> QED BY <1>7, <2>4, QuietOwners DEF DeferJob
<1> QED BY <1>5, <1>6, <1>7

LEMMA HoldOwners ==
    ASSUME IInv, IInv', TilesAreOwnedOnce, NEW w \in Workers,
           \/ ProcessJob(w) \/ RemoveFarTile(w) \/ ProcessInitialJob(w)
           \/ ProcessJobWithDbResult(w) \/ MarkAsEmpty(w) \/ UpdateTile(w)
           \/ HandleUpdateNavMeshStatus(w) \/ UnlockTile(w)
    PROVE  TilesAreOwnedOnce'
<1> DEFINE h == worker[w].job
<1>1. OwnsByPlace /\ OwnsByPlace'
  BY OwnsIff, OwnsIffNext
<1>2. worker[w].pc \notin {"idle", "stopped", "finish"}
  BY DEF ProcessJob, RemoveFarTile, ProcessInitialJob, ProcessJobWithDbResult,
     MarkAsEmpty, UpdateTile, HandleUpdateNavMeshStatus, UnlockTile
<1>3. h # NoJob /\ h \in JobIds /\ h \in mJobs /\ job[h] \in Job
      /\ worker \in [Workers -> WorkerStates] /\ job \in [JobIds -> Job \cup {NoJob}]
  BY <1>2, HeldJob DEF IInv, TypeOK
<1>4. h \in Owners
  BY <1>1, <1>2, <1>3 DEF OwnsByPlace, Owners
<1>5. \E pc \in WorkerPcs \cup Stages, s \in Statuses :
         /\ worker' = [worker EXCEPT ![w].pc = pc, ![w].status = s]
         /\ pc = "finish" <=> UnlockTile(w)
  <2>1. ASSUME NEW pc, Goto(w, pc)
        PROVE  worker' = [worker EXCEPT ![w].pc = pc, ![w].status = worker[w].status]
    BY <1>3, <2>1 DEF Goto, WorkerStates
  <2>2. worker[w].status \in Statuses /\ Stage(w) \in Stages
    BY <1>3 DEF WorkerStates, Job, Stage
  <2>3. CASE UpdateTile(w) \/ HandleUpdateNavMeshStatus(w)
    <3>1. \E pc \in {"report", "unlock"}, s \in Statuses :
             worker' = [worker EXCEPT ![w].pc = pc, ![w].status = s]
      <4>1. CASE UpdateTile(w)
        <5>1. \E s \in Statuses :
                 worker' = [worker EXCEPT ![w].pc = "report", ![w].status = s]
          BY <4>1 DEF UpdateTile
        <5> QED BY <5>1
      <4>2. CASE HandleUpdateNavMeshStatus(w)
        <5>1. worker' = [worker EXCEPT ![w].pc = "unlock", ![w].status = "none"]
          BY <4>2 DEF HandleUpdateNavMeshStatus
        <5>2. "none" \in Statuses
          BY DEF Statuses
        <5> QED BY <5>1, <5>2
      <4> QED BY <2>3, <4>1, <4>2
    <3>2. ~UnlockTile(w)
      BY <2>3 DEF UpdateTile, HandleUpdateNavMeshStatus, UnlockTile
    <3> QED BY <3>1, <3>2 DEF WorkerPcs
  <2>4. CASE ~(UpdateTile(w) \/ HandleUpdateNavMeshStatus(w) \/ UnlockTile(w))
    <3>1. \E pc \in (WorkerPcs \cup Stages) \ {"finish"} : Goto(w, pc)
      BY <2>2, <2>4 DEF ProcessJob, RemoveFarTile, ProcessInitialJob,
         ProcessJobWithDbResult, MarkAsEmpty, WorkerPcs, Stages
    <3> QED BY <2>1, <2>2, <2>4, <3>1
  <2>5. CASE UnlockTile(w)
    <3>1. Goto(w, "finish") /\ "finish" \in WorkerPcs
      BY <2>5 DEF UnlockTile, WorkerPcs
    <3> QED BY <2>1, <2>2, <2>5, <3>1
  <2> QED BY <2>3, <2>4, <2>5
<1>6. /\ worker'[w].job = h /\ (worker'[w].pc = "finish" <=> UnlockTile(w))
      /\ \A v \in Workers : v # w => worker'[v] = worker[v]
  BY <1>3, <1>5 DEF WorkerStates
<1>7. \E r \in Job : r.key = job[h].key /\ job' = [job EXCEPT ![h] = r]
  <2>1. ASSUME NEW x \in Stages
        PROVE  /\ [job[h] EXCEPT !.stage = x] \in Job
               /\ [job[h] EXCEPT !.stage = x].key = job[h].key
    BY <1>3 DEF Job
  <2>2. [job[h] EXCEPT !.type = "remove"] \in Job
        /\ [job[h] EXCEPT !.type = "remove"].key = job[h].key
    BY <1>3 DEF Job, ChangeTypes
  <2>3. \/ job' = job
        \/ job' = [job EXCEPT ![h] = [job[h] EXCEPT !.type = "remove"]]
        \/ job' = [job EXCEPT ![h] = [job[h] EXCEPT !.stage = "miss"]]
        \/ job' = [job EXCEPT ![h] = [job[h] EXCEPT !.stage = "generated"]]
    BY DEF ProcessJob, RemoveFarTile, ProcessInitialJob, ProcessJobWithDbResult,
       MarkAsEmpty, UpdateTile, HandleUpdateNavMeshStatus, UnlockTile
  <2>4. "miss" \in Stages /\ "generated" \in Stages
    BY DEF Stages
  <2>5. job' = job => job' = [job EXCEPT ![h] = job[h]]
    BY <1>3
  <2> QED BY <1>3, <2>1, <2>2, <2>3, <2>4, <2>5
<1>8. /\ \A j \in JobIds : j # h => job'[j] = job[j]
      /\ job'[h].key = job[h].key /\ h \in mJobs'
  BY <1>3, <1>7, UpdaterAssumption DEF mJobs
<1>9. \A v \in Workers : \/ worker'[v] = worker[v]
                         \/ {worker[v].job, worker'[v].job} \subseteq {h, NoJob}
  BY <1>6
<1>10. h \in Owners' <=> ~UnlockTile(w)
  BY <1>1, <1>3, <1>6, <1>8 DEF OwnsByPlace, Owners
<1>11. CASE UnlockTile(w)
  <2>1. Owners' = Owners \ {h} /\ \A j \in Owners \ {h} : job'[j] = job[j]
    BY <1>3, <1>8, <1>9, <1>10, <1>11, OtherOwners
  <2>2. mProcessingTiles' = mProcessingTiles \ {job[h].key}
    BY <1>11 DEF UnlockTile, KeyOf
  <2> QED BY <1>4, <2>1, <2>2 DEF TilesAreOwnedOnce
<1>12. CASE ~UnlockTile(w)
  <2>1. mProcessingTiles' = mProcessingTiles
    BY <1>12 DEF ProcessJob, RemoveFarTile, ProcessInitialJob,
       ProcessJobWithDbResult, MarkAsEmpty, UpdateTile, HandleUpdateNavMeshStatus
  <2> QED BY <1>3, <1>4, <1>8, <1>9, <1>10, <1>12, <2>1, OneOwner
<1> QED BY <1>11, <1>12

LEMMA LeaveOwners ==
    ASSUME IInv, IInv', TilesAreOwnedOnce, NEW w \in Workers,
           EnqueueDbJob(w) \/ RemoveJob(w)
    PROVE  TilesAreOwnedOnce'
<1> DEFINE h == worker[w].job
<1>1. OwnsByPlace /\ OwnsByPlace'
  BY OwnsIff, OwnsIffNext
<1>2. worker[w].pc \in {"miss", "finish"}
  BY DEF EnqueueDbJob, RemoveJob
<1>3. h # NoJob /\ h \in JobIds /\ h \in mJobs
      /\ worker \in [Workers -> WorkerStates] /\ job \in [JobIds -> Job \cup {NoJob}]
      /\ Stage(w) \in PcStages(worker[w].pc)
  BY <1>2, HeldJob DEF IInv, TypeOK
<1>4. /\ worker'[w].job = NoJob
      /\ \A v \in Workers : v # w => worker'[v] = worker[v]
      /\ mProcessingTiles' = mProcessingTiles
  BY <1>3 DEF EnqueueDbJob, RemoveJob, IdleWorker
<1>5. h \notin HeldJobs'
  <2>1. \A v \in Workers : v # w => worker[v].job # h
    BY <1>3 DEF IInv, JobsAreReferencedOnce
  <2> QED BY <1>3, <1>4, <2>1 DEF HeldJobs
<1>6. CASE EnqueueDbJob(w) /\ worker[w].pc = "miss"
  <2>1. job' = job /\ job[h].stage = "miss" /\ h \in mJobs'
    BY <1>3, <1>6 DEF EnqueueDbJob, PcStages, Stage, mJobs
  <2>2. h \in Owners /\ h \in Owners'
    BY <1>1, <1>3, <1>5, <1>6, <2>1 DEF OwnsByPlace, Owners
  <2> QED BY <1>3, <1>4, <2>1, <2>2, OneOwner
<1>7. CASE worker[w].pc = "finish"
  <2>1. h \notin Owners
    BY <1>1, <1>3, <1>7 DEF OwnsByPlace, Owners
  <2>2. \A j \in JobIds : j # h => job'[j] = job[j]
    BY <1>3 DEF EnqueueDbJob, RemoveJob
  <2>3. h \notin Owners'
    <3>1. CASE RemoveJob(w)
      BY <1>3, <3>1 DEF RemoveJob, Owners, mJobs
    <3>2. CASE EnqueueDbJob(w)
      <4>1. job' = job /\ job[h].stage = "generated"
        BY <1>7, <3>2 DEF EnqueueDbJob, Stage
      <4> QED BY <1>1, <1>5, <4>1 DEF OwnsByPlace, Owners
    <3> QED BY <3>1, <3>2
  <2> QED BY <1>3, <1>4, <2>1, <2>2, <2>3, OneOwner
<1> QED BY <1>2, <1>6, <1>7 DEF RemoveJob

LEMMA DbOwners ==
    ASSUME IInv, IInv', TilesAreOwnedOnce, DbStep
    PROVE  TilesAreOwnedOnce'
<1> DEFINE h == db.job
<1>1. OwnsByPlace /\ OwnsByPlace'
  BY OwnsIff, OwnsIffNext
<1>2. UNCHANGED <<worker, mProcessingTiles>>
  BY DEF DbStep, DbPop, DbReadDone, DbWriteDone, DbStopped
<1>3. CASE DbPop \/ DbStopped
  <2>1. job' = job /\ mJobs' = mJobs
    BY <1>3 DEF DbPop, DbStopped, mJobs
  <2> QED BY <1>2, <2>1, QuietOwners
<1>4. CASE DbReadDone \/ DbWriteDone
  <2>1. h # NoJob /\ h \in mJobs /\ h \in JobIds /\ job[h] \in Job
    BY <1>4 DEF IInv, TypeOK, DbStates, DbReadDone, DbWriteDone,
       JobsAreReferencedOnce, DbHeldJobs, mJobs
  <2>2. h \notin HeldJobs /\ HeldJobs' = HeldJobs
    BY <1>2, <2>1 DEF IInv, JobsAreReferencedOnce, DbHeldJobs, HeldJobs
  <2>3. \A j \in JobIds : j # h => job'[j] = job[j]
    BY <1>4, <2>1 DEF DbReadDone, DbWriteDone, IInv, TypeOK
  <2>4. CASE DbReadDone
    <3> DEFINE r == [job[h] EXCEPT !.stage = "withDb"]
    <3>1. r \in Job /\ r.stage = "withDb" /\ r.key = job[h].key /\ r # NoJob
      BY <2>1, UpdaterAssumption DEF Job, Stages
    <3>2. job' = [job EXCEPT ![h] = r] /\ job[h].stage = "miss"
      BY <2>4 DEF DbReadDone
    <3> HIDE DEF r
    <3>3. job'[h] = r /\ h \in mJobs'
      BY <2>1, <3>1, <3>2 DEF IInv, TypeOK, mJobs
    <3>4. h \in Owners /\ h \in Owners'
      BY <1>1, <2>1, <2>2, <3>1, <3>2, <3>3 DEF OwnsByPlace, Owners
    <3> QED BY <1>2, <2>1, <2>3, <3>1, <3>3, <3>4, OneOwner
  <2>5. CASE DbWriteDone
    <3>1. h \notin Owners
      BY <1>1, <2>1, <2>2, <2>5 DEF DbWriteDone, OwnsByPlace, Owners
    <3>2. h \notin Owners'
      BY <2>1, <2>5 DEF DbWriteDone, Owners, mJobs, IInv, TypeOK
    <3> QED BY <1>2, <2>1, <2>3, <3>1, <3>2, OneOwner
  <2> QED BY <1>4, <2>4, <2>5
<1> QED BY <1>3, <1>4 DEF DbStep

LEMMA TimeOwners ==
    ASSUME IInv, IInv', TilesAreOwnedOnce, TimePasses
    PROVE  TilesAreOwnedOnce'
<1> USE DEF tileVars, mainVars
<1>1. ASSUME NEW k \in Keys, CleanupLastUpdates(k) PROVE TilesAreOwnedOnce'
  <2>1. UNCHANGED <<job, worker, mProcessingTiles>>
    BY <1>1 DEF CleanupLastUpdates
  <2> QED BY <2>1, QuietOwners DEF mJobs
<1>2. ASSUME NEW j \in JobIds, JobBecomesDue(j) PROVE TilesAreOwnedOnce'
  <2> DEFINE r == [job[j] EXCEPT !.due = TRUE]
  <2>1. r.key = job[j].key /\ r.stage = job[j].stage /\ r # NoJob /\ job[j] # NoJob
    <3>1. job[j] \in Job
      BY <1>2 DEF IInv, TypeOK, JobBecomesDue
    <3> QED BY <3>1, UpdaterAssumption DEF Job
  <2>2. job' = [job EXCEPT ![j] = r] /\ UNCHANGED <<worker, mProcessingTiles>>
    BY <1>2 DEF JobBecomesDue
  <2> HIDE DEF r
  <2>3. /\ mJobs' = mJobs
        /\ \A i \in mJobs : job'[i].stage = job[i].stage /\ job'[i].key = job[i].key
    BY <2>1, <2>2 DEF IInv, TypeOK, mJobs
  <2> QED BY <2>2, <2>3, QuietOwners
<1> QED BY <1>1, <1>2 DEF TimePasses

LEMMA NextOwners == IInv /\ IInv' /\ TilesAreOwnedOnce /\ [Next]_vars => TilesAreOwnedOnce'
<1> SUFFICES ASSUME IInv, IInv', TilesAreOwnedOnce, [Next]_vars PROVE TilesAreOwnedOnce'
  OBVIOUS
<1>1. CASE MainStep
  BY <1>1, MainOwners
<1>2. ASSUME NEW w \in Workers, WorkerStep(w) PROVE TilesAreOwnedOnce'
  <2>1. CASE GetNextJobTimeout(w)
    <3>1. UNCHANGED <<job, worker, mProcessingTiles>>
      BY <2>1 DEF GetNextJobTimeout
    <3> QED BY <3>1, QuietOwners DEF mJobs
  <2>2. CASE StopWorker(w)
    <3>1. /\ UNCHANGED <<job, mProcessingTiles>> /\ worker[w].job = NoJob
          /\ worker' = [worker EXCEPT ![w].pc = "stopped"]
      BY <2>2 DEF StopWorker, IInv, TypeOK
    <3>2. worker'[w].job = NoJob /\ \A v \in Workers : v # w => worker'[v] = worker[v]
      BY <3>1 DEF IInv, TypeOK, WorkerStates
    <3>3. ASSUME NEW h \in JobIds PROVE TilesAreOwnedOnce'
      <4>1. h \in Owners' <=> h \in Owners
        <5>1. HeldJobs' = HeldJobs /\ mJobs' = mJobs
          BY <3>1, <3>2 DEF HeldJobs, mJobs
        <5>2. CASE \E v \in Workers : worker[v].job = h
          <6>1. PICK v \in Workers : worker[v].job = h
            BY <5>2
          <6>2. h # NoJob /\ v # w /\ worker'[v] = worker[v]
            BY <3>1, <3>2, <6>1, UpdaterAssumption
          <6>3. Owns(h) <=> worker[v].pc # "finish"
            BY <6>1, <6>2, OwnsIff DEF OwnsByPlace
          <6>4. Owns(h)' <=> worker'[v].pc # "finish"
            BY <6>1, <6>2, OwnsIffNext DEF OwnsByPlace
          <6> QED BY <5>1, <6>2, <6>3, <6>4 DEF Owners
        <5>3. CASE ~\E v \in Workers : worker[v].job = h
          <6>1. h \notin HeldJobs
            BY <5>3 DEF HeldJobs
          <6> QED BY <3>1, <5>1, <6>1, OwnsIff, OwnsIffNext DEF OwnsByPlace, Owners
        <5> QED BY <5>2, <5>3
      <4> QED BY <3>1, <3>2, <4>1, OneOwner
    <3>4. CASE JobIds = {}
      BY <3>1, <3>4 DEF TilesAreOwnedOnce, Owners, mJobs
    <3> QED BY <3>3, <3>4
  <2> QED BY <1>2, <2>1, <2>2, GetJobOwners, HoldOwners, LeaveOwners DEF WorkerStep
<1>3. CASE DbStep
  BY <1>3, DbOwners
<1>4. CASE TimePasses
  BY <1>4, TimeOwners
<1>5. CASE Terminated \/ UNCHANGED vars
  <2>1. UNCHANGED <<job, worker, mProcessingTiles>>
    BY <1>5 DEF Terminated, vars
  <2> QED BY <2>1, QuietOwners DEF mJobs
<1> QED BY <1>1, <1>2, <1>3, <1>4, <1>5 DEF Next

(* A (bounds, tile) pair is in mProcessingTiles exactly while one job of   *)
(* mJobs owns it, also while that job is in the hands of the database:     *)
(* two threads never build the same tile of the same mesh at once.         *)
THEOREM TilesOwnedOnce == Spec => []TilesAreOwnedOnce
<1>1. Init => TilesAreOwnedOnce
  BY DEF Init, TilesAreOwnedOnce, Owners, mJobs
<1> QED BY <1>1, InitPlaces, NextPlaces, NextOwners, PTL DEF Spec

-----------------------------------------------------------------------------
(* mPushed and the jobs that nobody has popped                             *)

Fresh == {j \in WaitingJobs : job[j].stage = "initial"}
Over == main \in {"join", "stopped"}

(* Once the queue is cleared, the main thread only waits for the end.      *)
LEMMA StaysOver == [Next]_vars /\ Over => Over'
<1> SUFFICES ASSUME [Next]_vars, Over PROVE Over'
  OBVIOUS
<1>1. CASE MainStep
  BY <1>1 DEF MainStep, PostPlayerTile, PostLock, PostTile, PostUnlock, PostDbUpdate,
     ReplaceCacheItem, WaitAllJobs, WaitTilesReturns, WaitRequiredTiles,
     WaitRequiredReturns, Stop, StopDb, JoinDb, ClearWaiting, JoinThreads, Over, mainVars
<1>2. ASSUME NEW w \in Workers, WorkerStep(w)
      PROVE  Over'
  BY <1>2 DEF WorkerStep, GetNextJobTimeout, ResumeJob, DeferJob, StartJob, StopWorker,
     ProcessJob, RemoveFarTile, ProcessInitialJob, ProcessJobWithDbResult, MarkAsEmpty,
     UpdateTile, HandleUpdateNavMeshStatus, UnlockTile, EnqueueDbJob, RemoveJob, Over,
     mainVars
<1>3. CASE DbStep \/ TimePasses \/ Terminated \/ UNCHANGED vars
  BY <1>3 DEF DbStep, DbPop, DbReadDone, DbWriteDone, DbStopped, TimePasses, JobBecomesDue,
     CleanupLastUpdates, Terminated, vars, Over, mainVars
<1> QED BY <1>1, <1>2, <1>3 DEF Next

(* Steps that leave the queue, mPushed, and what the waiting jobs are for. *)
LEMMA SameFresh ==
    ASSUME PushedIsWaiting, Over => Over', Fresh' = Fresh,
           \A j \in Fresh : job'[j].key = job[j].key, mPushed' = mPushed
    PROVE  PushedIsWaiting'
BY DEF PushedIsWaiting, Fresh, Over

LEMMA SameQueue ==
    ASSUME PushedIsWaiting, Over => Over', WaitingJobs' = WaitingJobs, mPushed' = mPushed,
           \A j \in WaitingJobs : job'[j].stage = job[j].stage /\ job'[j].key = job[j].key
    PROVE  PushedIsWaiting'
<1>1. Fresh' = Fresh
  BY DEF Fresh
<1> QED BY <1>1, SameFresh DEF Fresh

LEMMA PushedInit == Init => PushedIsWaiting
<1> SUFFICES ASSUME Init PROVE PushedIsWaiting
  OBVIOUS
<1>1. WaitingJobs = {} /\ mPushed = {}
  BY DEF Init, WaitingJobs, QueueJobs, Elements, EmptyQueue
<1> QED BY <1>1 DEF PushedIsWaiting

LEMMA PushedPostTile ==
    ASSUME IInv, PushedIsWaiting, NEW k \in Keys, NEW type \in ChangeTypes,
           PostTile(k, type)
    PROVE  PushedIsWaiting'
<1> USE DEF mainVars
<1>1. CASE k \in mPushed
  BY <1>1, SameQueue DEF PostTile, WaitingJobs, Over
<1>2. CASE k \notin mPushed
  <2> DEFINE d == ~(type = "update" /\ k \in mLastUpdates)
             r == [key |-> k, type |-> type, stage |-> "initial", due |-> d,
                   expired |-> FALSE]
  <2>1. PICK j \in JobIds \ mJobs :
          /\ mPushed' = mPushed \cup {k}
          /\ job' = [job EXCEPT ![j] = r]
          /\ mWaiting' = Pushed(mWaiting, j, r)
    BY <1>2 DEF PostTile
  <2>2. r \in Job /\ r.stage = "initial" /\ r.key = k
    <3>1. d \in BOOLEAN
      OBVIOUS
    <3> HIDE DEF d
    <3> QED BY <3>1 DEF Job, Stages
  <2> HIDE DEF r
  <2>3. /\ mWaiting \in JobQueues /\ QueueHasNoDuplicates(mWaiting)
        /\ job \in [JobIds -> Job \cup {NoJob}] /\ WaitingJobs \subseteq mJobs
        /\ j \notin WaitingJobs
    BY <2>1 DEF IInv, TypeOK, JobsAreReferencedOnce
  <2>4. WaitingJobs' = WaitingJobs \cup {j}
    BY <2>1, <2>2, <2>3, PushedJob DEF WaitingJobs
  <2>5. job'[j] = r /\ \A i \in WaitingJobs : job'[i] = job[i]
    BY <2>1, <2>3 DEF mJobs
  <2>6. Fresh' = Fresh \cup {j} /\ \A i \in Fresh : i # j /\ job'[i].key = job[i].key
    BY <2>2, <2>3, <2>4, <2>5 DEF Fresh
  <2>7. Over => Over'
    BY DEF PostTile, Over
  <2>8. ASSUME ~Over
        PROVE  /\ mPushed = {job[i].key : i \in Fresh}
               /\ \A i1, i2 \in Fresh : job[i1].key = job[i2].key => i1 = i2
    BY <2>8 DEF PushedIsWaiting, Fresh, Over
  <2>9. ASSUME ~Over'
        PROVE  /\ mPushed' = {job'[i].key : i \in Fresh'}
               /\ \A i1, i2 \in Fresh' : job'[i1].key = job'[i2].key => i1 = i2
    <3>1. ~Over
      BY <2>7, <2>9
    <3>2. \A i \in Fresh : job'[i].key # k
      BY <1>2, <2>6, <2>8, <3>1
    <3>3. mPushed' = {job'[i].key : i \in Fresh'}
      BY <2>1, <2>2, <2>5, <2>6, <2>8, <3>1
    <3>4. \A i1, i2 \in Fresh' : job'[i1].key = job'[i2].key => i1 = i2
      BY <2>2, <2>5, <2>6, <2>8, <3>1, <3>2
    <3> QED BY <3>3, <3>4
  <2> QED BY <2>9 DEF PushedIsWaiting, Fresh, Over
<1> QED BY <1>1, <1>2

LEMMA PushedMain ==
    ASSUME IInv, PushedIsWaiting, MainStep
    PROVE  PushedIsWaiting'
<1> USE DEF mainVars, tileVars
<1>1. Over => Over'
  BY StaysOver DEF Next
<1>2. CASE PostLock
  <2>1. /\ mWaiting \in JobQueues /\ QueueHasNoDuplicates(mWaiting)
        /\ job \in [JobIds -> Job \cup {NoJob}] /\ WaitingJobs \subseteq mJobs
    BY DEF IInv, TypeOK, JobsAreReferencedOnce
  <2>2. CASE UpdateWaiting
    <3>1. /\ QueueJobs(mWaiting') = WaitingJobs
          /\ \A j \in WaitingJobs : job'[j].stage = job[j].stage /\ job'[j].key = job[j].key
      BY <2>1, <2>2, UpdatedQueue
    <3> QED BY <1>1, <1>2, <3>1, SameQueue DEF PostLock, WaitingJobs
  <2>3. CASE UNCHANGED <<mWaiting, job>>
    BY <1>1, <1>2, <2>3, SameQueue DEF PostLock, WaitingJobs
  <2> QED BY <1>2, <2>2, <2>3 DEF PostLock
<1>3. ASSUME NEW a \in Replaced, ReplaceCacheItem(a)
      PROVE  PushedIsWaiting'
  <2>1. ASSUME NEW j \in WaitingJobs
        PROVE  job'[j].stage = job[j].stage /\ job'[j].key = job[j].key
    <3>1. job[j] \in Job /\ j \in JobIds
      BY DEF IInv, TypeOK, JobsAreReferencedOnce, mJobs
    <3>2. job'[j] = job[j] \/ job'[j] = [job[j] EXCEPT !.expired = TRUE]
      BY <1>3, <3>1 DEF ReplaceCacheItem
    <3> QED BY <3>1, <3>2 DEF Job
  <2> QED BY <1>1, <1>3, <2>1, SameQueue DEF ReplaceCacheItem, WaitingJobs
<1>4. CASE ClearWaiting
  BY <1>4 DEF ClearWaiting, PushedIsWaiting
<1>5. CASE \/ \E a \in Agents, p \in PlayerTiles : PostPlayerTile(a, p)
           \/ PostUnlock \/ PostDbUpdate
           \/ WaitAllJobs \/ WaitTilesReturns \/ WaitRequiredTiles \/ WaitRequiredReturns
           \/ Stop \/ StopDb \/ JoinDb \/ JoinThreads
  <2>1. UNCHANGED <<job, mWaiting, mPushed>>
    BY <1>5 DEF PostPlayerTile, PostUnlock, PostDbUpdate, WaitAllJobs, WaitTilesReturns,
       WaitRequiredTiles, WaitRequiredReturns, Stop, StopDb, JoinDb, JoinThreads
  <2> QED BY <1>1, <2>1, SameQueue DEF WaitingJobs
<1> QED BY <1>2, <1>3, <1>4, <1>5, PushedPostTile DEF MainStep

(* getNextJob: the popped job leaves the queue, or goes back to it.        *)
LEMMA PushedGetJob ==
    ASSUME IInv, PushedIsWaiting, NEW w \in Workers,
           ResumeJob(w) \/ DeferJob(w) \/ StartJob(w)
    PROVE  PushedIsWaiting'
<1> USE DEF mainVars, tileVars
<1>1. /\ mWaiting \in JobQueues /\ QueueHasNoDuplicates(mWaiting)
      /\ job \in [JobIds -> Job \cup {NoJob}] /\ WaitingJobs \subseteq mJobs
  BY DEF IInv, TypeOK, JobsAreReferencedOnce
<1>2. ASSUME NEW n \in Popped
      PROVE  /\ n.job \in WaitingJobs /\ n.job \in JobIds /\ n.rest \in JobQueues
             /\ QueueJobs(n.rest) = WaitingJobs \ {n.job} /\ QueueHasNoDuplicates(n.rest)
  BY <1>1, <1>2, PoppedJob
<1>3. main' = main
  BY DEF ResumeJob, DeferJob, StartJob
<1>4. CASE ResumeJob(w)
  <2>1. PICK n \in Popped : job[n.job].stage = "withDb" /\ mWaiting' = n.rest
    BY <1>4 DEF ResumeJob
  <2>2. UNCHANGED <<job, mPushed>>
    BY <1>4 DEF ResumeJob
  <2>3. WaitingJobs' = WaitingJobs \ {n.job}
    BY <1>2, <2>1 DEF WaitingJobs
  <2>4. Fresh' = Fresh
    BY <2>1, <2>2, <2>3 DEF Fresh
  <2> QED BY <1>3, <2>2, <2>4, SameFresh DEF Over
<1>5. CASE DeferJob(w)
  <2>1. PICK n \in Popped :
          /\ job' = [job EXCEPT ![n.job] = [job[n.job] EXCEPT !.due = FALSE]]
          /\ mWaiting' = Pushed(n.rest, n.job, [job[n.job] EXCEPT !.due = FALSE])
    BY <1>5 DEF DeferJob
  <2> DEFINE late == [job[n.job] EXCEPT !.due = FALSE]
  <2>2. job[n.job] \in Job
    BY <1>1, <1>2 DEF mJobs
  <2>3. late \in Job /\ late.stage = job[n.job].stage /\ late.key = job[n.job].key
    BY <2>2 DEF Job
  <2> HIDE DEF late
  <2>4. QueueJobs(mWaiting') = (WaitingJobs \ {n.job}) \cup {n.job}
    BY <1>2, <2>1, <2>3, PushedJob DEF late
  <2>5. WaitingJobs' = WaitingJobs
    BY <1>2, <2>4 DEF WaitingJobs
  <2>6. \A j \in WaitingJobs : job'[j].stage = job[j].stage /\ job'[j].key = job[j].key
    BY <1>1, <1>2, <2>1, <2>3 DEF late, mJobs
  <2> QED BY <1>3, <1>5, <2>5, <2>6, SameQueue DEF DeferJob, Over
<1>6. CASE StartJob(w)
  <2>1. PICK n \in Popped :
          /\ job[n.job].stage = "initial" /\ mWaiting' = n.rest
          /\ mPushed' = mPushed \ {job[n.job].key}
    BY <1>6 DEF StartJob
  <2>2. job' = job
    BY <1>6 DEF StartJob
  <2>3. WaitingJobs' = WaitingJobs \ {n.job} /\ n.job \in WaitingJobs
    BY <1>2, <2>1 DEF WaitingJobs
  <2>4. Fresh' = Fresh \ {n.job} /\ n.job \in Fresh
    BY <2>1, <2>2, <2>3 DEF Fresh
  <2>5. ASSUME ~Over
        PROVE  /\ mPushed = {job[i].key : i \in Fresh}
               /\ \A i1, i2 \in Fresh : job[i1].key = job[i2].key => i1 = i2
    BY <2>5 DEF PushedIsWaiting, Fresh, Over
  <2>6. ASSUME ~Over
        PROVE  /\ mPushed' = {job[i].key : i \in Fresh'}
               /\ \A i1, i2 \in Fresh' : job[i1].key = job[i2].key => i1 = i2
    BY <2>1, <2>4, <2>5, <2>6
  <2> QED BY <1>3, <2>2, <2>6 DEF PushedIsWaiting, Fresh, Over
<1> QED BY <1>4, <1>5, <1>6

(* Steps that change no job but one that does not wait.                    *)
LEMMA OneJobPushed ==
    ASSUME IInv, PushedIsWaiting, UNCHANGED <<mWaiting, mPushed>>, Over => Over',
           NEW h, h \notin WaitingJobs,
           \A j \in JobIds : j # h => job'[j] = job[j]
    PROVE  PushedIsWaiting'
<1>1. WaitingJobs' = WaitingJobs /\ WaitingJobs \subseteq JobIds
  BY DEF WaitingJobs, IInv, JobsAreReferencedOnce, mJobs
<1> QED BY <1>1, SameQueue

(* A thread that holds a job works on that one only.                       *)
OtherSteps(w) ==
    \/ GetNextJobTimeout(w) \/ StopWorker(w) \/ ProcessJob(w) \/ RemoveFarTile(w)
    \/ ProcessInitialJob(w) \/ ProcessJobWithDbResult(w) \/ MarkAsEmpty(w)
    \/ UpdateTile(w) \/ HandleUpdateNavMeshStatus(w) \/ UnlockTile(w)
    \/ EnqueueDbJob(w) \/ RemoveJob(w)

LEMMA HeldJobOnly ==
    ASSUME IInv, NEW w \in Workers, OtherSteps(w)
    PROVE  /\ UNCHANGED <<mWaiting, mPushed>>
           /\ \A j \in JobIds : j # worker[w].job => job'[j] = job[j]
           /\ \A v \in Workers : v # w => worker'[v] = worker[v]
           /\ worker[w].job \notin WaitingJobs
<1> USE DEF mainVars, tileVars
<1>1. job \in [JobIds -> Job \cup {NoJob}] /\ worker \in [Workers -> WorkerStates]
  BY DEF IInv, TypeOK
<1>2. worker[w].job \notin WaitingJobs
  <2>1. CASE worker[w].job = NoJob
    BY <2>1, UpdaterAssumption DEF IInv, JobsAreReferencedOnce, mJobs
  <2>2. CASE worker[w].job # NoJob
    BY <2>2 DEF IInv, JobsAreReferencedOnce, HeldJobs
  <2> QED BY <2>1, <2>2
<1>3. UNCHANGED <<mWaiting, mPushed>>
  BY DEF OtherSteps, GetNextJobTimeout, StopWorker, ProcessJob, RemoveFarTile,
     ProcessInitialJob, ProcessJobWithDbResult, MarkAsEmpty, UpdateTile,
     HandleUpdateNavMeshStatus, UnlockTile, EnqueueDbJob, RemoveJob
<1>4. CASE GetNextJobTimeout(w) \/ StopWorker(w) \/ ProcessJob(w) \/ RemoveFarTile(w)
           \/ ProcessInitialJob(w)
  <2>1. \A j \in JobIds : j # worker[w].job => job'[j] = job[j]
    BY <1>1, <1>4 DEF GetNextJobTimeout, StopWorker, ProcessJob, RemoveFarTile,
       ProcessInitialJob
  <2>2. \A v \in Workers : v # w => worker'[v] = worker[v]
    BY <1>1, <1>4 DEF GetNextJobTimeout, StopWorker, ProcessJob, RemoveFarTile,
       ProcessInitialJob, Goto
  <2> QED BY <1>2, <1>3, <2>1, <2>2
<1>5. CASE ProcessJobWithDbResult(w) \/ MarkAsEmpty(w) \/ UpdateTile(w)
           \/ HandleUpdateNavMeshStatus(w) \/ UnlockTile(w)
  <2>1. \A j \in JobIds : j # worker[w].job => job'[j] = job[j]
    BY <1>1, <1>5 DEF ProcessJobWithDbResult, MarkAsEmpty, UpdateTile,
       HandleUpdateNavMeshStatus, UnlockTile
  <2>2. \A v \in Workers : v # w => worker'[v] = worker[v]
    BY <1>1, <1>5 DEF ProcessJobWithDbResult, MarkAsEmpty, UpdateTile,
       HandleUpdateNavMeshStatus, UnlockTile, Goto
  <2> QED BY <1>2, <1>3, <2>1, <2>2
<1>6. CASE EnqueueDbJob(w) \/ RemoveJob(w)
  <2>1. \A j \in JobIds : j # worker[w].job => job'[j] = job[j]
    BY <1>1, <1>6 DEF EnqueueDbJob, RemoveJob
  <2>2. \A v \in Workers : v # w => worker'[v] = worker[v]
    BY <1>1, <1>6 DEF EnqueueDbJob, RemoveJob
  <2> QED BY <1>2, <1>3, <2>1, <2>2
<1> QED BY <1>4, <1>5, <1>6 DEF OtherSteps

(* The database thread and the clock.                                      *)
LEMMA DbAndTimeKeep ==
    ASSUME IInv, DbStep \/ TimePasses
    PROVE  /\ UNCHANGED <<mPushed, unread, worker>>
           /\ \A j \in WaitingJobs \cup HeldJobs :
                /\ job'[j].stage = job[j].stage /\ job'[j].key = job[j].key
                /\ job'[j].expired = job[j].expired
           /\ \/ WaitingJobs' = WaitingJobs
              \/ WaitingJobs' = WaitingJobs \cup {db.job} /\ job'[db.job].stage = "withDb"
<1> USE DEF mainVars, tileVars
<1>1. /\ job \in [JobIds -> Job \cup {NoJob}]
      /\ WaitingJobs \cup HeldJobs \subseteq mJobs
      /\ db.job \notin WaitingJobs \cup HeldJobs
  <2>1. CASE db.job = NoJob
    BY <2>1, UpdaterAssumption DEF IInv, TypeOK, JobsAreReferencedOnce, mJobs
  <2>2. CASE db.job # NoJob
    BY <2>2 DEF IInv, TypeOK, JobsAreReferencedOnce, DbHeldJobs
  <2> QED BY <2>1, <2>2
<1>2. UNCHANGED <<mPushed, unread, worker>>
  BY DEF DbStep, DbPop, DbReadDone, DbWriteDone, DbStopped, TimePasses, JobBecomesDue,
     CleanupLastUpdates
<1>3. CASE DbPop \/ DbStopped \/ \E k \in Keys : CleanupLastUpdates(k)
  <2>1. UNCHANGED <<job, mWaiting>>
    BY <1>3 DEF DbPop, DbStopped, CleanupLastUpdates
  <2> QED BY <1>2, <2>1 DEF WaitingJobs
<1>4. CASE DbWriteDone
  <2>1. mWaiting' = mWaiting /\ job' = [job EXCEPT ![db.job] = NoJob]
    BY <1>4 DEF DbWriteDone
  <2>2. \A j \in WaitingJobs \cup HeldJobs : job'[j] = job[j]
    BY <1>1, <2>1 DEF mJobs
  <2> QED BY <1>2, <2>1, <2>2 DEF WaitingJobs
<1>5. CASE DbReadDone
  <2> DEFINE h == db.job
             r == [job[h] EXCEPT !.stage = "withDb"]
  <2>1. h \in mJobs /\ h \in JobIds /\ job[h] \in Job
    BY <1>5 DEF IInv, TypeOK, DbStates, DbReadDone, JobsAreReferencedOnce, DbHeldJobs, mJobs
  <2>2. r \in Job /\ r.stage = "withDb"
    BY <2>1 DEF Job, Stages
  <2>3. job' = [job EXCEPT ![h] = r] /\ mWaiting' = Pushed(mWaiting, h, r)
    BY <1>5 DEF DbReadDone
  <2> HIDE DEF r
  <2>4. mWaiting \in JobQueues /\ QueueHasNoDuplicates(mWaiting) /\ h \notin QueueJobs(mWaiting)
    BY <1>1 DEF IInv, TypeOK, JobsAreReferencedOnce, WaitingJobs
  <2>5. WaitingJobs' = WaitingJobs \cup {h}
    BY <2>1, <2>2, <2>3, <2>4, PushedJob DEF WaitingJobs
  <2>6. job'[h] = r /\ \A j \in WaitingJobs \cup HeldJobs : job'[j] = job[j]
    BY <1>1, <2>1, <2>3 DEF mJobs
  <2> QED BY <1>2, <2>2, <2>5, <2>6
<1>6. ASSUME NEW i \in JobIds, JobBecomesDue(i)
      PROVE  /\ WaitingJobs' = WaitingJobs
             /\ \A j \in WaitingJobs \cup HeldJobs :
                  /\ job'[j].stage = job[j].stage /\ job'[j].key = job[j].key
                  /\ job'[j].expired = job[j].expired
  <2>1. job' = [job EXCEPT ![i] = [job[i] EXCEPT !.due = TRUE]] /\ mWaiting' = mWaiting
    BY <1>1, <1>6 DEF JobBecomesDue
  <2>2. ASSUME NEW j \in WaitingJobs \cup HeldJobs
        PROVE  /\ job'[j].stage = job[j].stage /\ job'[j].key = job[j].key
               /\ job'[j].expired = job[j].expired
    <3>1. job[j] \in Job /\ j \in JobIds
      BY <1>1 DEF mJobs
    <3>2. job'[j] = job[j] \/ job'[j] = [job[j] EXCEPT !.due = TRUE]
      BY <1>1, <2>1, <3>1
    <3> QED BY <3>1, <3>2 DEF Job
  <2> QED BY <2>1, <2>2 DEF WaitingJobs
<1> QED BY <1>2, <1>3, <1>4, <1>5, <1>6 DEF DbStep, TimePasses

LEMMA PushedNext == IInv /\ PushedIsWaiting /\ [Next]_vars => PushedIsWaiting'
<1> SUFFICES ASSUME IInv, PushedIsWaiting, [Next]_vars PROVE PushedIsWaiting'
  OBVIOUS
<1>1. Over => Over'
  BY StaysOver
<1>2. ASSUME NEW w \in Workers, WorkerStep(w)
      PROVE  PushedIsWaiting'
  <2>1. CASE OtherSteps(w)
    BY <1>1, <2>1, HeldJobOnly, OneJobPushed
  <2>2. CASE ResumeJob(w) \/ DeferJob(w) \/ StartJob(w)
    BY <2>2, PushedGetJob
  <2> QED BY <1>2, <2>1, <2>2 DEF WorkerStep, OtherSteps
<1>3. CASE DbStep \/ TimePasses
  <2>1. /\ mPushed' = mPushed
        /\ \A j \in WaitingJobs : job'[j].stage = job[j].stage /\ job'[j].key = job[j].key
        /\ \/ WaitingJobs' = WaitingJobs
           \/ WaitingJobs' = WaitingJobs \cup {db.job} /\ job'[db.job].stage = "withDb"
    BY <1>3, DbAndTimeKeep
  <2>2. Fresh' = Fresh
    BY <2>1 DEF Fresh
  <2> QED BY <1>1, <2>1, <2>2, SameFresh DEF Fresh
<1>4. CASE Terminated \/ UNCHANGED vars
  BY <1>1, <1>4, SameQueue DEF Terminated, vars, WaitingJobs
<1> QED BY <1>2, <1>3, <1>4, PushedMain DEF Next

(* mPushed says which keys have a waiting job, for any agents, tiles and   *)
(* threads: post() neither doubles a job nor drops a change for a key      *)
(* whose job is already running.                                           *)
THEOREM PushedWaits == Spec => []PushedIsWaiting
<1>1. IInv /\ PushedIsWaiting /\ [Next]_vars => IInv' /\ PushedIsWaiting'
  BY NextPlaces, PushedNext
<1> QED BY <1>1, InitPlaces, PushedInit, PTL DEF Spec

-----------------------------------------------------------------------------
(* Posts and the jobs that read the scene after them                       *)

(* Only the mesh of an agent in Replaced expires.                          *)
OnlyReplacedExpire == \A j \in mJobs : job[j].expired => job[j].key[1] \in Replaced
Remembered(k) == k \in mPushed \/ \E w \in Workers : Reads(w, k)
MInv == IInv /\ OnlyReplacedExpire /\ NoPostIsForgotten

(* Steps that leave the keys and the weak_ptrs of the jobs alone.          *)
LEMMA SameMeshes ==
    ASSUME OnlyReplacedExpire,
           \A j \in mJobs' : /\ j \in mJobs /\ job'[j].key = job[j].key
                             /\ job'[j].expired = job[j].expired
    PROVE  OnlyReplacedExpire'
BY DEF OnlyReplacedExpire

(* A step keeps every remembered post that stays posted.                   *)
LEMMA KeepsPosts ==
    ASSUME NoPostIsForgotten, Over => Over', unread' \subseteq unread,
           \A k \in unread' :
               k[1] \notin Replaced /\ Remembered(k) => Remembered(k)'
    PROVE  NoPostIsForgotten'
BY DEF NoPostIsForgotten, Over, Remembered

(* A thread whose job is left alone goes on reading for its key.           *)
LEMMA SameReader ==
    ASSUME NEW v \in Workers, NEW k, Reads(v, k), worker'[v] = worker[v],
           job'[worker[v].job].key = job[worker[v].job].key,
           job'[worker[v].job].stage = job[worker[v].job].stage
    PROVE  Reads(v, k)'
BY DEF Reads, KeyOf, Stage

(* The job of a reader exists and is held by it alone.                     *)
LEMMA ReaderJob ==
    ASSUME IInv, NEW v \in Workers, NEW k, Reads(v, k)
    PROVE  /\ worker[v].job \in mJobs /\ worker[v].job \in HeldJobs
           /\ worker[v].job \in JobIds /\ job[worker[v].job] \in Job
           /\ worker[v].job \notin WaitingJobs
           /\ worker[v].pc \notin {"idle", "stopped"}
           /\ \A w \in Workers : w # v => worker[w].job # worker[v].job
<1>1. worker[v].pc \notin {"idle", "stopped"}
  BY DEF Reads
<1>2. /\ worker[v].job # NoJob /\ worker[v].job \in mJobs
      /\ worker[v].job \in JobIds /\ job[worker[v].job] \in Job
  BY <1>1, HeldJob
<1> QED BY <1>1, <1>2 DEF IInv, JobsAreReferencedOnce, HeldJobs

LEMMA MainMeshes ==
    ASSUME IInv, OnlyReplacedExpire, MainStep
    PROVE  OnlyReplacedExpire'
<1> USE DEF mainVars, tileVars
<1>1. /\ mWaiting \in JobQueues /\ QueueHasNoDuplicates(mWaiting)
      /\ job \in [JobIds -> Job \cup {NoJob}] /\ WaitingJobs \subseteq mJobs
  BY DEF IInv, TypeOK, JobsAreReferencedOnce
<1>2. CASE PostLock
  BY <1>1, <1>2, UpdatedQueue, SameMeshes DEF PostLock, mJobs
<1>3. ASSUME NEW a \in Replaced, ReplaceCacheItem(a)
      PROVE  OnlyReplacedExpire'
  <2>1. ASSUME NEW j \in mJobs', job'[j].expired
        PROVE  job'[j].key[1] \in Replaced
    <3>1. j \in JobIds
      BY DEF mJobs
    <3>2. CASE j \in mJobs /\ job[j].key[1] = a
      <4>1. job'[j] = [job[j] EXCEPT !.expired = TRUE] /\ job[j] \in Job
        BY <1>1, <1>3, <3>1, <3>2 DEF ReplaceCacheItem, mJobs
      <4>2. job'[j].key = job[j].key
        BY <4>1 DEF Job
      <4> QED BY <3>2, <4>2
    <3>3. CASE ~(j \in mJobs /\ job[j].key[1] = a)
      <4>1. job'[j] = job[j] /\ j \in mJobs
        BY <1>3, <3>1, <3>3 DEF ReplaceCacheItem, mJobs
      <4> QED BY <2>1, <4>1 DEF OnlyReplacedExpire
    <3> QED BY <3>2, <3>3
  <2> QED BY <2>1 DEF OnlyReplacedExpire
<1>4. ASSUME NEW k \in Keys, NEW type \in ChangeTypes, PostTile(k, type)
      PROVE  OnlyReplacedExpire'
  <2>1. CASE job' = job
    BY <2>1, SameMeshes DEF mJobs
  <2>2. CASE job' # job
    <3>1. PICK j \in JobIds \ mJobs :
            job' = [job EXCEPT ![j] =
                      [key |-> k, type |-> type, stage |-> "initial",
                       due |-> ~(type = "update" /\ k \in mLastUpdates),
                       expired |-> FALSE]]
      BY <1>4, <2>2 DEF PostTile
    <3>2. job'[j].expired = FALSE /\ \A i \in JobIds : i # j => job'[i] = job[i]
      BY <1>1, <3>1
    <3> QED BY <3>2 DEF OnlyReplacedExpire, mJobs
  <2> QED BY <2>1, <2>2
<1>5. CASE \/ \E a \in Agents, p \in PlayerTiles : PostPlayerTile(a, p)
           \/ PostUnlock \/ PostDbUpdate
           \/ WaitAllJobs \/ WaitTilesReturns \/ WaitRequiredTiles \/ WaitRequiredReturns
           \/ Stop \/ StopDb \/ JoinDb \/ ClearWaiting \/ JoinThreads
  <2>1. job' = job
    BY <1>5 DEF PostPlayerTile, PostUnlock, PostDbUpdate, WaitAllJobs, WaitTilesReturns,
       WaitRequiredTiles, WaitRequiredReturns, Stop, StopDb, JoinDb, ClearWaiting,
       JoinThreads
  <2> QED BY <2>1, SameMeshes DEF mJobs
<1> QED BY <1>2, <1>3, <1>4, <1>5 DEF MainStep

(* A thread or the clock changes a job but not its key or its weak_ptr.    *)
LEMMA ThreadMeshes ==
    ASSUME IInv, OnlyReplacedExpire, (\E w \in Workers : WorkerStep(w)) \/ DbStep \/ TimePasses
    PROVE  OnlyReplacedExpire'
<1> USE DEF mainVars, tileVars
<1>1. job \in [JobIds -> Job \cup {NoJob}]
  BY DEF IInv, TypeOK
<1>2. ASSUME NEW h,
             \/ job' = job
             \/ job' = [job EXCEPT ![h] = NoJob]
             \/ /\ h \in mJobs
                /\ \/ job' = [job EXCEPT ![h] = [job[h] EXCEPT !.due = FALSE]]
                   \/ job' = [job EXCEPT ![h] = [job[h] EXCEPT !.due = TRUE]]
                   \/ job' = [job EXCEPT ![h] = [job[h] EXCEPT !.type = "remove"]]
                   \/ job' = [job EXCEPT ![h] = [job[h] EXCEPT !.stage = "miss"]]
                   \/ job' = [job EXCEPT ![h] = [job[h] EXCEPT !.stage = "withDb"]]
                   \/ job' = [job EXCEPT ![h] = [job[h] EXCEPT !.stage = "generated"]]
      PROVE  OnlyReplacedExpire'
  <2>1. ASSUME NEW j \in mJobs'
        PROVE  /\ j \in mJobs /\ job'[j].key = job[j].key
               /\ job'[j].expired = job[j].expired
    <3>1. j \in JobIds /\ job'[j] # NoJob
      BY DEF mJobs
    <3>2. CASE job'[j] = job[j]
      BY <3>1, <3>2 DEF mJobs
    <3>3. CASE job'[j] # job[j]
      <4>1. j = h
        BY <1>1, <1>2, <3>1, <3>3
      <4>2. j \in mJobs /\ job[j] \in Job
        BY <1>1, <1>2, <3>1, <3>3, <4>1 DEF mJobs
      <4>3. \/ job'[j] = [job[j] EXCEPT !.due = FALSE]
            \/ job'[j] = [job[j] EXCEPT !.due = TRUE]
            \/ job'[j] = [job[j] EXCEPT !.type = "remove"]
            \/ job'[j] = [job[j] EXCEPT !.stage = "miss"]
            \/ job'[j] = [job[j] EXCEPT !.stage = "withDb"]
            \/ job'[j] = [job[j] EXCEPT !.stage = "generated"]
        BY <1>1, <1>2, <3>1, <3>3, <4>1
      <4> QED BY <4>2, <4>3 DEF Job
    <3> QED BY <3>2, <3>3
  <2> QED BY <2>1, SameMeshes
<1>3. ASSUME NEW w \in Workers, WorkerStep(w)
      PROVE  OnlyReplacedExpire'
  <2>1. CASE RemoveFarTile(w) \/ ProcessInitialJob(w) \/ HandleUpdateNavMeshStatus(w)
             \/ RemoveJob(w)
    <3>1. worker[w].job \in mJobs
      BY <2>1, HeldJob DEF RemoveFarTile, ProcessInitialJob, HandleUpdateNavMeshStatus,
         RemoveJob
    <3>2. CASE RemoveFarTile(w)
      BY <1>2, <3>1, <3>2 DEF RemoveFarTile
    <3>3. CASE ProcessInitialJob(w)
      BY <1>2, <3>1, <3>3 DEF ProcessInitialJob
    <3>4. CASE HandleUpdateNavMeshStatus(w)
      BY <1>2, <3>1, <3>4 DEF HandleUpdateNavMeshStatus
    <3>5. CASE RemoveJob(w)
      BY <1>2, <3>5 DEF RemoveJob
    <3> QED BY <2>1, <3>2, <3>3, <3>4, <3>5
  <2>2. CASE DeferJob(w)
    <3>1. PICK n \in Popped :
            job' = [job EXCEPT ![n.job] = [job[n.job] EXCEPT !.due = FALSE]]
      BY <2>2 DEF DeferJob
    <3>2. n.job \in mJobs
      BY PoppedJob DEF IInv, TypeOK, JobsAreReferencedOnce
    <3> QED BY <1>2, <3>1, <3>2
  <2>3. CASE \/ GetNextJobTimeout(w) \/ ResumeJob(w) \/ StartJob(w) \/ StopWorker(w)
             \/ ProcessJob(w) \/ ProcessJobWithDbResult(w) \/ MarkAsEmpty(w)
             \/ UpdateTile(w) \/ UnlockTile(w) \/ EnqueueDbJob(w)
    <3>1. job' = job
      BY <2>3 DEF GetNextJobTimeout, ResumeJob, StartJob, StopWorker, ProcessJob,
         ProcessJobWithDbResult, MarkAsEmpty, UpdateTile, UnlockTile, EnqueueDbJob
    <3> QED BY <1>2, <3>1
  <2> QED BY <1>3, <2>1, <2>2, <2>3 DEF WorkerStep
<1>4. CASE DbReadDone
  <2>1. db.job \in mJobs
    BY <1>4 DEF IInv, TypeOK, DbReadDone, JobsAreReferencedOnce, DbHeldJobs
  <2>2. job' = [job EXCEPT ![db.job] = [job[db.job] EXCEPT !.stage = "withDb"]]
    BY <1>4 DEF DbReadDone
  <2> QED BY <1>2, <2>1, <2>2
<1>5. CASE DbPop \/ DbWriteDone \/ DbStopped \/ \E k \in Keys : CleanupLastUpdates(k)
  BY <1>2, <1>5 DEF DbPop, DbWriteDone, DbStopped, CleanupLastUpdates
<1>6. ASSUME NEW j \in JobIds, JobBecomesDue(j)
      PROVE  OnlyReplacedExpire'
  BY <1>2, <1>6 DEF JobBecomesDue, mJobs
<1> QED BY <1>3, <1>4, <1>5, <1>6 DEF DbStep, TimePasses

LEMMA MainPosts ==
    ASSUME MInv, MainStep
    PROVE  NoPostIsForgotten'
<1> USE DEF MInv, mainVars, tileVars
<1>1. Over => Over'
  BY StaysOver DEF Next
<1>2. CASE PostLock
  <2>1. \A j \in mJobs : job'[j].stage = job[j].stage /\ job'[j].key = job[j].key
    <3>1. /\ mWaiting \in JobQueues /\ QueueHasNoDuplicates(mWaiting)
          /\ job \in [JobIds -> Job \cup {NoJob}] /\ WaitingJobs \subseteq mJobs
      BY DEF IInv, TypeOK, JobsAreReferencedOnce
    <3> QED BY <1>2, <3>1, UpdatedQueue DEF PostLock
  <2>2. UNCHANGED <<mPushed, worker, unread>>
    BY <1>2 DEF PostLock
  <2>3. ASSUME NEW v \in Workers, NEW k, Reads(v, k)
        PROVE  Reads(v, k)'
    BY <2>1, <2>2, <2>3, ReaderJob, SameReader
  <2> QED BY <1>1, <2>2, <2>3, KeepsPosts DEF Remembered
<1>3. ASSUME NEW a \in Replaced, ReplaceCacheItem(a)
      PROVE  NoPostIsForgotten'
  <2>1. unread' \subseteq unread /\ mPushed' = mPushed
    BY <1>3 DEF ReplaceCacheItem
  <2>2. ASSUME NEW v \in Workers, NEW k, Reads(v, k), k[1] \notin Replaced
        PROVE  Reads(v, k)'
    <3> DEFINE h == worker[v].job
    <3>1. h \in mJobs /\ h \in JobIds /\ job[h].key = k /\ k[1] # a
      BY <2>2, ReaderJob DEF Reads, KeyOf
    <3>2. job'[h] = job[h]
      BY <1>3, <3>1 DEF ReplaceCacheItem
    <3>3. worker'[v] = worker[v]
      BY <1>3, <3>1 DEF ReplaceCacheItem
    <3> QED BY <2>2, <3>2, <3>3, SameReader
  <2> QED BY <1>1, <2>1, <2>2, KeepsPosts DEF Remembered
<1>4. ASSUME NEW k \in Keys, NEW type \in ChangeTypes, PostTile(k, type)
      PROVE  NoPostIsForgotten'
  <2>1. unread' = unread \cup {k} /\ mPushed' = mPushed \cup {k} /\ worker' = worker
        /\ main' = main
    BY <1>4 DEF PostTile
  <2>2. \A j \in mJobs : job'[j] = job[j]
    <3>1. CASE job' = job
      BY <3>1
    <3>2. CASE job' # job
      <4>1. PICK j \in JobIds \ mJobs : \E r : job' = [job EXCEPT ![j] = r]
        BY <1>4, <3>2 DEF PostTile
      <4> QED BY <4>1 DEF IInv, TypeOK, mJobs
    <3> QED BY <3>1, <3>2
  <2>3. ASSUME NEW v \in Workers, NEW c, Reads(v, c)
        PROVE  Reads(v, c)'
    BY <2>1, <2>2, <2>3, ReaderJob, SameReader
  <2> QED BY <2>1, <2>3 DEF NoPostIsForgotten
<1>5. CASE \/ \E a \in Agents, p \in PlayerTiles : PostPlayerTile(a, p)
           \/ PostUnlock \/ PostDbUpdate
           \/ WaitAllJobs \/ WaitTilesReturns \/ WaitRequiredTiles \/ WaitRequiredReturns
           \/ Stop \/ StopDb \/ JoinDb \/ ClearWaiting \/ JoinThreads
  <2>1. UNCHANGED <<job, mPushed, worker, unread>>
    BY <1>5 DEF PostPlayerTile, PostUnlock, PostDbUpdate, WaitAllJobs, WaitTilesReturns,
       WaitRequiredTiles, WaitRequiredReturns, Stop, StopDb, JoinDb, ClearWaiting,
       JoinThreads
  <2>2. ASSUME NEW v \in Workers, NEW c, Reads(v, c)
        PROVE  Reads(v, c)'
    BY <2>1, <2>2, SameReader
  <2> QED BY <1>1, <2>1, <2>2, KeepsPosts DEF Remembered
<1> QED BY <1>2, <1>3, <1>4, <1>5 DEF MainStep

(* getNextJob: the key that leaves mPushed is the key of the new reader.   *)
LEMMA GetJobPosts ==
    ASSUME MInv, NEW w \in Workers, ResumeJob(w) \/ DeferJob(w) \/ StartJob(w)
    PROVE  NoPostIsForgotten'
<1> USE DEF MInv, mainVars, tileVars
<1>1. /\ job \in [JobIds -> Job \cup {NoJob}] /\ worker \in [Workers -> WorkerStates]
      /\ worker[w].pc = "idle" /\ main' = main /\ unread' = unread
  BY DEF IInv, TypeOK, ResumeJob, DeferJob, StartJob
<1>2. ASSUME NEW v \in Workers, NEW k, Reads(v, k)
      PROVE  Reads(v, k)'
  <2>1. v # w
    BY <1>1, <1>2 DEF Reads
  <2>2. worker'[v] = worker[v]
    BY <1>1, <2>1 DEF ResumeJob, DeferJob, StartJob
  <2>3. worker[v].job \notin WaitingJobs /\ worker[v].job \in JobIds
    BY <1>2, ReaderJob
  <2>4. \A n \in Popped : n.job \in WaitingJobs
    BY PoppedJob DEF IInv, TypeOK, JobsAreReferencedOnce
  <2>5. job'[worker[v].job] = job[worker[v].job]
    BY <1>1, <2>3, <2>4 DEF ResumeJob, DeferJob, StartJob
  <2> QED BY <1>2, <2>2, <2>5, SameReader
<1>3. ASSUME NEW k \in mPushed, k \notin mPushed'
      PROVE  Reads(w, k)'
  <2>1. PICK n \in Popped :
          /\ job[n.job].stage = "initial" /\ mPushed' = mPushed \ {job[n.job].key}
          /\ worker' = [worker EXCEPT ![w] =
                          [IdleWorker EXCEPT !.pc = "loaded", !.job = n.job]]
          /\ job' = job
    BY <1>3 DEF ResumeJob, DeferJob, StartJob
  <2>2. worker'[w] = [IdleWorker EXCEPT !.pc = "loaded", !.job = n.job] /\ job[n.job].key = k
    BY <1>1, <1>3, <2>1
  <2>3. worker'[w].pc = "loaded" /\ worker'[w].job = n.job /\ worker'[w].orphan = FALSE
    BY <2>2 DEF IdleWorker
  <2> QED BY <2>1, <2>2, <2>3 DEF Reads, KeyOf, Stage
<1> QED BY <1>1, <1>2, <1>3, KeepsPosts DEF Remembered, Over

(* A thread reads until its job has looked at the scene, or will not.      *)
LEMMA ThreadPosts ==
    ASSUME MInv, NEW w \in Workers, OtherSteps(w)
    PROVE  NoPostIsForgotten'
<1> USE DEF MInv, mainVars, tileVars
<1>1. /\ mPushed' = mPushed
      /\ \A j \in JobIds : j # worker[w].job => job'[j] = job[j]
      /\ \A v \in Workers : v # w => worker'[v] = worker[v]
  BY HeldJobOnly
<1>2. Over => Over'
  BY StaysOver DEF Next, WorkerStep, OtherSteps
<1>3. ASSUME NEW v \in Workers, v # w, NEW k, Reads(v, k)
      PROVE  Reads(v, k)'
  BY <1>1, <1>3, ReaderJob, SameReader
<1>4. unread' \subseteq unread
  BY DEF OtherSteps, GetNextJobTimeout, StopWorker, ProcessJob, RemoveFarTile,
     ProcessInitialJob, ProcessJobWithDbResult, MarkAsEmpty, UpdateTile,
     HandleUpdateNavMeshStatus, UnlockTile, EnqueueDbJob, RemoveJob
<1>5. ASSUME NEW k \in unread', k[1] \notin Replaced, Reads(w, k)
      PROVE  Reads(w, k)'
  <2>1. worker[w].pc \in {"loaded", "initial"} /\ KeyOf(w) = k /\ Stage(w) = "initial"
        /\ worker[w].orphan = FALSE
    BY <1>5 DEF Reads, IInv, TypeOK, WorkerStates
  <2>2. ~ProcessInitialJob(w)
    BY <1>5, <2>1 DEF ProcessInitialJob
  <2>3. ProcessJob(w)  \/ GetNextJobTimeout(w) \/ StopWorker(w)
    BY <2>1, <2>2 DEF OtherSteps, RemoveFarTile, ProcessJobWithDbResult, MarkAsEmpty,
       UpdateTile, HandleUpdateNavMeshStatus, UnlockTile, EnqueueDbJob, RemoveJob
  <2>4. ProcessJob(w)
    BY <2>1, <2>3 DEF GetNextJobTimeout, StopWorker
  <2>5. worker[w].job \in mJobs
    BY <1>5, ReaderJob
  <2>6. ~job[worker[w].job].expired
    BY <1>5, <2>1, <2>5 DEF OnlyReplacedExpire, KeyOf
  <2>7. Goto(w, "initial") /\ job' = job
    BY <1>5, <2>1, <2>4, <2>6 DEF ProcessJob
  <2>8. worker'[w] = [worker[w] EXCEPT !.pc = "initial"] /\ worker[w] \in WorkerStates
    BY <2>7 DEF Goto, IInv, TypeOK
  <2>9. worker'[w].pc = "initial" /\ worker'[w].job = worker[w].job
        /\ worker'[w].orphan = FALSE
    BY <2>1, <2>8 DEF WorkerStates
  <2> QED BY <2>1, <2>7, <2>9 DEF Reads, KeyOf, Stage
<1> QED BY <1>1, <1>2, <1>3, <1>4, <1>5, KeepsPosts DEF Remembered

LEMMA PostsNext == MInv /\ [Next]_vars => MInv'
<1> SUFFICES ASSUME MInv, [Next]_vars PROVE MInv'
  OBVIOUS
<1> USE DEF MInv
<1>1. IInv'
  BY NextPlaces
<1>2. Over => Over'
  BY StaysOver
<1>3. CASE MainStep
  BY <1>1, <1>3, MainMeshes, MainPosts
<1>4. ASSUME NEW w \in Workers, WorkerStep(w)
      PROVE  MInv'
  <2>1. OtherSteps(w) \/ ResumeJob(w) \/ DeferJob(w) \/ StartJob(w)
    BY <1>4 DEF WorkerStep, OtherSteps
  <2>2. NoPostIsForgotten'
    BY <2>1, GetJobPosts, ThreadPosts
  <2> QED BY <1>1, <1>4, <2>2, ThreadMeshes
<1>5. CASE DbStep \/ TimePasses
  <2>1. UNCHANGED <<mPushed, unread, worker>>
    BY <1>5, DbAndTimeKeep
  <2>2. \A j \in HeldJobs : job'[j].stage = job[j].stage /\ job'[j].key = job[j].key
    BY <1>5, DbAndTimeKeep
  <2>3. ASSUME NEW v \in Workers, NEW k, Reads(v, k)
        PROVE  Reads(v, k)'
    BY <2>1, <2>2, <2>3, ReaderJob, SameReader
  <2>4. NoPostIsForgotten'
    BY <1>2, <2>1, <2>3, KeepsPosts DEF Remembered
  <2> QED BY <1>1, <1>5, <2>4, ThreadMeshes
<1>6. CASE Terminated \/ UNCHANGED vars
  <2>1. UNCHANGED vars
    BY <1>6 DEF Terminated
  <2>2. OnlyReplacedExpire'
    BY <2>1 DEF vars, OnlyReplacedExpire, mJobs
  <2>3. NoPostIsForgotten'
    BY <2>1 DEF vars, NoPostIsForgotten, Reads, KeyOf, Stage
  <2> QED BY <1>1, <2>2, <2>3
<1> QED BY <1>3, <1>4, <1>5, <1>6 DEF Next

(* A posted change of an agent whose mesh stays is never forgotten: its    *)
(* key waits in mPushed, or a thread will look at the scene for it, as     *)
(* processJob and processInitialJob do for any number of threads.          *)
THEOREM PostsRemembered == Spec => []NoPostIsForgotten
<1>1. Init => MInv
  <2>1. Init => OnlyReplacedExpire /\ NoPostIsForgotten
    BY DEF Init, OnlyReplacedExpire, mJobs, NoPostIsForgotten
  <2> QED BY <2>1, InitPlaces DEF MInv
<1>2. MInv => NoPostIsForgotten
  BY DEF MInv
<1> QED BY <1>1, <1>2, PostsNext, PTL DEF Spec
=============================================================================
