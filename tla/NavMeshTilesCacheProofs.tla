------------------------ MODULE NavMeshTilesCacheProofs ------------------------
(* Proof, for any keys, sizes, threads, tiles and meshes and a cache of    *)
(* any size, that used data is kept, unused data can be evicted, and the   *)
(* sizes are right, until an item is acquired while it is being released.  *)
EXTENDS NavMeshTilesCache, FiniteSetTheorems, SequenceTheorems, WellFoundedInduction, TLAPS

-----------------------------------------------------------------------------
(* The inductive invariant                                                 *)

Value == Keys \cup {None}
Jobs == [pc : {"idle", "get", "set", "empty", "update", "write", "leave", "dropMesh", "unlock"},
         key : Value, mesh : Meshes \cup {None}, value : Value, data : Value]

Types ==
    /\ mFreeItems \in Seq(Keys) /\ mBusyItems \in SUBSET Keys
    /\ mUseCount \in [Keys -> Int]
    /\ mUsedNavMeshDataSize \in Int /\ mFreeNavMeshDataSize \in Int
    /\ mUsedTiles \in [Meshes -> [Tiles -> Value]]
    /\ current \in Meshes
    /\ worker \in [Workers -> Jobs]
    /\ dropped \in [Threads -> SUBSET Keys]
    /\ released \in [Threads -> Value]

(* A tile has data of its own, and one thread at it.                       *)
TilesInv ==
    /\ \A m \in Meshes, t \in Tiles : mUsedTiles[m][t] # None => TileOf[mUsedTiles[m][t]] = t
    /\ \A v, w \in Workers :
         /\ worker[v].key # None /\ worker[w].key # None
         /\ TileOf[worker[v].key] = TileOf[worker[w].key]
         => v = w

(* What a job has a Value of is its own; what it reads, the Value or its   *)
(* tile has.                                                               *)
JobInv(w) ==
    LET job == worker[w]
    IN  /\ job.pc # "idle" => job.key # None
        /\ job.pc \notin {"idle", "unlock"} => job.mesh # None
        /\ job.value # None =>
             job.pc \in {"update", "write", "leave"} /\ job.value = job.key /\ job.data = job.key
        /\ job.data # None =>
             /\ job.pc \in {"update", "write", "leave"} /\ job.data = job.key
             /\ \/ job.value = job.data
                \/ job.pc # "update" /\ mUsedTiles[job.mesh][TileOf[job.key]] = job.data

(* An item is free or busy; it is busy when it is used or being released.  *)
ItemsInv ==
    /\ NoDuplicates(mFreeItems) /\ IsFiniteSet(mBusyItems)
    /\ Elements(mFreeItems) \cap mBusyItems = {}
    /\ \A k \in Keys : mUseCount[k] = UsesOf(k)
    /\ \A k \in Keys : k \in mBusyItems <=> mUseCount[k] > 0 \/ \E h \in Threads : released[h] = k
    /\ \A h \in Threads : released[h] # None => mUseCount[released[h]] = 0
    /\ \A h, i \in Threads : released[h] # None /\ released[h] = released[i] => h = i

SizesInv ==
    /\ mUsedNavMeshDataSize = Sum(mValues) /\ mUsedNavMeshDataSize <= mMaxNavMeshDataSize
    /\ mFreeNavMeshDataSize = Sum(Elements(mFreeItems))

CacheInv == Types /\ TilesInv /\ (\A w \in Workers : JobInv(w)) /\ ItemsInv /\ SizesInv

IInv == ~raced => CacheInv

-----------------------------------------------------------------------------
(* Sets and their sizes                                                    *)

One(b) == IF b THEN 1 ELSE 0

(* A set in which no element but x comes or goes.                          *)
LEMMA OneElement ==
    ASSUME NEW S, NEW T, NEW x, IsFiniteSet(S), T \ {x} = S \ {x}
    PROVE  /\ IsFiniteSet(T) /\ Cardinality(S) \in Nat
           /\ Cardinality(T) = Cardinality(S) - One(x \in S) + One(x \in T)
<1> DEFINE rest == S \ {x}
<1>1. IsFiniteSet(rest) /\ Cardinality(rest) = Cardinality(S) - One(x \in S)
  BY FS_RemoveElement, FS_CardinalityType DEF One
<1>2. Cardinality(S) \in Nat /\ Cardinality(rest) \in Nat
  BY <1>1, FS_CardinalityType
<1>3. CASE x \in T
  <2>1. T = rest \cup {x}
    BY <1>3
  <2>2. IsFiniteSet(T) /\ Cardinality(T) = Cardinality(rest) + 1
    BY <1>1, <2>1, FS_AddElement
  <2> HIDE DEF rest
  <2> QED BY <1>1, <1>2, <1>3, <2>2 DEF One
<1>4. CASE x \notin T
  <2>1. T = rest
    BY <1>4
  <2> HIDE DEF rest
  <2> QED BY <1>1, <1>2, <1>4, <2>1 DEF One
<1> QED BY <1>3, <1>4

LEMMA UnitsFinite ==
    ASSUME NEW S \in SUBSET Keys, IsFiniteSet(S)
    PROVE  IsFiniteSet(Units(S)) /\ Sum(S) \in Nat
<1> DEFINE Item(k) == {k} \X (1..SizeOf[k])
           items == {Item(k) : k \in S}
           f == [k \in S |-> Item(k)]
<1>1. f \in Surjection(S, items)
  BY DEF Surjection
<1>2. IsFiniteSet(items)
  BY <1>1, FS_Surjection
<1>3. ASSUME NEW k \in S PROVE IsFiniteSet(Item(k))
  <2>1. SizeOf[k] \in Int
    BY CacheAssumption
  <2>2. IsFiniteSet(1..SizeOf[k])
    BY <2>1, FS_Interval
  <2>3. IsFiniteSet({k})
    BY FS_Singleton
  <2> QED BY <2>2, <2>3, FS_Product
<1>4. \A T \in items : IsFiniteSet(T)
  BY <1>3
<1>5. Units(S) = UNION items
  BY DEF Units
<1> HIDE DEF items
<1>6. IsFiniteSet(UNION items)
  BY <1>2, <1>4, FS_UNION
<1> QED BY <1>5, <1>6, FS_CardinalityType DEF Sum

LEMMA SumOfOne ==
    ASSUME NEW k \in Keys
    PROVE  Sum({k}) = SizeOf[k] /\ SizeOf[k] \in Nat \ {0}
<1>1. SizeOf[k] \in Nat \ {0}
  BY CacheAssumption
<1>2. Units({k}) = {k} \X (1..SizeOf[k])
  BY DEF Units
<1>3. IsFiniteSet(1..SizeOf[k]) /\ Cardinality(1..SizeOf[k]) = SizeOf[k]
  BY <1>1, FS_Interval
<1>4. IsFiniteSet({k}) /\ Cardinality({k}) = 1
  BY FS_Singleton
<1>5. Cardinality({k} \X (1..SizeOf[k])) = 1 * SizeOf[k]
  BY <1>3, <1>4, FS_Product
<1>6. \A n \in Nat : 1 * n = n
  OBVIOUS
<1> QED BY <1>1, <1>2, <1>5, <1>6 DEF Sum

LEMMA SumOfBoth ==
    ASSUME NEW S \in SUBSET Keys, NEW T \in SUBSET Keys, IsFiniteSet(S), IsFiniteSet(T),
           S \cap T = {}
    PROVE  Sum(S \cup T) = Sum(S) + Sum(T)
<1>1. Units(S \cup T) = Units(S) \cup Units(T)
  BY DEF Units
<1>2. Units(S) \cap Units(T) = {}
  <2>1. \A p \in Units(S) : p[1] \in S
    BY DEF Units
  <2>2. \A p \in Units(T) : p[1] \in T
    BY DEF Units
  <2> QED BY <2>1, <2>2
<1>3. IsFiniteSet(Units(S)) /\ IsFiniteSet(Units(T)) /\ Sum(S) \in Nat /\ Sum(T) \in Nat
  BY UnitsFinite
<1>4. Cardinality(Units(S) \cup Units(T)) =
        Cardinality(Units(S)) + Cardinality(Units(T)) - Cardinality(Units(S) \cap Units(T))
  BY <1>3, FS_Union
<1>5. Cardinality(Units(S) \cap Units(T)) = 0
  BY <1>2, FS_EmptySet
<1> QED BY <1>1, <1>3, <1>4, <1>5 DEF Sum

LEMMA SumOfRest ==
    ASSUME NEW S \in SUBSET Keys, NEW T \in SUBSET S, IsFiniteSet(S)
    PROVE  Sum(S \ T) = Sum(S) - Sum(T) /\ IsFiniteSet(S \ T) /\ IsFiniteSet(T)
<1>1. IsFiniteSet(T) /\ IsFiniteSet(S \ T)
  BY FS_Subset
<1>2. (S \ T) \cup T = S /\ (S \ T) \cap T = {} /\ T \in SUBSET Keys /\ S \ T \in SUBSET Keys
  OBVIOUS
<1>3. Sum((S \ T) \cup T) = Sum(S \ T) + Sum(T)
  BY <1>1, <1>2, SumOfBoth
<1>4. Sum(S \ T) \in Nat /\ Sum(T) \in Nat
  BY <1>1, <1>2, UnitsFinite
<1>5. Sum(S) = Sum(S \ T) + Sum(T)
  BY <1>2, <1>3
<1> QED BY <1>1, <1>4, <1>5

LEMMA SumWithKey ==
    ASSUME NEW S \in SUBSET Keys, NEW k \in Keys \ S, IsFiniteSet(S)
    PROVE  Sum(S \cup {k}) = Sum(S) + SizeOf[k] /\ IsFiniteSet(S \cup {k})
<1>1. IsFiniteSet({k})
  BY FS_Singleton
<1>2. IsFiniteSet(S \cup {k})
  BY FS_AddElement
<1>3. S \cap {k} = {} /\ {k} \in SUBSET Keys
  OBVIOUS
<1>4. Sum(S \cup {k}) = Sum(S) + Sum({k})
  BY <1>1, <1>3, SumOfBoth
<1> QED BY <1>2, <1>4, SumOfOne

LEMMA MaxOfSet ==
    ASSUME NEW n \in Nat, NEW T \in SUBSET (0..n), T # {}
    PROVE  Max(T) \in T
<1> DEFINE below == {n - x : x \in T}
<1>1. below \subseteq Nat /\ below # {}
  <2>1. \A x \in T : n - x \in Nat
    OBVIOUS
  <2> QED BY <2>1
<1>2. PICK d \in below : \A e \in below : <<e, d>> \notin OpToRel(<, Nat)
  BY <1>1, WFMin, NatLessThanWellFounded, Zenon
<1>3. \A e \in below : ~(e < d)
  BY <1>1, <1>2, Zenon DEF OpToRel
<1>4. PICK x \in T : d = n - x
  OBVIOUS
<1>5. \A y \in T : x >= y
  <2> TAKE y \in T
  <2>1. n - y \in below
    OBVIOUS
  <2>2. ~(n - y < n - x)
    BY <1>3, <1>4, <2>1
  <2> QED BY <2>2
<1> QED BY <1>5 DEF Max

-----------------------------------------------------------------------------
(* Lists of items                                                          *)

LEMMA ElementsFinite ==
    ASSUME NEW s \in Seq(Keys)
    PROVE  IsFiniteSet(Elements(s)) /\ Elements(s) \in SUBSET Keys
<1>1. Len(s) \in Nat /\ DOMAIN s = 1..Len(s) /\ \A i \in 1..Len(s) : s[i] \in Keys
  BY LenProperties, ElementOfSeq
<1> DEFINE f == [i \in 1..Len(s) |-> s[i]]
<1>2. f \in Surjection(1..Len(s), Elements(s))
  BY <1>1 DEF Surjection, Elements
<1>3. IsFiniteSet(1..Len(s))
  BY <1>1, FS_Interval
<1> QED BY <1>1, <1>2, <1>3, FS_Surjection DEF Elements

(* Any part of a list has different elements.                              *)
LEMMA PartOfList ==
    ASSUME NEW s \in Seq(Keys), NoDuplicates(s), NEW a \in 1..Len(s) + 1, NEW b \in 0..Len(s),
           a <= b + 1
    PROVE  /\ SubSeq(s, a, b) \in Seq(Keys) /\ NoDuplicates(SubSeq(s, a, b))
           /\ Elements(SubSeq(s, a, b)) = {s[i] : i \in a..b}
<1> DEFINE part == SubSeq(s, a, b)
<1>1. /\ Len(s) \in Nat /\ DOMAIN s = 1..Len(s) /\ a \in Int /\ b \in Int
      /\ \A i \in a..b : i \in 1..Len(s)
  BY LenProperties
<1>2. \A i \in a..b : s[i] \in Keys
  BY <1>1, ElementOfSeq
<1>3. /\ part \in Seq(Keys) /\ Len(part) = b - a + 1
      /\ \A i \in 1..b - a + 1 : part[i] = s[a + i - 1]
  BY <1>1, <1>2, SubSeqProperties
<1> HIDE DEF part
<1>4. DOMAIN part = 1..b - a + 1
  BY <1>3, LenProperties
<1>5. \A i \in 1..b - a + 1 : a + i - 1 \in a..b
  BY <1>1
<1>6. \A i \in a..b : i - a + 1 \in 1..b - a + 1 /\ a + (i - a + 1) - 1 = i
  BY <1>1
<1>7. Elements(part) = {s[i] : i \in a..b}
  <2>1. ASSUME NEW e \in Elements(part) PROVE e \in {s[i] : i \in a..b}
    BY <1>3, <1>4, <1>5 DEF Elements
  <2>2. ASSUME NEW i \in a..b PROVE s[i] \in Elements(part)
    <3>1. part[i - a + 1] = s[i] /\ i - a + 1 \in DOMAIN part
      BY <1>3, <1>4, <1>6
    <3> QED BY <3>1 DEF Elements
  <2> QED BY <2>1, <2>2
<1>8. ASSUME NEW i \in DOMAIN part, NEW k \in DOMAIN part, part[i] = part[k]
      PROVE  i = k
  <2>1. s[a + i - 1] = s[a + k - 1] /\ a + i - 1 \in DOMAIN s /\ a + k - 1 \in DOMAIN s
    BY <1>1, <1>3, <1>4, <1>5, <1>8
  <2>2. a + i - 1 = a + k - 1
    BY <2>1 DEF NoDuplicates
  <2> QED BY <1>1, <1>4, <2>2
<1> QED BY <1>3, <1>7, <1>8 DEF NoDuplicates, part

LEMMA JoinedLists ==
    ASSUME NEW s \in Seq(Keys), NEW u \in Seq(Keys), NoDuplicates(s), NoDuplicates(u),
           Elements(s) \cap Elements(u) = {}
    PROVE  /\ s \o u \in Seq(Keys) /\ NoDuplicates(s \o u)
           /\ Elements(s \o u) = Elements(s) \cup Elements(u)
<1> DEFINE t == s \o u
<1>1. /\ t \in Seq(Keys) /\ Len(t) = Len(s) + Len(u)
      /\ \A i \in 1..Len(s) + Len(u) : t[i] = IF i <= Len(s) THEN s[i] ELSE u[i - Len(s)]
      /\ Len(s) \in Nat /\ Len(u) \in Nat
  BY ConcatProperties, LenProperties
<1>2. DOMAIN t = 1..Len(s) + Len(u) /\ DOMAIN s = 1..Len(s) /\ DOMAIN u = 1..Len(u)
  BY <1>1, LenProperties
<1> HIDE DEF t
<1>3. ASSUME NEW i \in DOMAIN s PROVE i \in DOMAIN t /\ t[i] = s[i]
  BY <1>1, <1>2
<1>4. ASSUME NEW i \in DOMAIN u PROVE Len(s) + i \in DOMAIN t /\ t[Len(s) + i] = u[i]
  BY <1>1, <1>2
<1>5. ASSUME NEW i \in DOMAIN t
      PROVE  \/ i \in DOMAIN s /\ t[i] = s[i]
             \/ i - Len(s) \in DOMAIN u /\ t[i] = u[i - Len(s)]
  BY <1>1, <1>2
<1>6. Elements(t) = Elements(s) \cup Elements(u)
  BY <1>3, <1>4, <1>5 DEF Elements
<1>7. ASSUME NEW i \in DOMAIN t, NEW k \in DOMAIN t, t[i] = t[k]
      PROVE  i = k
  <2>1. \A a \in DOMAIN s, b \in DOMAIN u : s[a] # u[b]
    BY DEF Elements
  <2>2. CASE i \in DOMAIN s /\ t[i] = s[i] /\ k \in DOMAIN s /\ t[k] = s[k]
    BY <1>7, <2>2 DEF NoDuplicates
  <2>3. CASE /\ i - Len(s) \in DOMAIN u /\ t[i] = u[i - Len(s)]
             /\ k - Len(s) \in DOMAIN u /\ t[k] = u[k - Len(s)]
    <3>1. i - Len(s) = k - Len(s)
      BY <1>7, <2>3 DEF NoDuplicates
    <3> QED BY <1>1, <1>2, <3>1
  <2> QED BY <1>5, <1>7, <2>1, <2>2, <2>3
<1> QED BY <1>1, <1>6, <1>7 DEF t, NoDuplicates

LEMMA LinkedItem ==
    ASSUME NEW s \in Seq(Keys), NEW k \in Keys \ Elements(s), NoDuplicates(s)
    PROVE  /\ <<k>> \o s \in Seq(Keys) /\ NoDuplicates(<<k>> \o s)
           /\ Elements(<<k>> \o s) = Elements(s) \cup {k}
<1> DEFINE one == <<k>>
<1>1. one \in Seq(Keys) /\ NoDuplicates(one) /\ Elements(one) = {k}
  BY DEF NoDuplicates, Elements
<1> HIDE DEF one
<1>2. Elements(one) \cap Elements(s) = {}
  BY <1>1
<1>3. /\ one \o s \in Seq(Keys) /\ NoDuplicates(one \o s)
      /\ Elements(one \o s) = Elements(one) \cup Elements(s)
  BY <1>1, <1>2, JoinedLists
<1> QED BY <1>1, <1>3 DEF one

LEMMA UnlinkedItem ==
    ASSUME NEW s \in Seq(Keys), NEW k \in Elements(s), NoDuplicates(s)
    PROVE  /\ Unlinked(s, k) \in Seq(Keys) /\ NoDuplicates(Unlinked(s, k))
           /\ Elements(Unlinked(s, k)) = Elements(s) \ {k}
<1>1. Len(s) \in Nat /\ DOMAIN s = 1..Len(s)
  BY LenProperties
<1>2. PICK i \in 1..Len(s) : s[i] = k /\ Unlinked(s, k) = RemoveAt(s, i)
  <2>1. \E i \in DOMAIN s : s[i] = k
    BY DEF Elements
  <2> QED BY <1>1, <2>1 DEF Unlinked
<1> DEFINE left == SubSeq(s, 1, i - 1)
           right == SubSeq(s, i + 1, Len(s))
<1>3. /\ left \in Seq(Keys) /\ NoDuplicates(left)
      /\ Elements(left) = {s[j] : j \in 1..i - 1}
  <2>1. 1 \in 1..Len(s) + 1 /\ i - 1 \in 0..Len(s) /\ 1 <= (i - 1) + 1
    BY <1>1
  <2> QED BY <2>1, PartOfList
<1>4. /\ right \in Seq(Keys) /\ NoDuplicates(right)
      /\ Elements(right) = {s[j] : j \in i + 1..Len(s)}
  <2>1. i + 1 \in 1..Len(s) + 1 /\ Len(s) \in 0..Len(s) /\ i + 1 <= Len(s) + 1
    BY <1>1
  <2> QED BY <2>1, PartOfList
<1>5. \A j, l \in 1..Len(s) : s[j] = s[l] => j = l
  BY <1>1 DEF NoDuplicates
<1>6. Unlinked(s, k) = left \o right
  BY <1>2 DEF RemoveAt
<1> HIDE DEF left, right
<1>7. \A j \in 1..i - 1 : j \in 1..Len(s) /\ j # i /\ j \notin i + 1..Len(s)
  BY <1>1
<1>8. \A j \in i + 1..Len(s) : j \in 1..Len(s) /\ j # i /\ j \notin 1..i - 1
  BY <1>1
<1>9. Elements(left) \cap Elements(right) = {}
  BY <1>3, <1>4, <1>5, <1>7, <1>8
<1>10. Elements(left) \cup Elements(right) = Elements(s) \ {k}
  <2>1. Elements(s) = {s[j] : j \in 1..Len(s)}
    BY <1>1 DEF Elements
  <2>2. \A j \in 1..Len(s) : j = i \/ j \in 1..i - 1 \/ j \in i + 1..Len(s)
    BY <1>1
  <2>3. ASSUME NEW e \in Elements(left) \cup Elements(right) PROVE e \in Elements(s) \ {k}
    BY <1>2, <1>3, <1>4, <1>5, <1>7, <1>8, <2>1
  <2>4. ASSUME NEW e \in Elements(s) \ {k} PROVE e \in Elements(left) \cup Elements(right)
    BY <1>2, <1>3, <1>4, <2>1, <2>2
  <2> QED BY <2>3, <2>4
<1> QED BY <1>3, <1>4, <1>6, <1>9, <1>10, JoinedLists

-----------------------------------------------------------------------------
(* Who refers to an item                                                   *)

InTiles(k) == {p \in Meshes \X Tiles : mUsedTiles[p[1]][p[2]] = k}
InJobs(k) == {w \in Workers : worker[w].value = k}
InDrops(k) == {h \in Threads : k \in dropped[h]}

LEMMA UsesFinite ==
    ASSUME NEW k
    PROVE  /\ IsFiniteSet(InTiles(k)) /\ IsFiniteSet(InJobs(k)) /\ IsFiniteSet(InDrops(k))
           /\ Cardinality(InTiles(k)) \in Nat /\ Cardinality(InJobs(k)) \in Nat
           /\ Cardinality(InDrops(k)) \in Nat
           /\ UsesOf(k) = Cardinality(InTiles(k)) + Cardinality(InJobs(k))
                          + Cardinality(InDrops(k))
<1>1. IsFiniteSet(Meshes \X Tiles) /\ IsFiniteSet(Workers)
  BY CacheAssumption, FS_Product
<1>2. IsFiniteSet(Threads)
  BY <1>1, FS_AddElement DEF Threads
<1>3. /\ InTiles(k) \in SUBSET (Meshes \X Tiles) /\ InJobs(k) \in SUBSET Workers
      /\ InDrops(k) \in SUBSET Threads
  BY DEF InTiles, InJobs, InDrops
<1>4. IsFiniteSet(InTiles(k)) /\ IsFiniteSet(InJobs(k)) /\ IsFiniteSet(InDrops(k))
  BY <1>1, <1>2, <1>3, FS_Subset
<1>5. /\ Cardinality(InTiles(k)) \in Nat /\ Cardinality(InJobs(k)) \in Nat
      /\ Cardinality(InDrops(k)) \in Nat
  BY <1>4, FS_CardinalityType
<1> QED BY <1>4, <1>5 DEF UsesOf, InTiles, InJobs, InDrops

LEMMA UsesAfter ==
    ASSUME NEW k
    PROVE  UsesOf(k)' = Cardinality(InTiles(k)') + Cardinality(InJobs(k)')
                        + Cardinality(InDrops(k)')
  BY DEF UsesOf, InTiles, InJobs, InDrops

(* One tile, one job and one thread at most are different after a step.    *)
LEMMA TilesCount ==
    ASSUME NEW k, NEW m \in Meshes, NEW t \in Tiles,
           \A n \in Meshes, u \in Tiles :
             n # m \/ u # t => (mUsedTiles'[n][u] = k <=> mUsedTiles[n][u] = k)
    PROVE  Cardinality(InTiles(k)') = Cardinality(InTiles(k))
              - One(mUsedTiles[m][t] = k) + One(mUsedTiles'[m][t] = k)
<1> DEFINE S == InTiles(k)
           T == InTiles(k)'
           p == <<m, t>>
<1>1. T \ {p} = S \ {p}
  <2>1. \A q \in Meshes \X Tiles : q # p => (q \in T <=> q \in S)
    BY DEF InTiles
  <2>2. S \subseteq Meshes \X Tiles /\ T \subseteq Meshes \X Tiles
    BY DEF InTiles
  <2> QED BY <2>1, <2>2
<1>2. p \in S <=> mUsedTiles[m][t] = k
  BY DEF InTiles
<1>3. p \in T <=> mUsedTiles'[m][t] = k
  BY DEF InTiles
<1>4. IsFiniteSet(S)
  BY UsesFinite
<1> HIDE DEF S, T, p
<1>5. Cardinality(T) = Cardinality(S) - One(p \in S) + One(p \in T)
  BY <1>1, <1>4, OneElement
<1>6. Cardinality(T) = Cardinality(S) - One(mUsedTiles[m][t] = k) + One(mUsedTiles'[m][t] = k)
  BY <1>2, <1>3, <1>5 DEF One
<1> QED BY <1>6 DEF S, T

LEMMA JobsCount ==
    ASSUME NEW k, NEW w \in Workers,
           \A v \in Workers : v # w => (worker'[v].value = k <=> worker[v].value = k)
    PROVE  Cardinality(InJobs(k)') = Cardinality(InJobs(k))
              - One(worker[w].value = k) + One(worker'[w].value = k)
<1> DEFINE S == InJobs(k)
           T == InJobs(k)'
<1>1. T \ {w} = S \ {w}
  BY DEF InJobs
<1>2. w \in S <=> worker[w].value = k
  BY DEF InJobs
<1>3. w \in T <=> worker'[w].value = k
  BY DEF InJobs
<1>4. IsFiniteSet(S)
  BY UsesFinite
<1> HIDE DEF S, T
<1>5. Cardinality(T) = Cardinality(S) - One(w \in S) + One(w \in T)
  BY <1>1, <1>4, OneElement
<1>6. Cardinality(T) = Cardinality(S) - One(worker[w].value = k) + One(worker'[w].value = k)
  BY <1>2, <1>3, <1>5 DEF One
<1> QED BY <1>6 DEF S, T

LEMMA DropsCount ==
    ASSUME NEW k, NEW h \in Threads,
           \A i \in Threads : i # h => (k \in dropped'[i] <=> k \in dropped[i])
    PROVE  Cardinality(InDrops(k)') = Cardinality(InDrops(k))
              - One(k \in dropped[h]) + One(k \in dropped'[h])
<1> DEFINE S == InDrops(k)
           T == InDrops(k)'
<1>1. T \ {h} = S \ {h}
  BY DEF InDrops
<1>2. h \in S <=> k \in dropped[h]
  BY DEF InDrops
<1>3. h \in T <=> k \in dropped'[h]
  BY DEF InDrops
<1>4. IsFiniteSet(S)
  BY UsesFinite
<1> HIDE DEF S, T
<1>5. Cardinality(T) = Cardinality(S) - One(h \in S) + One(h \in T)
  BY <1>1, <1>4, OneElement
<1>6. Cardinality(T) = Cardinality(S) - One(k \in dropped[h]) + One(k \in dropped'[h])
  BY <1>2, <1>3, <1>5 DEF One
<1> QED BY <1>6 DEF S, T

(* Of a step that leaves tiles, jobs or drops as they are, or the Values   *)
(* that the jobs have.                                                     *)
LEMMA SameUses ==
    ASSUME NEW k
    PROVE  /\ UNCHANGED mUsedTiles => InTiles(k)' = InTiles(k)
           /\ (\A w \in Workers : worker'[w].value = worker[w].value) => InJobs(k)' = InJobs(k)
           /\ UNCHANGED dropped => InDrops(k)' = InDrops(k)
  BY DEF InTiles, InJobs, InDrops

-----------------------------------------------------------------------------
(* The cache gains a use of an item                                        *)

LEMMA CountFacts ==
    ASSUME CacheInv, NEW k \in Keys
    PROVE  /\ mUseCount[k] \in Nat
           /\ mUseCount[k] > 0 => k \in mBusyItems /\ \A h \in Threads : released[h] # k
           /\ k \notin mBusyItems => mUseCount[k] = 0 /\ \A h \in Threads : released[h] # k
<1>1. UsesOf(k) \in Nat
  BY UsesFinite
<1>2. None \notin Keys
  BY CacheAssumption
<1> QED BY <1>1, <1>2 DEF CacheInv, ItemsInv

LEMMA SizeFacts ==
    ASSUME CacheInv
    PROVE  /\ Elements(mFreeItems) \in SUBSET Keys /\ IsFiniteSet(Elements(mFreeItems))
           /\ mBusyItems \in SUBSET Keys /\ IsFiniteSet(mBusyItems)
           /\ Elements(mFreeItems) \cap mBusyItems = {}
           /\ mValues = Elements(mFreeItems) \cup mBusyItems
           /\ IsFiniteSet(mValues) /\ mValues \in SUBSET Keys
           /\ mUsedNavMeshDataSize = Sum(mValues) /\ mUsedNavMeshDataSize \in Nat
           /\ mFreeNavMeshDataSize = Sum(Elements(mFreeItems)) /\ mFreeNavMeshDataSize \in Nat
<1>1. Elements(mFreeItems) \in SUBSET Keys /\ IsFiniteSet(Elements(mFreeItems))
  BY ElementsFinite DEF CacheInv, Types
<1>2. mBusyItems \in SUBSET Keys /\ IsFiniteSet(mBusyItems)
  BY DEF CacheInv, Types, ItemsInv
<1>3. IsFiniteSet(mValues) /\ mValues \in SUBSET Keys
  BY <1>1, <1>2, FS_Union DEF mValues
<1>4. Sum(mValues) \in Nat /\ Sum(Elements(mFreeItems)) \in Nat
  BY <1>1, <1>3, UnitsFinite
<1> QED BY <1>1, <1>2, <1>3, <1>4 DEF CacheInv, ItemsInv, SizesInv, mValues

(* After E was evicted, k has one use more.                                *)
Gained(k, E) ==
    /\ mFreeItems' \in Seq(Keys) /\ NoDuplicates(mFreeItems')
    /\ Elements(mFreeItems') = (Elements(mFreeItems) \ E) \ {k}
    /\ mBusyItems' = mBusyItems \cup {k}
    /\ mUseCount' = [mUseCount EXCEPT ![k] = @ + 1]
    /\ \A h \in Threads : released[h] # k
    /\ mUsedNavMeshDataSize' = Sum(Elements(mFreeItems') \cup mBusyItems')
    /\ mUsedNavMeshDataSize' <= mMaxNavMeshDataSize
    /\ mFreeNavMeshDataSize' = Sum(Elements(mFreeItems'))

LEMMA AcquireGains ==
    ASSUME CacheInv, NEW k \in Keys, NEW E \in SUBSET Elements(mFreeItems),
           NEW free \in Seq(Keys), NoDuplicates(free), NEW size, size = Sum(Elements(free)),
           Elements(free) = Elements(mFreeItems) \ E, k \in mValues \ E,
           Acquire(k, free, size), ~raced',
           mUsedNavMeshDataSize' = mUsedNavMeshDataSize - Sum(E)
    PROVE  Gained(k, E)
<1> DEFINE A == Elements(mFreeItems)
           B == mBusyItems
           F == Elements(free)
<1>1. /\ A \in SUBSET Keys /\ IsFiniteSet(A) /\ B \in SUBSET Keys /\ IsFiniteSet(B)
      /\ A \cap B = {} /\ mValues = A \cup B /\ IsFiniteSet(A \cup B)
      /\ mUsedNavMeshDataSize = Sum(A \cup B) /\ mUsedNavMeshDataSize \in Nat
  BY SizeFacts
<1>2. mUsedNavMeshDataSize' = Sum((A \cup B) \ E) /\ E \in SUBSET (A \cup B)
  BY <1>1, SumOfRest
<1>3. Sum(E) \in Nat
  BY <1>1, SumOfRest, UnitsFinite
<1>4. mUsedNavMeshDataSize' <= mMaxNavMeshDataSize
  BY <1>1, <1>3, CacheAssumption DEF CacheInv, SizesInv
<1>5. F \in SUBSET Keys /\ IsFiniteSet(F) /\ F = A \ E /\ (A \cup B) \ E = F \cup B
  BY <1>1, ElementsFinite
<1>6. CASE mUseCount[k] > 0
  <2>1. k \in B /\ k \notin F /\ \A h \in Threads : released[h] # k
    BY <1>1, <1>5, <1>6, CountFacts
  <2>2. /\ mFreeItems' = free /\ mFreeNavMeshDataSize' = size /\ mBusyItems' = B
        /\ mUseCount' = [mUseCount EXCEPT ![k] = @ + 1]
    BY <1>6 DEF Acquire
  <2>3. F \ {k} = F /\ B \cup {k} = B
    BY <2>1
  <2> QED BY <1>2, <1>4, <1>5, <2>1, <2>2, <2>3 DEF Gained
<1>7. CASE ~(mUseCount[k] > 0)
  <2>1. /\ mFreeItems' = Unlinked(free, k) /\ mFreeNavMeshDataSize' = size - SizeOf[k]
        /\ mBusyItems' = B \cup {k} /\ mUseCount' = [mUseCount EXCEPT ![k] = @ + 1]
        /\ k \in F
    BY <1>7 DEF Acquire
  <2>2. /\ mFreeItems' \in Seq(Keys) /\ NoDuplicates(mFreeItems')
        /\ Elements(mFreeItems') = F \ {k}
    BY <2>1, UnlinkedItem
  <2>3. \A h \in Threads : released[h] # k
    BY <1>1, <1>5, <2>1, CountFacts
  <2>4. Sum(F \ {k}) = Sum(F) - SizeOf[k]
    <3>1. {k} \in SUBSET F /\ Sum({k}) = SizeOf[k]
      BY <2>1, SumOfOne
    <3>2. Sum(F \ {k}) = Sum(F) - Sum({k})
      BY <1>5, <3>1, SumOfRest
    <3> QED BY <3>1, <3>2
  <2>5. (F \ {k}) \cup (B \cup {k}) = F \cup B
    BY <2>1
  <2> QED BY <1>2, <1>4, <1>5, <2>1, <2>2, <2>3, <2>4, <2>5 DEF Gained
<1> QED BY <1>6, <1>7

(* The items that make room for k.                                         *)
LEMMA EvictedItems ==
    ASSUME CacheInv, NEW k \in Keys, Fits(k)
    PROVE  /\ Kept(k) \in Seq(Keys) /\ NoDuplicates(Kept(k))
           /\ Evicted(k) \in SUBSET Elements(mFreeItems)
           /\ Elements(Kept(k)) = Elements(mFreeItems) \ Evicted(k)
           /\ mUsedNavMeshDataSize - Sum(Evicted(k)) + SizeOf[k] <= mMaxNavMeshDataSize
<1> DEFINE A == Elements(mFreeItems)
           len == Len(mFreeItems)
           enough(n) == mUsedNavMeshDataSize + SizeOf[k]
                          <= mMaxNavMeshDataSize + Sum(Elements(Rest(n)))
           T == {0} \cup {n \in 1..len : enough(n)}
           kept == SubSeq(mFreeItems, 1, Max(T))
<1>1. Kept(k) = kept
  BY DEF Kept
<1>2. /\ mFreeItems \in Seq(Keys) /\ NoDuplicates(mFreeItems) /\ len \in Nat
      /\ DOMAIN mFreeItems = 1..len /\ A = {mFreeItems[i] : i \in 1..len}
  BY LenProperties DEF CacheInv, Types, ItemsInv, Elements
<1> HIDE DEF enough
<1>3. Max(T) \in T
  <2>1. T \in SUBSET (0..len) /\ T # {}
    BY <1>2
  <2> HIDE DEF T
  <2> QED BY <1>2, <2>1, MaxOfSet
<1> DEFINE m == Max(T)
<1>4. m \in 0..len /\ (m # 0 => enough(m))
  BY <1>2, <1>3
<1> HIDE DEF T, m, len
<1>5. /\ kept \in Seq(Keys) /\ NoDuplicates(kept)
      /\ Elements(kept) = {mFreeItems[i] : i \in 1..m}
  <2>1. 1 \in 1..len + 1 /\ 1 <= m + 1
    BY <1>2, <1>4
  <2>2. /\ SubSeq(mFreeItems, 1, m) \in Seq(Keys) /\ NoDuplicates(SubSeq(mFreeItems, 1, m))
        /\ Elements(SubSeq(mFreeItems, 1, m)) = {mFreeItems[i] : i \in 1..m}
    BY <1>2, <1>4, <2>1, PartOfList DEF len
  <2> QED BY <2>2 DEF m
<1>6. Elements(Rest(m)) = {mFreeItems[i] : i \in m + 1..len}
  <2>1. m + 1 \in 1..len + 1 /\ len \in 0..len /\ m + 1 <= len + 1
    BY <1>2, <1>4
  <2> QED BY <1>2, <2>1, PartOfList DEF len, Rest
<1>7. A \ Elements(kept) = Elements(Rest(m)) /\ Elements(kept) \subseteq A
  <2>1. \A i \in 1..m : i \in 1..len /\ i \notin m + 1..len
    BY <1>2, <1>4
  <2>2. \A i \in m + 1..len : i \in 1..len /\ i \notin 1..m
    BY <1>2, <1>4
  <2>3. \A i \in 1..len : i \in 1..m \/ i \in m + 1..len
    BY <1>2, <1>4
  <2>4. \A i, j \in 1..len : mFreeItems[i] = mFreeItems[j] => i = j
    BY <1>2 DEF NoDuplicates
  <2>5. Elements(kept) \subseteq A
    BY <1>2, <1>5, <2>1
  <2>6. ASSUME NEW e \in A \ Elements(kept) PROVE e \in Elements(Rest(m))
    BY <1>2, <1>5, <1>6, <2>3
  <2>7. ASSUME NEW e \in Elements(Rest(m)) PROVE e \in A \ Elements(kept)
    BY <1>2, <1>5, <1>6, <2>1, <2>2, <2>4
  <2> QED BY <2>5, <2>6, <2>7
<1>8. Evicted(k) = Elements(Rest(m)) /\ Elements(kept) = A \ Evicted(k)
  BY <1>1, <1>7 DEF Evicted
<1>9. /\ mUsedNavMeshDataSize \in Nat /\ mFreeNavMeshDataSize \in Nat /\ SizeOf[k] \in Nat
      /\ mMaxNavMeshDataSize \in Nat /\ mFreeNavMeshDataSize = Sum(A)
  BY SizeFacts, SumOfOne, CacheAssumption
<1>10. Sum(Evicted(k)) \in Nat
  <2>1. A \in SUBSET Keys /\ IsFiniteSet(A) /\ Evicted(k) \in SUBSET A
    BY SizeFacts DEF Evicted
  <2> QED BY <2>1, SumOfRest, UnitsFinite
<1>11. mUsedNavMeshDataSize + SizeOf[k] <= mMaxNavMeshDataSize + Sum(Evicted(k))
  <2>1. CASE m = 0
    <3>1. Evicted(k) = A
      BY <1>2, <1>6, <1>8, <2>1
    <3> QED BY <1>9, <3>1 DEF Fits
  <2>2. CASE m # 0
    BY <1>4, <1>8, <2>2 DEF enough
  <2> QED BY <2>1, <2>2
<1> QED BY <1>1, <1>5, <1>7, <1>8, <1>9, <1>10, <1>11

LEMMA InsertGains ==
    ASSUME CacheInv, NEW k \in Keys, Fits(k), Insert(k), ~raced'
    PROVE  Gained(k, Evicted(k))
<1> DEFINE A == Elements(mFreeItems)
           B == mBusyItems
           E == Evicted(k)
           free == Kept(k)
<1>1. /\ free \in Seq(Keys) /\ NoDuplicates(free) /\ E \in SUBSET A /\ Elements(free) = A \ E
      /\ mUsedNavMeshDataSize - Sum(E) + SizeOf[k] <= mMaxNavMeshDataSize
  BY EvictedItems
<1>2. /\ A \in SUBSET Keys /\ IsFiniteSet(A) /\ B \in SUBSET Keys /\ IsFiniteSet(B)
      /\ A \cap B = {} /\ mValues = A \cup B /\ IsFiniteSet(A \cup B)
      /\ mUsedNavMeshDataSize = Sum(A \cup B) /\ mFreeNavMeshDataSize = Sum(A)
  BY SizeFacts
<1>3. Sum(A \ E) = Sum(A) - Sum(E) /\ IsFiniteSet(A \ E)
  BY <1>1, <1>2, SumOfRest
<1>4. CASE k \in mValues \ E
  <2>1. /\ mUsedNavMeshDataSize' = mUsedNavMeshDataSize - Sum(E)
        /\ Acquire(k, free, mFreeNavMeshDataSize - Sum(E))
    BY <1>4 DEF Insert
  <2> HIDE DEF E, free
  <2> DEFINE size == mFreeNavMeshDataSize - Sum(E)
  <2>2. size = Sum(Elements(free))
    BY <1>1, <1>2, <1>3
  <2> HIDE DEF size
  <2>3. Acquire(k, free, size)
    BY <2>1 DEF size
  <2>4. Gained(k, E)
    BY <1>1, <1>4, <2>1, <2>2, <2>3, AcquireGains
  <2> QED BY <2>4 DEF E
<1>5. CASE k \notin mValues \ E
  <2>1. /\ mUsedNavMeshDataSize' = mUsedNavMeshDataSize - Sum(E) + SizeOf[k]
        /\ mFreeNavMeshDataSize' = mFreeNavMeshDataSize - Sum(E)
        /\ mFreeItems' = free /\ mBusyItems' = B \cup {k}
        /\ mUseCount' = [mUseCount EXCEPT ![k] = 1]
    BY <1>5 DEF Insert
  <2>2. k \notin B /\ k \notin A \ E
    BY <1>1, <1>2, <1>5
  <2>3. mUseCount[k] = 0 /\ \A h \in Threads : released[h] # k
    BY <2>2, CountFacts
  <2>4. mUseCount' = [mUseCount EXCEPT ![k] = @ + 1]
    BY <2>1, <2>3 DEF CacheInv, Types
  <2> HIDE DEF E, free
  <2>5. Elements(free) = (A \ E) \ {k}
    BY <1>1, <2>2
  <2>6. (A \ E) \cup B = (A \cup B) \ E /\ E \in SUBSET (A \cup B)
    BY <1>1, <1>2
  <2>7. Sum((A \ E) \cup B) = Sum(A \cup B) - Sum(E) /\ IsFiniteSet((A \ E) \cup B)
    BY <1>2, <2>6, SumOfRest
  <2>8. Sum(((A \ E) \cup B) \cup {k}) = Sum((A \ E) \cup B) + SizeOf[k]
    BY <1>2, <2>2, <2>7, SumWithKey
  <2>9. Elements(free) \cup (B \cup {k}) = ((A \ E) \cup B) \cup {k}
    BY <1>1
  <2>10. mUsedNavMeshDataSize' = Sum(Elements(mFreeItems') \cup mBusyItems')
    BY <1>2, <2>1, <2>7, <2>8, <2>9
  <2>11. mFreeNavMeshDataSize' = Sum(Elements(mFreeItems'))
    BY <1>1, <1>2, <1>3, <2>1
  <2>12. Gained(k, E)
    BY <1>1, <2>1, <2>3, <2>4, <2>5, <2>10, <2>11 DEF Gained
  <2> QED BY <2>12 DEF E
<1> QED BY <1>4, <1>5

LEMMA GainedNext ==
    ASSUME CacheInv, NEW k \in Keys, NEW E, Gained(k, E), UNCHANGED released,
           \A j \in Keys : UsesOf(j)' = UsesOf(j) + One(j = k)
    PROVE  ItemsInv' /\ SizesInv'
<1>1. IsFiniteSet(mBusyItems') /\ mBusyItems' = mBusyItems \cup {k}
  BY FS_AddElement, SizeFacts DEF Gained
<1>2. NoDuplicates(mFreeItems') /\ Elements(mFreeItems') \cap mBusyItems' = {}
  BY SizeFacts DEF Gained
<1>3. \A j \in Keys : mUseCount'[j] = mUseCount[j] + One(j = k)
  BY DEF Gained, One, CacheInv, Types
<1>4. \A j \in Keys : mUseCount'[j] = UsesOf(j)'
  BY <1>3 DEF CacheInv, ItemsInv
<1>5. mUseCount'[k] > 0 /\ \A j \in Keys : j # k => mUseCount'[j] = mUseCount[j]
  BY <1>3, CountFacts DEF One
<1>6. \A j \in Keys : j \in mBusyItems' <=>
        mUseCount'[j] > 0 \/ \E h \in Threads : released'[h] = j
  BY <1>1, <1>5 DEF CacheInv, ItemsInv
<1>7. \A h \in Threads : released'[h] # None => mUseCount'[released'[h]] = 0
  <2> SUFFICES ASSUME NEW h \in Threads, released[h] # None
               PROVE  mUseCount'[released[h]] = 0
    OBVIOUS
  <2>1. released[h] \in Keys /\ released[h] # k
    BY DEF CacheInv, Types, Value, Gained
  <2> QED BY <1>5, <2>1 DEF CacheInv, ItemsInv
<1>8. \A h, i \in Threads : released'[h] # None /\ released'[h] = released'[i] => h = i
  BY DEF CacheInv, ItemsInv
<1>9. SizesInv'
  BY DEF Gained, SizesInv, mValues
<1> QED BY <1>1, <1>2, <1>4, <1>6, <1>7, <1>8, <1>9 DEF ItemsInv

LEMMA MovedNext ==
    ASSUME CacheInv, UNCHANGED <<cacheVars, released>>,
           \A j \in Keys : UsesOf(j)' = UsesOf(j)
    PROVE  ItemsInv' /\ SizesInv'
  BY DEF CacheInv, ItemsInv, SizesInv, mValues, cacheVars

-----------------------------------------------------------------------------
(* Steps of the jobs                                                       *)

LEMMA JobFacts ==
    ASSUME CacheInv, NEW w \in Workers
    PROVE  /\ worker[w] \in Jobs /\ JobInv(w) /\ w \in Threads
           /\ None \notin Keys /\ None \notin Meshes
           /\ dropped[w] \in SUBSET Keys
  BY CacheAssumption DEF CacheInv, Types, Threads

(* The jobs of other threads, when nobody changes the tile they read.      *)
LEMMA OtherJobs ==
    ASSUME CacheInv, NEW w,
           \A v \in Workers \ {w} : worker'[v] = worker[v],
           \A v \in Workers \ {w} : worker[v].data # None =>
             mUsedTiles'[worker[v].mesh][TileOf[worker[v].key]]
               = mUsedTiles[worker[v].mesh][TileOf[worker[v].key]]
    PROVE  \A v \in Workers \ {w} : JobInv(v)'
<1> TAKE v \in Workers \ {w}
<1>1. JobInv(v) /\ worker'[v] = worker[v]
  BY DEF CacheInv
<1> QED BY <1>1 DEF JobInv

(* A thread keeps its tile from others.                                    *)
LEMMA OwnTile ==
    ASSUME CacheInv, NEW w \in Workers, worker'[w].key \in {worker[w].key, None},
           \A v \in Workers \ {w} : worker'[v] = worker[v]
    PROVE  \A u, v \in Workers :
             /\ worker'[u].key # None /\ worker'[v].key # None
             /\ TileOf[worker'[u].key] = TileOf[worker'[v].key]
             => u = v
<1>1. \A v \in Workers : worker'[v].key # None => worker'[v].key = worker[v].key
  OBVIOUS
<1> QED BY <1>1 DEF CacheInv, TilesInv

(* Steps that change one job only, and not what it has a Value of.         *)
LEMMA QuietJob ==
    ASSUME CacheInv, NEW w \in Workers, NEW job \in Jobs,
           worker' = [worker EXCEPT ![w] = job], job.value = worker[w].value,
           UNCHANGED <<cacheVars, mUsedTiles, current, dropped, released>>
    PROVE  /\ Types' /\ ItemsInv' /\ SizesInv'
           /\ \A v \in Workers \ {w} : JobInv(v)'
           /\ worker'[w] = job
<1>1. worker \in [Workers -> Jobs]
  BY DEF CacheInv, Types
<1>2. worker' \in [Workers -> Jobs] /\ worker'[w] = job
      /\ \A v \in Workers \ {w} : worker'[v] = worker[v]
  BY <1>1
<1>3. \A v \in Workers : worker'[v].value = worker[v].value
  BY <1>2
<1>4. \A j \in Keys : UsesOf(j)' = UsesOf(j)
  BY <1>3, SameUses, UsesFinite, UsesAfter
<1>5. ItemsInv' /\ SizesInv'
  BY <1>4, MovedNext
<1>6. \A v \in Workers \ {w} : JobInv(v)'
  BY <1>2, OtherJobs
<1>7. Types'
  BY <1>2 DEF CacheInv, Types, cacheVars
<1> QED BY <1>2, <1>5, <1>6, <1>7

LEMMA StartJobNext ==
    ASSUME CacheInv, NEW w \in Workers, NEW k \in Keys, StartJob(w, k)
    PROVE  CacheInv'
<1>1. PICK m \in Meshes, pc \in {"get", "set", "empty"} :
        worker' = [worker EXCEPT ![w] = [Idle EXCEPT !.pc = pc, !.key = k, !.mesh = m]]
  BY DEF StartJob
<1> DEFINE job == [Idle EXCEPT !.pc = pc, !.key = k, !.mesh = m]
<1>2. /\ job \in Jobs /\ job.pc = pc /\ job.key = k /\ job.mesh = m
      /\ job.value = None /\ job.data = None
  BY DEF Idle, Jobs, Value
<1>3. /\ worker[w].pc = "idle" /\ TileOf[k] \notin ProcessingTiles
      /\ UNCHANGED <<cacheVars, mUsedTiles, current, dropped, released>>
  BY DEF StartJob, At
<1>4. worker[w].value = None
  BY <1>3, JobFacts DEF JobInv
<1> HIDE DEF job
<1>5. /\ Types' /\ ItemsInv' /\ SizesInv' /\ worker'[w] = job
      /\ \A v \in Workers \ {w} : JobInv(v)'
  BY <1>1, <1>2, <1>3, <1>4, QuietJob DEF job
<1>6. JobInv(w)'
  BY <1>2, <1>5, JobFacts DEF JobInv
<1>7. TilesInv'
  <2>1. \A v \in Workers \ {w} : worker'[v] = worker[v]
    BY <1>1 DEF CacheInv, Types
  <2>2. \A v \in Workers \ {w} : worker[v].key # None => TileOf[worker[v].key] # TileOf[k]
    BY <1>3 DEF ProcessingTiles
  <2>3. \A u, v \in Workers :
          /\ worker'[u].key # None /\ worker'[v].key # None
          /\ TileOf[worker'[u].key] = TileOf[worker'[v].key]
          => u = v
    <3> SUFFICES ASSUME NEW u \in Workers, NEW v \in Workers,
                        worker'[u].key # None, worker'[v].key # None,
                        TileOf[worker'[u].key] = TileOf[worker'[v].key]
                 PROVE  u = v
      OBVIOUS
    <3>1. CASE u # w /\ v # w
      BY <2>1, <3>1 DEF CacheInv, TilesInv
    <3>2. CASE u = w \/ v = w
      BY <1>2, <1>5, <2>1, <2>2, <3>2
    <3> QED BY <3>1, <3>2
  <2> QED BY <1>3, <2>3 DEF CacheInv, TilesInv
<1> QED BY <1>5, <1>6, <1>7 DEF CacheInv

(* Steps that only go on.                                                  *)
LEMMA GotoNext ==
    ASSUME CacheInv, NEW w \in Workers,
           NEW pc \in {"get", "set", "empty", "update", "write", "leave"}, Goto(w, pc),
           UNCHANGED <<cacheVars, mUsedTiles, current, dropped, released>>,
           worker[w].pc \notin {"idle", "unlock"},
           worker[w].data # None =>
             /\ pc \in {"write", "leave"} /\ worker[w].pc \in {"update", "write"}
    PROVE  CacheInv'
<1> DEFINE job == [worker[w] EXCEPT !.pc = pc]
<1>1. worker[w] \in Jobs /\ JobInv(w)
  BY JobFacts
<1>2. /\ job \in Jobs /\ job.pc = pc /\ job.key = worker[w].key /\ job.mesh = worker[w].mesh
      /\ job.value = worker[w].value /\ job.data = worker[w].data
  BY <1>1 DEF Jobs
<1>3. worker' = [worker EXCEPT ![w] = job]
  BY DEF Goto, CacheInv, Types
<1> HIDE DEF job
<1>4. /\ Types' /\ ItemsInv' /\ SizesInv' /\ worker'[w] = job
      /\ \A v \in Workers \ {w} : JobInv(v)'
  BY <1>2, <1>3, QuietJob
<1>5. JobInv(w)'
  <2>1. worker[w].value # None => worker[w].data # None
    BY <1>1, JobFacts DEF JobInv
  <2>2. worker'[w].value # None => pc \in {"write", "leave"} /\ worker[w].value = worker[w].key
                                   /\ worker[w].data = worker[w].key
    BY <1>1, <1>2, <1>4, <2>1 DEF JobInv
  <2>3. worker'[w].data # None =>
          /\ pc \in {"write", "leave"} /\ worker[w].data = worker[w].key
          /\ \/ worker[w].value = worker[w].data
             \/ mUsedTiles[worker[w].mesh][TileOf[worker[w].key]] = worker[w].data
    BY <1>1, <1>2, <1>4 DEF JobInv
  <2>4. worker'[w].key # None /\ worker'[w].mesh # None
    BY <1>1, <1>2, <1>4 DEF JobInv
  <2> QED BY <1>2, <1>4, <2>2, <2>3, <2>4 DEF JobInv
<1>6. TilesInv'
  <2>1. \A v \in Workers \ {w} : worker'[v] = worker[v]
    BY <1>3 DEF CacheInv, Types
  <2> QED BY <1>2, <1>4, <2>1, OwnTile DEF CacheInv, TilesInv
<1> QED BY <1>4, <1>5, <1>6 DEF CacheInv

(* A job gets a Value of its own key.                                      *)
LEMMA ValueNext ==
    ASSUME CacheInv, NEW w \in Workers, NEW k \in Keys, k = worker[w].key, NEW E, Gained(k, E),
           worker[w].pc \in {"get", "set"},
           worker' = [worker EXCEPT ![w].pc = "update", ![w].value = k, ![w].data = k],
           UNCHANGED <<mUsedTiles, current, dropped, released>>
    PROVE  CacheInv'
<1> DEFINE job == [worker[w] EXCEPT !.pc = "update", !.value = k, !.data = k]
<1>1. worker[w] \in Jobs /\ JobInv(w) /\ worker \in [Workers -> Jobs]
      /\ None \notin Keys /\ None \notin Meshes
  BY JobFacts DEF CacheInv, Types
<1>2. /\ job \in Jobs /\ job.pc = "update" /\ job.key = k /\ job.mesh = worker[w].mesh
      /\ job.value = k /\ job.data = k
  BY <1>1 DEF Jobs, Value
<1>3. worker' = [worker EXCEPT ![w] = job]
  BY <1>1
<1> HIDE DEF job
<1>4. /\ worker' \in [Workers -> Jobs] /\ worker'[w] = job
      /\ \A v \in Workers \ {w} : worker'[v] = worker[v]
  BY <1>1, <1>2, <1>3
<1>5. worker[w].value = None
  BY <1>1 DEF JobInv
<1>6. ASSUME NEW j \in Keys
      PROVE  UsesOf(j)' = UsesOf(j) + One(j = k)
  <2>1. InTiles(j)' = InTiles(j) /\ InDrops(j)' = InDrops(j)
    BY SameUses
  <2>2. \A v \in Workers : v # w => (worker'[v].value = j <=> worker[v].value = j)
    BY <1>4
  <2>3. Cardinality(InJobs(j)') = Cardinality(InJobs(j))
          - One(worker[w].value = j) + One(worker'[w].value = j)
    BY <2>2, JobsCount
  <2>4. One(worker[w].value = j) = 0 /\ One(worker'[w].value = j) = One(j = k)
    BY <1>1, <1>2, <1>4, <1>5 DEF One
  <2>5. One(j = k) \in Nat
    BY DEF One
  <2> QED BY <2>1, <2>3, <2>4, <2>5, UsesFinite, UsesAfter
<1>7. ItemsInv' /\ SizesInv'
  BY <1>6, GainedNext
<1>8. \A v \in Workers \ {w} : JobInv(v)'
  BY <1>4, OtherJobs
<1>9. JobInv(w)'
  BY <1>1, <1>2, <1>4 DEF JobInv
<1>10. TilesInv'
  BY <1>2, <1>4, OwnTile DEF CacheInv, TilesInv
<1>11. Types'
  <2>1. mUseCount' \in [Keys -> Int]
    BY DEF Gained, CacheInv, Types
  <2>2. mBusyItems' \in SUBSET Keys /\ mFreeItems' \in Seq(Keys)
    BY DEF Gained, CacheInv, Types
  <2>3. IsFiniteSet(Elements(mFreeItems')) /\ Elements(mFreeItems') \in SUBSET Keys
    BY <2>2, ElementsFinite
  <2>4. IsFiniteSet(mBusyItems')
    BY <1>7 DEF ItemsInv
  <2>5. IsFiniteSet(Elements(mFreeItems') \cup mBusyItems')
    BY <2>3, <2>4, FS_Union
  <2>6. mUsedNavMeshDataSize' \in Int /\ mFreeNavMeshDataSize' \in Int
    BY <2>2, <2>3, <2>5, UnitsFinite DEF Gained
  <2> QED BY <1>4, <2>1, <2>2, <2>6 DEF CacheInv, Types
<1> QED BY <1>7, <1>8, <1>9, <1>10, <1>11 DEF CacheInv

LEMMA GetNext ==
    ASSUME CacheInv, NEW w \in Workers, Get(w), ~raced'
    PROVE  CacheInv'
<1>1. worker[w].pc = "get" /\ worker[w].key # None /\ worker[w].key \in Value
      /\ worker[w].data = None
  BY JobFacts DEF Get, At, JobInv, Jobs
<1>2. PICK k \in Keys : k = worker[w].key
  BY <1>1 DEF Value
<1>3. CASE k \in mValues
  <2>1. /\ Acquire(k, mFreeItems, mFreeNavMeshDataSize)
        /\ worker' = [worker EXCEPT ![w].pc = "update", ![w].value = k, ![w].data = k]
        /\ UNCHANGED <<mUsedNavMeshDataSize, mUsedTiles, current, dropped, released>>
    BY <1>2, <1>3 DEF Get
  <2>2. Sum({}) = 0
    <3>1. Units({}) = {}
      BY DEF Units
    <3> QED BY <3>1, FS_EmptySet DEF Sum
  <2>3. /\ mFreeItems \in Seq(Keys) /\ NoDuplicates(mFreeItems)
        /\ mFreeNavMeshDataSize = Sum(Elements(mFreeItems))
        /\ mUsedNavMeshDataSize' = mUsedNavMeshDataSize - Sum({})
    BY <2>1, <2>2, SizeFacts DEF CacheInv, Types, ItemsInv
  <2>4. {} \in SUBSET Elements(mFreeItems) /\ k \in mValues \ {}
        /\ Elements(mFreeItems) = Elements(mFreeItems) \ {}
    BY <1>3
  <2>5. Gained(k, {})
    BY <2>1, <2>3, <2>4, AcquireGains
  <2> QED BY <1>1, <1>2, <2>1, <2>5, ValueNext
<1>4. CASE k \notin mValues
  <2>1. PICK pc \in {"leave", "set", "update", "empty"} : Goto(w, pc)
    BY <1>2, <1>4 DEF Get
  <2>2. UNCHANGED <<cacheVars, mUsedTiles, current, dropped, released>>
    BY <1>2, <1>4 DEF Get, cacheVars
  <2> QED BY <1>1, <2>1, <2>2, GotoNext
<1> QED BY <1>3, <1>4

LEMMA SetNext ==
    ASSUME CacheInv, NEW w \in Workers, Set(w), ~raced'
    PROVE  CacheInv'
<1>1. worker[w].pc = "set" /\ worker[w].key # None /\ worker[w].key \in Value
      /\ worker[w].data = None
  BY JobFacts DEF Set, At, JobInv, Jobs
<1>2. PICK k \in Keys : k = worker[w].key
  BY <1>1 DEF Value
<1>3. CASE Fits(k)
  <2>1. /\ Insert(k)
        /\ worker' = [worker EXCEPT ![w].pc = "update", ![w].value = k, ![w].data = k]
        /\ UNCHANGED <<mUsedTiles, current, dropped, released>>
    BY <1>2, <1>3 DEF Set
  <2>2. Gained(k, Evicted(k))
    BY <1>3, <2>1, InsertGains
  <2> QED BY <1>1, <1>2, <2>1, <2>2, ValueNext
<1>4. CASE ~Fits(k)
  BY <1>1, <1>2, <1>4, GotoNext DEF Set
<1> QED BY <1>3, <1>4
(* A job gives its tile data or none and destroys what the tile had.       *)
LEMMA TileNext ==
    ASSUME CacheInv, NEW w \in Workers, NEW k \in {worker[w].key, None}, ReplaceTile(w, k),
           dropped[w] = {}, worker[w].pc \in {"update", "empty"},
           NEW job \in Jobs, worker' = [worker EXCEPT ![w] = job], job.pc \in {"write", "leave"},
           job.key = worker[w].key, job.mesh = worker[w].mesh, job.data = worker[w].data,
           job.value = IF k = None THEN worker[w].value ELSE None,
           k # None => worker[w].value = k,
           k = None => worker[w].value = worker[w].data,
           UNCHANGED <<cacheVars, current, released>>
    PROVE  CacheInv'
<1>1. PICK m \in Meshes : m = worker[w].mesh
  BY JobFacts DEF JobInv, Jobs
<1>2. PICK key \in Keys : key = worker[w].key
  BY JobFacts DEF JobInv, Jobs, Value
<1>3. PICK t \in Tiles : t = TileOf[key]
  BY CacheAssumption
<1>4. PICK old \in Value : old = mUsedTiles[m][t]
  BY DEF CacheInv, Types
<1>5. /\ k \in Value /\ None \notin Keys /\ w \in Threads /\ JobInv(w)
      /\ mUsedTiles \in [Meshes -> [Tiles -> Value]] /\ worker \in [Workers -> Jobs]
      /\ dropped \in [Threads -> SUBSET Keys]
  BY <1>2, JobFacts DEF CacheInv, Types, Value
<1>6. /\ mUsedTiles' = [mUsedTiles EXCEPT ![m][t] = k]
      /\ dropped' = [dropped EXCEPT ![w] = {old} \ {None}]
  BY <1>1, <1>2, <1>3, <1>4 DEF ReplaceTile
<1>7. /\ mUsedTiles' \in [Meshes -> [Tiles -> Value]] /\ mUsedTiles'[m][t] = k
      /\ \A n \in Meshes, u \in Tiles :
           n # m \/ u # t => mUsedTiles'[n][u] = mUsedTiles[n][u]
  BY <1>5, <1>6
<1>8. /\ dropped' \in [Threads -> SUBSET Keys] /\ dropped'[w] = {old} \ {None}
      /\ \A h \in Threads : h # w => dropped'[h] = dropped[h]
  BY <1>4, <1>5, <1>6 DEF Value
<1>9. /\ worker' \in [Workers -> Jobs] /\ worker'[w] = job
      /\ \A v \in Workers \ {w} : worker'[v] = worker[v]
  BY <1>5
<1>10. ASSUME NEW j \in Keys
       PROVE  UsesOf(j)' = UsesOf(j)
  <2>1. Cardinality(InTiles(j)') = Cardinality(InTiles(j)) - One(old = j) + One(k = j)
    BY <1>4, <1>7, TilesCount
  <2>2. Cardinality(InDrops(j)') = Cardinality(InDrops(j)) + One(old = j)
    <3>1. Cardinality(InDrops(j)') = Cardinality(InDrops(j))
            - One(j \in dropped[w]) + One(j \in dropped'[w])
      BY <1>5, <1>8, DropsCount
    <3>2. One(j \in dropped[w]) = 0 /\ One(j \in dropped'[w]) = One(old = j)
      BY <1>5, <1>8 DEF One
    <3> QED BY <3>1, <3>2, UsesFinite DEF One
  <2>3. Cardinality(InJobs(j)') = Cardinality(InJobs(j)) - One(k = j)
    <3>1. Cardinality(InJobs(j)') = Cardinality(InJobs(j))
            - One(worker[w].value = j) + One(worker'[w].value = j)
      BY <1>9, JobsCount
    <3>2. CASE k = None
      BY <1>5, <1>9, <3>1, <3>2, UsesFinite DEF One
    <3>3. CASE k # None
      BY <1>5, <1>9, <3>1, <3>3, UsesFinite DEF One
    <3> QED BY <3>2, <3>3
  <2>4. One(old = j) \in Nat /\ One(k = j) \in Nat
    BY DEF One
  <2> QED BY <2>1, <2>2, <2>3, <2>4, UsesFinite, UsesAfter
<1>11. ItemsInv' /\ SizesInv'
  BY <1>10, MovedNext
<1>12. \A v \in Workers \ {w} : JobInv(v)'
  <2> SUFFICES ASSUME NEW v \in Workers \ {w}, worker[v].data # None
               PROVE  mUsedTiles'[worker[v].mesh][TileOf[worker[v].key]]
                        = mUsedTiles[worker[v].mesh][TileOf[worker[v].key]]
    BY <1>9, OtherJobs
  <2>1. worker[v].key \in Keys /\ worker[v].mesh \in Meshes
    BY JobFacts DEF JobInv, Jobs, Value
  <2>2. TileOf[worker[v].key] # t /\ TileOf[worker[v].key] \in Tiles
    BY <1>2, <1>3, <1>5, <2>1, CacheAssumption DEF CacheInv, TilesInv
  <2> QED BY <1>7, <2>1, <2>2
<1>13. JobInv(w)'
  BY <1>1, <1>2, <1>3, <1>5, <1>7, <1>9, JobFacts DEF JobInv
<1>14. TilesInv'
  <2>1. \A n \in Meshes, u \in Tiles :
          mUsedTiles'[n][u] # None => TileOf[mUsedTiles'[n][u]] = u
    BY <1>2, <1>3, <1>7 DEF CacheInv, TilesInv
  <2> QED BY <1>9, <2>1, OwnTile DEF TilesInv
<1>15. Types'
  BY <1>7, <1>8, <1>9 DEF CacheInv, Types, cacheVars
<1> QED BY <1>11, <1>12, <1>13, <1>14, <1>15 DEF CacheInv

LEMMA UpdateTileNext ==
    ASSUME CacheInv, NEW w \in Workers, UpdateTile(w)
    PROVE  CacheInv'
<1>1. /\ worker[w].pc = "update" /\ dropped[w] = {} /\ worker[w] \in Jobs /\ JobInv(w)
      /\ UNCHANGED <<cacheVars, current, released>> /\ worker \in [Workers -> Jobs]
      /\ None \notin Keys
  BY JobFacts DEF UpdateTile, At, IsThrough, CacheInv, Types
<1>2. worker[w].value = worker[w].data /\ worker[w].value \in {worker[w].key, None}
  BY <1>1 DEF JobInv
<1>3. CASE /\ ReplaceTile(w, worker[w].value)
           /\ worker' = [worker EXCEPT ![w].pc = "write", ![w].value = None]
  <2> DEFINE job == [worker[w] EXCEPT !.pc = "write", !.value = None]
  <2>1. PICK k \in {worker[w].key, None} : k = worker[w].value
    BY <1>2
  <2>2. /\ job \in Jobs /\ job.pc = "write" /\ job.key = worker[w].key
        /\ job.mesh = worker[w].mesh /\ job.data = worker[w].data /\ job.value = None
    BY <1>1 DEF Jobs, Value
  <2>3. worker' = [worker EXCEPT ![w] = job] /\ ReplaceTile(w, k)
    BY <1>1, <1>3, <2>1
  <2> HIDE DEF job
  <2>4. job.value = IF k = None THEN worker[w].value ELSE None
    BY <2>1, <2>2
  <2> QED BY <1>1, <1>2, <2>1, <2>2, <2>3, <2>4, TileNext
<1>4. CASE ReplaceTile(w, None) /\ Goto(w, "leave")
  <2> DEFINE job == [worker[w] EXCEPT !.pc = "leave"]
  <2>1. /\ job \in Jobs /\ job.pc = "leave" /\ job.key = worker[w].key
        /\ job.mesh = worker[w].mesh /\ job.data = worker[w].data
        /\ job.value = worker[w].value
    BY <1>1 DEF Jobs
  <2>2. worker' = [worker EXCEPT ![w] = job]
    BY <1>1, <1>4 DEF Goto
  <2> HIDE DEF job
  <2> QED BY <1>1, <1>2, <1>4, <2>1, <2>2, TileNext
<1>5. CASE \E pc \in {"write", "leave"} : Goto(w, pc) /\ UNCHANGED <<mUsedTiles, dropped>>
  BY <1>1, <1>5, GotoNext
<1> QED BY <1>3, <1>4, <1>5 DEF UpdateTile

LEMMA MarkAsEmptyNext ==
    ASSUME CacheInv, NEW w \in Workers, MarkAsEmpty(w)
    PROVE  CacheInv'
<1>1. /\ worker[w].pc = "empty" /\ dropped[w] = {} /\ worker[w] \in Jobs /\ JobInv(w)
      /\ UNCHANGED <<cacheVars, current, released>> /\ worker \in [Workers -> Jobs]
      /\ Goto(w, "leave")
  BY JobFacts DEF MarkAsEmpty, At, IsThrough, CacheInv, Types
<1>2. worker[w].value = None /\ worker[w].data = None
  BY <1>1 DEF JobInv
<1>3. CASE ReplaceTile(w, None)
  <2> DEFINE job == [worker[w] EXCEPT !.pc = "leave"]
  <2>1. /\ job \in Jobs /\ job.pc = "leave" /\ job.key = worker[w].key
        /\ job.mesh = worker[w].mesh /\ job.data = worker[w].data
        /\ job.value = worker[w].value
    BY <1>1 DEF Jobs
  <2>2. worker' = [worker EXCEPT ![w] = job]
    BY <1>1 DEF Goto
  <2> HIDE DEF job
  <2> QED BY <1>1, <1>2, <1>3, <2>1, <2>2, TileNext
<1>4. CASE UNCHANGED <<mUsedTiles, dropped>>
  BY <1>1, <1>2, <1>4, GotoNext
<1> QED BY <1>3, <1>4 DEF MarkAsEmpty

LEMMA CopyGeneratedNext ==
    ASSUME CacheInv, NEW w \in Workers, CopyGenerated(w)
    PROVE  CacheInv'
  BY GotoNext DEF CopyGenerated, At
LEMMA LeaveNext ==
    ASSUME CacheInv, NEW w \in Workers, Leave(w)
    PROVE  CacheInv'
<1> DEFINE job == [worker[w] EXCEPT !.pc = "dropMesh", !.value = None, !.data = None]
<1>1. /\ dropped[w] = {} /\ worker[w] \in Jobs /\ JobInv(w) /\ w \in Threads
      /\ UNCHANGED <<cacheVars, mUsedTiles, current, released>> /\ worker \in [Workers -> Jobs]
      /\ worker[w].pc \in {"leave", "get", "set", "update", "empty"} /\ None \notin Keys
      /\ dropped \in [Threads -> SUBSET Keys]
  BY JobFacts DEF Leave, IsThrough, CacheInv, Types
<1>2. /\ job \in Jobs /\ job.pc = "dropMesh" /\ job.key = worker[w].key
      /\ job.mesh = worker[w].mesh /\ job.value = None /\ job.data = None
  BY <1>1 DEF Jobs, Value
<1>3. worker' = [worker EXCEPT ![w] = job]
  BY <1>1 DEF Leave
<1> HIDE DEF job
<1>4. /\ worker' \in [Workers -> Jobs] /\ worker'[w] = job
      /\ \A v \in Workers \ {w} : worker'[v] = worker[v]
  BY <1>1, <1>2, <1>3
<1>5. PICK k \in Value : k = worker[w].value
  BY <1>1 DEF Jobs
<1>6. /\ dropped' \in [Threads -> SUBSET Keys] /\ dropped'[w] = {k} \ {None}
      /\ \A h \in Threads : h # w => dropped'[h] = dropped[h]
  BY <1>1, <1>5 DEF Leave, Value
<1>7. ASSUME NEW j \in Keys
      PROVE  UsesOf(j)' = UsesOf(j)
  <2>1. InTiles(j)' = InTiles(j)
    BY <1>1, SameUses
  <2>2. Cardinality(InDrops(j)') = Cardinality(InDrops(j)) + One(k = j)
    <3>1. Cardinality(InDrops(j)') = Cardinality(InDrops(j))
            - One(j \in dropped[w]) + One(j \in dropped'[w])
      BY <1>1, <1>6, DropsCount
    <3>2. One(j \in dropped[w]) = 0 /\ One(j \in dropped'[w]) = One(k = j)
      BY <1>1, <1>6 DEF One
    <3> QED BY <3>1, <3>2, UsesFinite DEF One
  <2>3. Cardinality(InJobs(j)') = Cardinality(InJobs(j)) - One(k = j)
    <3>1. Cardinality(InJobs(j)') = Cardinality(InJobs(j))
            - One(worker[w].value = j) + One(worker'[w].value = j)
      BY <1>4, JobsCount
    <3>2. One(worker'[w].value = j) = 0
      BY <1>1, <1>2, <1>4 DEF One
    <3> QED BY <1>5, <3>1, <3>2, UsesFinite DEF One
  <2>4. One(k = j) \in Nat
    BY DEF One
  <2> QED BY <2>1, <2>2, <2>3, <2>4, UsesFinite, UsesAfter
<1>8. ItemsInv' /\ SizesInv'
  BY <1>1, <1>7, MovedNext
<1>9. \A v \in Workers \ {w} : JobInv(v)'
  BY <1>1, <1>4, OtherJobs
<1>10. JobInv(w)'
  BY <1>1, <1>2, <1>4 DEF JobInv
<1>11. TilesInv'
  BY <1>1, <1>2, <1>4, OwnTile DEF CacheInv, TilesInv
<1>12. Types'
  BY <1>1, <1>4, <1>6 DEF CacheInv, Types, cacheVars
<1> QED BY <1>8, <1>9, <1>10, <1>11, <1>12 DEF CacheInv

(* The Values of a mesh go with it, one of a key at most.                  *)
LEMMA DroppedMesh ==
    ASSUME CacheInv, NEW h \in Threads, NEW m \in Meshes, DropMesh(h, m), dropped[h] = {},
           \A w \in Workers : worker'[w].value = worker[w].value,
           UNCHANGED <<cacheVars, released>>
    PROVE  /\ ItemsInv' /\ SizesInv'
           /\ mUsedTiles' \in [Meshes -> [Tiles -> Value]]
           /\ dropped' \in [Threads -> SUBSET Keys]
           /\ \A n \in Meshes, t \in Tiles :
                mUsedTiles'[n][t] = IF n = m THEN None ELSE mUsedTiles[n][t]
<1>1. /\ mUsedTiles \in [Meshes -> [Tiles -> Value]] /\ dropped \in [Threads -> SUBSET Keys]
      /\ None \notin Keys
  BY CacheAssumption DEF CacheInv, Types
<1>2. /\ mUsedTiles' \in [Meshes -> [Tiles -> Value]]
      /\ \A n \in Meshes, t \in Tiles :
           mUsedTiles'[n][t] = IF n = m THEN None ELSE mUsedTiles[n][t]
  BY <1>1 DEF DropMesh, Value
<1>3. /\ dropped' \in [Threads -> SUBSET Keys]
      /\ dropped'[h] = {mUsedTiles[m][t] : t \in Tiles} \ {None}
      /\ \A i \in Threads : i # h => dropped'[i] = dropped[i]
  BY <1>1 DEF DropMesh, Value
<1>4. ASSUME NEW j \in Keys
      PROVE  UsesOf(j)' = UsesOf(j)
  <2>1. PICK t \in Tiles : t = TileOf[j]
    BY CacheAssumption
  <2>2. \A u \in Tiles : mUsedTiles[m][u] = j => u = t
    BY <1>1, <2>1 DEF CacheInv, TilesInv
  <2>3. Cardinality(InTiles(j)') = Cardinality(InTiles(j)) - One(mUsedTiles[m][t] = j)
    <3>1. Cardinality(InTiles(j)') = Cardinality(InTiles(j))
            - One(mUsedTiles[m][t] = j) + One(mUsedTiles'[m][t] = j)
      BY <1>1, <1>2, <2>2, TilesCount
    <3>2. One(mUsedTiles'[m][t] = j) = 0
      BY <1>1, <1>2 DEF One
    <3> QED BY <3>1, <3>2, UsesFinite DEF One
  <2>4. Cardinality(InDrops(j)') = Cardinality(InDrops(j)) + One(mUsedTiles[m][t] = j)
    <3>1. Cardinality(InDrops(j)') = Cardinality(InDrops(j))
            - One(j \in dropped[h]) + One(j \in dropped'[h])
      BY <1>3, DropsCount
    <3>2. j \in dropped'[h] <=> mUsedTiles[m][t] = j
      BY <1>1, <1>3, <2>2
    <3>3. One(j \in dropped[h]) = 0 /\ One(j \in dropped'[h]) = One(mUsedTiles[m][t] = j)
      BY <3>2 DEF One
    <3> QED BY <3>1, <3>3, UsesFinite DEF One
  <2>5. InJobs(j)' = InJobs(j)
    BY SameUses
  <2>6. One(mUsedTiles[m][t] = j) \in Nat
    BY DEF One
  <2> QED BY <2>3, <2>4, <2>5, <2>6, UsesFinite, UsesAfter
<1>5. ItemsInv' /\ SizesInv'
  BY <1>4, MovedNext
<1> QED BY <1>2, <1>3, <1>5

LEMMA LeaveMeshNext ==
    ASSUME CacheInv, NEW w \in Workers, LeaveMesh(w)
    PROVE  CacheInv'
<1> DEFINE job == [worker[w] EXCEPT !.pc = "unlock", !.mesh = None]
<1>1. /\ worker[w].pc = "dropMesh" /\ dropped[w] = {} /\ worker[w] \in Jobs /\ JobInv(w)
      /\ w \in Threads /\ worker \in [Workers -> Jobs] /\ None \notin Meshes
      /\ UNCHANGED <<cacheVars, current, released>>
  BY JobFacts DEF LeaveMesh, At, IsThrough, CacheInv, Types
<1>2. PICK m \in Meshes : m = worker[w].mesh
  BY <1>1 DEF JobInv, Jobs
<1>3. /\ job \in Jobs /\ job.pc = "unlock" /\ job.key = worker[w].key
      /\ job.mesh = None /\ job.value = worker[w].value /\ job.data = worker[w].data
  BY <1>1 DEF Jobs
<1>4. worker' = [worker EXCEPT ![w] = job]
  BY <1>1 DEF LeaveMesh
<1> HIDE DEF job
<1>5. /\ worker' \in [Workers -> Jobs] /\ worker'[w] = job
      /\ \A v \in Workers \ {w} : worker'[v] = worker[v]
  BY <1>1, <1>3, <1>4
<1>6. JobInv(w)'
  BY <1>1, <1>3, <1>5 DEF JobInv
<1>7. CASE m # current /\ \A v \in Workers \ {w} : worker[v].mesh # m
  <2>1. DropMesh(w, m)
    BY <1>2, <1>7 DEF LeaveMesh
  <2>2. \A v \in Workers : worker'[v].value = worker[v].value
    BY <1>3, <1>5
  <2>3. /\ ItemsInv' /\ SizesInv'
        /\ mUsedTiles' \in [Meshes -> [Tiles -> Value]]
        /\ dropped' \in [Threads -> SUBSET Keys]
        /\ \A n \in Meshes, t \in Tiles :
             mUsedTiles'[n][t] = IF n = m THEN None ELSE mUsedTiles[n][t]
    BY <1>1, <2>1, <2>2, DroppedMesh
  <2>4. \A v \in Workers \ {w} : JobInv(v)'
    <3> SUFFICES ASSUME NEW v \in Workers \ {w}, worker[v].data # None
                 PROVE  mUsedTiles'[worker[v].mesh][TileOf[worker[v].key]]
                          = mUsedTiles[worker[v].mesh][TileOf[worker[v].key]]
      BY <1>5, OtherJobs
    <3>1. worker[v].key \in Keys /\ worker[v].mesh \in Meshes
      BY JobFacts DEF JobInv, Jobs, Value
    <3>2. TileOf[worker[v].key] \in Tiles
      BY <3>1, CacheAssumption
    <3> QED BY <1>7, <2>3, <3>1, <3>2
  <2>5. TilesInv'
    <3>1. \A n \in Meshes, u \in Tiles :
            mUsedTiles'[n][u] # None => TileOf[mUsedTiles'[n][u]] = u
      BY <2>3 DEF CacheInv, TilesInv
    <3> QED BY <1>3, <1>5, <3>1, OwnTile DEF TilesInv
  <2>6. Types'
    BY <1>1, <1>5, <2>3 DEF CacheInv, Types, cacheVars
  <2> QED BY <1>6, <2>3, <2>4, <2>5, <2>6 DEF CacheInv
<1>8. CASE ~(m # current /\ \A v \in Workers \ {w} : worker[v].mesh # m)
  <2>1. UNCHANGED <<mUsedTiles, dropped>>
    BY <1>2, <1>8 DEF LeaveMesh
  <2>2. Types' /\ ItemsInv' /\ SizesInv' /\ \A v \in Workers \ {w} : JobInv(v)'
    BY <1>1, <1>3, <1>4, <2>1, QuietJob
  <2>3. TilesInv'
    BY <1>3, <1>5, <2>1, OwnTile DEF CacheInv, TilesInv
  <2> QED BY <1>6, <2>2, <2>3 DEF CacheInv
<1> QED BY <1>7, <1>8

LEMMA UnlockTileNext ==
    ASSUME CacheInv, NEW w \in Workers, UnlockTile(w)
    PROVE  CacheInv'
<1>1. /\ worker[w].pc = "unlock" /\ JobInv(w) /\ worker \in [Workers -> Jobs]
      /\ worker' = [worker EXCEPT ![w] = Idle]
      /\ UNCHANGED <<cacheVars, mUsedTiles, current, dropped, released>>
  BY JobFacts DEF UnlockTile, At, CacheInv, Types
<1>2. /\ Idle \in Jobs /\ Idle.value = worker[w].value /\ Idle.key = None
      /\ Idle.pc = "idle" /\ Idle.value = None /\ Idle.data = None
  BY <1>1 DEF Idle, Jobs, JobInv, Value
<1>3. /\ Types' /\ ItemsInv' /\ SizesInv' /\ worker'[w] = Idle
      /\ \A v \in Workers \ {w} : JobInv(v)'
  BY <1>1, <1>2, QuietJob
<1>4. JobInv(w)'
  BY <1>2, <1>3 DEF JobInv
<1>5. TilesInv'
  <2>1. \A v \in Workers \ {w} : worker'[v] = worker[v]
    BY <1>1
  <2> QED BY <1>1, <1>2, <1>3, <2>1, OwnTile DEF CacheInv, TilesInv
<1> QED BY <1>3, <1>4, <1>5 DEF CacheInv

LEMMA ReplaceMeshNext ==
    ASSUME CacheInv, ReplaceMesh
    PROVE  CacheInv'
<1>1. /\ Main \in Threads /\ Main \notin Workers /\ dropped[Main] = {} /\ current \in Meshes
      /\ current' \in Meshes /\ UNCHANGED <<cacheVars, worker, released>>
  BY CacheAssumption DEF ReplaceMesh, IsThrough, Threads, CacheInv, Types
<1>2. CASE \E w \in Workers : worker[w].mesh = current
  <2>1. UNCHANGED <<mUsedTiles, dropped>>
    BY <1>2 DEF ReplaceMesh
  <2>2. \A j \in Keys : UsesOf(j)' = UsesOf(j)
    BY <1>1, <2>1 DEF UsesOf
  <2>3. ItemsInv' /\ SizesInv'
    BY <1>1, <2>2, MovedNext
  <2>4. \A v \in Workers : JobInv(v)'
    BY <1>1, <2>1 DEF CacheInv, JobInv
  <2>5. TilesInv'
    BY <1>1, <2>1 DEF CacheInv, TilesInv
  <2>6. Types'
    BY <1>1, <2>1 DEF CacheInv, Types, cacheVars
  <2> QED BY <2>3, <2>4, <2>5, <2>6 DEF CacheInv
<1>3. CASE ~(\E w \in Workers : worker[w].mesh = current)
  <2>1. PICK m \in Meshes : m = current
    BY <1>1
  <2>2. DropMesh(Main, m)
    BY <1>3, <2>1 DEF ReplaceMesh
  <2>3. /\ ItemsInv' /\ SizesInv'
        /\ mUsedTiles' \in [Meshes -> [Tiles -> Value]]
        /\ dropped' \in [Threads -> SUBSET Keys]
        /\ \A n \in Meshes, t \in Tiles :
             mUsedTiles'[n][t] = IF n = m THEN None ELSE mUsedTiles[n][t]
    BY <1>1, <2>2, DroppedMesh
  <2>4. ASSUME NEW v \in Workers
        PROVE  JobInv(v)'
    <3>1. JobInv(v) /\ worker'[v] = worker[v]
      BY <1>1 DEF CacheInv
    <3>2. worker[v].data # None =>
            mUsedTiles'[worker[v].mesh][TileOf[worker[v].key]]
              = mUsedTiles[worker[v].mesh][TileOf[worker[v].key]]
      <4> SUFFICES ASSUME worker[v].data # None
                   PROVE  mUsedTiles'[worker[v].mesh][TileOf[worker[v].key]]
                            = mUsedTiles[worker[v].mesh][TileOf[worker[v].key]]
        OBVIOUS
      <4>1. worker[v].key \in Keys /\ worker[v].mesh \in Meshes
        BY JobFacts DEF JobInv, Jobs, Value
      <4>2. TileOf[worker[v].key] \in Tiles /\ worker[v].mesh # m
        BY <1>3, <2>1, <4>1, CacheAssumption
      <4> QED BY <2>3, <4>1, <4>2
    <3> QED BY <3>1, <3>2 DEF JobInv
  <2>5. TilesInv'
    BY <1>1, <2>3 DEF CacheInv, TilesInv
  <2>6. Types'
    BY <1>1, <2>3 DEF CacheInv, Types, cacheVars
  <2> QED BY <2>3, <2>4, <2>5, <2>6 DEF CacheInv
<1> QED BY <1>2, <1>3
-----------------------------------------------------------------------------
(* Values that are destroyed                                               *)

LEMMA DecrementNext ==
    ASSUME CacheInv, NEW h \in Threads, Decrement(h)
    PROVE  CacheInv'
<1>1. PICK k \in Keys :
        /\ k \in dropped[h] /\ released[h] = None
        /\ mUseCount' = [mUseCount EXCEPT ![k] = @ - 1]
        /\ released' = [released EXCEPT ![h] = IF mUseCount[k] = 1 THEN k ELSE None]
        /\ dropped' = [dropped EXCEPT ![h] = @ \ {k}]
        /\ UNCHANGED <<mFreeItems, mBusyItems, mUsedNavMeshDataSize, mFreeNavMeshDataSize,
                       raced, mUsedTiles, current, worker>>
  BY DEF Decrement, CacheInv, Types
<1>2. /\ mUseCount \in [Keys -> Int] /\ released \in [Threads -> Value]
      /\ dropped \in [Threads -> SUBSET Keys] /\ None \notin Keys
  BY CacheAssumption DEF CacheInv, Types
<1>3. /\ dropped' \in [Threads -> SUBSET Keys] /\ dropped'[h] = dropped[h] \ {k}
      /\ \A i \in Threads : i # h => dropped'[i] = dropped[i]
  BY <1>1, <1>2
<1>4. /\ mUseCount' \in [Keys -> Int] /\ mUseCount'[k] = mUseCount[k] - 1
      /\ \A j \in Keys : j # k => mUseCount'[j] = mUseCount[j]
  BY <1>1, <1>2
<1>5. /\ released' \in [Threads -> Value]
      /\ released'[h] = IF mUseCount[k] = 1 THEN k ELSE None
      /\ \A i \in Threads : i # h => released'[i] = released[i]
  BY <1>1, <1>2 DEF Value
<1>6. ASSUME NEW j \in Keys
      PROVE  UsesOf(j)' = UsesOf(j) - One(j = k)
  <2>1. InTiles(j)' = InTiles(j) /\ InJobs(j)' = InJobs(j)
    BY <1>1, SameUses
  <2>2. Cardinality(InDrops(j)') = Cardinality(InDrops(j))
          - One(j \in dropped[h]) + One(j \in dropped'[h])
    BY <1>3, DropsCount
  <2>3. Cardinality(InDrops(j)') = Cardinality(InDrops(j)) - One(j = k)
    <3>1. CASE j = k
      BY <1>1, <1>3, <2>2, <3>1, UsesFinite DEF One
    <3>2. CASE j # k
      BY <1>3, <2>2, <3>2, UsesFinite DEF One
    <3> QED BY <3>1, <3>2
  <2>4. One(j = k) \in Nat
    BY DEF One
  <2> QED BY <2>1, <2>3, <2>4, UsesFinite, UsesAfter
<1>7. \A j \in Keys : mUseCount'[j] = UsesOf(j)'
  BY <1>2, <1>4, <1>6 DEF One, CacheInv, ItemsInv
<1>8. mUseCount[k] > 0
  <2>1. Cardinality(InDrops(k)) # 0
    <3>1. h \in InDrops(k)
      BY <1>1 DEF InDrops
    <3> QED BY <3>1, UsesFinite, FS_EmptySet
  <2>2. mUseCount[k] = UsesOf(k)
    BY DEF CacheInv, ItemsInv
  <2> QED BY <2>1, <2>2, UsesFinite
<1>9. \A i \in Threads : released[i] # k
  BY <1>8, CountFacts
<1>10. \A j \in Keys : j \in mBusyItems' <=>
         mUseCount'[j] > 0 \/ \E i \in Threads : released'[i] = j
  <2> SUFFICES ASSUME NEW j \in Keys
               PROVE  j \in mBusyItems <=>
                        mUseCount'[j] > 0 \/ \E i \in Threads : released'[i] = j
    BY <1>1
  <2>1. j \in mBusyItems <=> mUseCount[j] > 0 \/ \E i \in Threads : released[i] = j
    BY DEF CacheInv, ItemsInv
  <2>2. CASE j = k
    <3>1. mUseCount'[k] > 0 \/ released'[h] = k
      BY <1>2, <1>4, <1>5, <1>8
    <3> QED BY <1>8, <2>1, <2>2, <3>1
  <2>3. CASE j # k
    <3>1. \A i \in Threads : released'[i] = j <=> released[i] = j
      BY <1>1, <1>2, <1>5, <2>3
    <3> QED BY <1>4, <2>1, <2>3, <3>1
  <2> QED BY <2>2, <2>3
<1>11. \A i \in Threads : released'[i] # None => mUseCount'[released'[i]] = 0
  <2> SUFFICES ASSUME NEW i \in Threads, NEW j \in Keys, released'[i] = j
               PROVE  mUseCount'[j] = 0
    BY <1>5 DEF Value
  <2>1. CASE i = h
    BY <1>2, <1>4, <1>5, <2>1
  <2>2. CASE i # h
    <3>1. released[i] = j /\ j # k
      BY <1>5, <1>9, <2>2
    <3> QED BY <1>2, <1>4, <3>1 DEF CacheInv, ItemsInv
  <2> QED BY <2>1, <2>2
<1>12. \A g, i \in Threads : released'[g] # None /\ released'[g] = released'[i] => g = i
  <2> SUFFICES ASSUME NEW g \in Threads, NEW i \in Threads,
                      released'[g] # None, released'[g] = released'[i]
               PROVE  g = i
    OBVIOUS
  <2>1. CASE g # h /\ i # h
    BY <1>5, <2>1 DEF CacheInv, ItemsInv
  <2>2. CASE g = h \/ i = h
    BY <1>5, <1>9, <2>2
  <2> QED BY <2>1, <2>2
<1>13. ItemsInv'
  BY <1>1, <1>7, <1>10, <1>11, <1>12 DEF CacheInv, ItemsInv
<1>14. SizesInv'
  BY <1>1 DEF CacheInv, SizesInv, mValues
<1>15. TilesInv' /\ \A w \in Workers : JobInv(w)'
  BY <1>1 DEF CacheInv, TilesInv, JobInv
<1>16. Types'
  BY <1>1, <1>3, <1>4, <1>5 DEF CacheInv, Types
<1> QED BY <1>13, <1>14, <1>15, <1>16 DEF CacheInv

LEMMA SpliceNext ==
    ASSUME CacheInv, NEW h \in Threads, Splice(h)
    PROVE  CacheInv'
<1>1. /\ released[h] # None
      /\ UNCHANGED <<mUseCount, mUsedNavMeshDataSize, raced, mUsedTiles, current, worker, dropped>>
      /\ released' = [released EXCEPT ![h] = None]
      /\ released \in [Threads -> Value] /\ None \notin Keys
  BY CacheAssumption DEF Splice, CacheInv, Types
<1>2. PICK k \in Keys : k = released[h]
  BY <1>1 DEF Value
<1>3. /\ mBusyItems' = mBusyItems \ {k} /\ mFreeItems' = <<k>> \o mFreeItems
      /\ mFreeNavMeshDataSize' = mFreeNavMeshDataSize + SizeOf[k]
  BY <1>2 DEF Splice
<1> DEFINE A == Elements(mFreeItems)
           B == mBusyItems
<1>4. /\ A \in SUBSET Keys /\ IsFiniteSet(A) /\ B \in SUBSET Keys /\ IsFiniteSet(B)
      /\ A \cap B = {} /\ mValues = A \cup B /\ mFreeNavMeshDataSize = Sum(A)
  BY SizeFacts
<1>5. k \in B /\ k \notin A
  BY <1>2, <1>4 DEF CacheInv, ItemsInv
<1>6. /\ mFreeItems' \in Seq(Keys) /\ NoDuplicates(mFreeItems')
      /\ Elements(mFreeItems') = A \cup {k}
  BY <1>3, <1>5, LinkedItem DEF CacheInv, Types, ItemsInv
<1>7. Sum(A \cup {k}) = Sum(A) + SizeOf[k] /\ IsFiniteSet(A \cup {k}) /\ A \cup {k} \in SUBSET Keys
  BY <1>4, <1>5, SumWithKey
<1>8. mValues' = mValues
  <2>1. mValues' = (A \cup {k}) \cup (B \ {k})
    BY <1>3, <1>6 DEF mValues
  <2> QED BY <1>4, <1>5, <2>1
<1>9. SizesInv'
  BY <1>1, <1>3, <1>4, <1>6, <1>7, <1>8 DEF CacheInv, SizesInv
<1>10. /\ released' \in [Threads -> Value] /\ released'[h] = None
       /\ \A i \in Threads : i # h => released'[i] = released[i]
  BY <1>1 DEF Value
<1>11. \A i \in Threads : i # h => released[i] # k
  BY <1>1, <1>2 DEF CacheInv, ItemsInv
<1>12. IsFiniteSet(mBusyItems') /\ mBusyItems' \in SUBSET Keys
  BY <1>3, <1>4, FS_Subset
<1>13. \A j \in Keys : mUseCount'[j] = UsesOf(j)'
  <2>1. \A j \in Keys : UsesOf(j)' = UsesOf(j)
    BY <1>1 DEF UsesOf
  <2> QED BY <1>1, <2>1 DEF CacheInv, ItemsInv
<1>14. \A j \in Keys : j \in mBusyItems' <=>
         mUseCount'[j] > 0 \/ \E i \in Threads : released'[i] = j
  <2> SUFFICES ASSUME NEW j \in Keys
               PROVE  j \in B \ {k} <=>
                        mUseCount[j] > 0 \/ \E i \in Threads : released'[i] = j
    BY <1>1, <1>3
  <2>1. j \in B <=> mUseCount[j] > 0 \/ \E i \in Threads : released[i] = j
    BY DEF CacheInv, ItemsInv
  <2>2. CASE j = k
    <3>1. mUseCount[k] = 0
      BY <1>1, <1>2 DEF CacheInv, ItemsInv
    <3>2. \A i \in Threads : released'[i] # k
      BY <1>1, <1>10, <1>11
    <3> QED BY <2>2, <3>1, <3>2
  <2>3. CASE j # k
    <3>1. \A i \in Threads : released'[i] = j <=> released[i] = j
      BY <1>1, <1>2, <1>10, <2>3
    <3> QED BY <2>1, <2>3, <3>1
  <2> QED BY <2>2, <2>3
<1>15. /\ \A i \in Threads : released'[i] # None => mUseCount'[released'[i]] = 0
       /\ \A g, i \in Threads : released'[g] # None /\ released'[g] = released'[i] => g = i
  <2>1. \A i \in Threads : released'[i] # None => i # h /\ released'[i] = released[i]
    BY <1>10
  <2> QED BY <1>1, <2>1 DEF CacheInv, ItemsInv
<1>16. ItemsInv'
  <2>1. Elements(mFreeItems') \cap mBusyItems' = {}
    BY <1>3, <1>4, <1>6
  <2> QED BY <1>6, <1>12, <1>13, <1>14, <1>15, <2>1 DEF ItemsInv
<1>17. TilesInv' /\ \A w \in Workers : JobInv(w)'
  BY <1>1 DEF CacheInv, TilesInv, JobInv
<1>18. Types'
  <2>1. Sum(A) \in Nat /\ Sum(A \cup {k}) \in Nat
    BY <1>4, <1>7, UnitsFinite
  <2>2. mFreeNavMeshDataSize' \in Int
    BY <1>3, <1>4, <1>7, <2>1
  <2> QED BY <1>1, <1>6, <1>10, <1>12, <2>2 DEF CacheInv, Types
<1> QED BY <1>9, <1>16, <1>17, <1>18 DEF CacheInv

-----------------------------------------------------------------------------
(* What is proved                                                          *)

LEMMA InitInv == Init => IInv
<1> SUFFICES ASSUME Init PROVE CacheInv
  BY DEF IInv
<1>1. Elements(<<>>) = {} /\ NoDuplicates(<<>>) /\ <<>> \in Seq(Keys)
  BY DEF Elements, NoDuplicates
<1>2. Sum({}) = 0 /\ IsFiniteSet({})
  <2>1. Units({}) = {}
    BY DEF Units
  <2> QED BY <2>1, FS_EmptySet DEF Sum
<1>3. None \notin Keys /\ mMaxNavMeshDataSize \in Nat
  BY CacheAssumption
<1>4. Types
  <2>1. Idle \in Jobs
    BY DEF Idle, Jobs, Value
  <2> QED BY <1>1, <2>1 DEF Init, Types, Value
<1>5. TilesInv /\ \A w \in Workers : JobInv(w)
  BY DEF Init, TilesInv, JobInv, Idle
<1>6. \A k \in Keys : mUseCount[k] = UsesOf(k)
  <2> TAKE k \in Keys
  <2>1. InTiles(k) = {} /\ InJobs(k) = {} /\ InDrops(k) = {}
    BY <1>3 DEF Init, Idle, InTiles, InJobs, InDrops
  <2> QED BY <2>1, UsesFinite, FS_EmptySet DEF Init
<1>7. ItemsInv
  BY <1>1, <1>2, <1>3, <1>6 DEF Init, ItemsInv
<1>8. SizesInv
  <2>1. Elements(mFreeItems) = {} /\ mValues = {}
    BY <1>1 DEF Init, mValues
  <2>2. mUsedNavMeshDataSize = 0 /\ mFreeNavMeshDataSize = 0
    BY DEF Init
  <2>3. Sum(mValues) = 0 /\ Sum(Elements(mFreeItems)) = 0
    BY <1>2, <2>1
  <2> QED BY <1>3, <2>2, <2>3 DEF SizesInv
<1> QED BY <1>4, <1>5, <1>7, <1>8 DEF CacheInv

LEMMA NextInv == IInv /\ [Next]_vars => IInv'
<1> SUFFICES ASSUME IInv, [Next]_vars, ~raced' PROVE CacheInv'
  BY DEF IInv
<1>1. CASE UNCHANGED vars
  <2>1. CacheInv
    BY <1>1 DEF IInv, vars, cacheVars
  <2>2. \A j \in Keys : UsesOf(j)' = UsesOf(j)
    BY <1>1 DEF UsesOf, vars
  <2>3. ItemsInv' /\ SizesInv'
    BY <1>1, <2>1, <2>2, MovedNext DEF vars
  <2>4. TilesInv' /\ \A w \in Workers : JobInv(w)'
    BY <1>1, <2>1 DEF CacheInv, TilesInv, JobInv, vars
  <2>5. Types'
    BY <1>1, <2>1 DEF CacheInv, Types, vars, cacheVars
  <2> QED BY <2>3, <2>4, <2>5 DEF CacheInv
<1>2. CASE Next
  <2>1. CacheInv
    BY <1>2 DEF IInv, Next
  <2>2. ASSUME NEW w \in Workers, WorkerStep(w) PROVE CacheInv'
    BY <2>1, <2>2, StartJobNext, GetNext, SetNext, UpdateTileNext, MarkAsEmptyNext,
       CopyGeneratedNext, LeaveNext, LeaveMeshNext, UnlockTileNext DEF WorkerStep
  <2>3. CASE ReplaceMesh
    BY <2>1, <2>3, ReplaceMeshNext
  <2>4. ASSUME NEW h \in Threads, Decrement(h) \/ Splice(h) PROVE CacheInv'
    BY <2>1, <2>4, DecrementNext, SpliceNext
  <2> QED BY <1>2, <2>2, <2>3, <2>4 DEF Next
<1> QED BY <1>1, <1>2

(* Until an item is acquired while it is being released: the use count of  *)
(* an item is the number of Values that refer to it, whatever threads      *)
(* share it, the busy items are those used or being released, and whoever  *)
(* reads an item, with a Value of it or after giving the Value to a tile,  *)
(* reads one in use.  (NavMeshTilesCache and AsyncNavMeshUpdater.)         *)
THEOREM UsedDataIsKept == Spec => []UsedDataIsKeptUnlessRaced
<1>1. IInv => UsedDataIsKeptUnlessRaced
  <2> SUFFICES ASSUME CacheInv
               PROVE  /\ \A k \in Keys : mUseCount[k] = UsesOf(k)
                      /\ mBusyItems = {k \in Keys : mUseCount[k] > 0
                                                    \/ \E h \in Threads : released[h] = k}
                      /\ \A w \in Workers :
                           worker[w].data # None => mUseCount[worker[w].data] > 0
    BY DEF IInv, UsedDataIsKeptUnlessRaced
  <2>1. \A k \in Keys : mUseCount[k] = UsesOf(k)
    BY DEF CacheInv, ItemsInv
  <2>2. mBusyItems = {k \in Keys : mUseCount[k] > 0 \/ \E h \in Threads : released[h] = k}
    BY DEF CacheInv, ItemsInv, Types
  <2>3. ASSUME NEW w \in Workers, worker[w].data # None
        PROVE  mUseCount[worker[w].data] > 0
    <3>1. PICK k \in Keys : k = worker[w].data
      BY <2>3, JobFacts DEF Jobs, Value
    <3>2. worker[w].key = k /\ worker[w].mesh \in Meshes /\ TileOf[k] \in Tiles
      BY <2>3, <3>1, JobFacts, CacheAssumption DEF JobInv, Jobs
    <3>3. worker[w].value = k \/ mUsedTiles[worker[w].mesh][TileOf[k]] = k
      BY <2>3, <3>1, <3>2, JobFacts DEF JobInv
    <3>4. w \in InJobs(k) \/ <<worker[w].mesh, TileOf[k]>> \in InTiles(k)
      BY <3>2, <3>3 DEF InJobs, InTiles
    <3>5. Cardinality(InJobs(k)) # 0 \/ Cardinality(InTiles(k)) # 0
      BY <3>4, UsesFinite, FS_EmptySet
    <3> QED BY <2>1, <3>1, <3>5, UsesFinite
  <2> QED BY <2>1, <2>2, <2>3
<1> QED BY <1>1, InitInv, NextInv, PTL DEF Spec

(* Until then the cache is never larger than its limit, whatever is set,   *)
(* evicted or used again, and its two sizes are exactly those of the items *)
(* it has and of the ones that can be evicted.                             *)
THEOREM CacheFits == Spec => []CacheFitsUnlessRaced
<1>1. IInv => CacheFitsUnlessRaced
  BY DEF IInv, CacheInv, SizesInv, CacheFitsUnlessRaced
<1> QED BY <1>1, InitInv, NextInv, PTL DEF Spec


=============================================================================
