------------------------ MODULE CellPreloaderProofs ------------------------
(* Proofs, for any cells, positions, terrains, threads and sizes of the    *)
(* cache: what the preloader holds is being preloaded, what it has dropped *)
(* is aborted, and what it waits for is alive.                             *)
EXTENDS CellPreloader, FiniteSetTheorems, SequenceTheorems, TLAPS

-----------------------------------------------------------------------------
(* Items                                                                   *)

(* What a step does to the items that there are: those of S are aborted,   *)
(* new ones are added, and a position that one no longer has to preload    *)
(* was preloaded.                                                          *)
Kept(S, new) ==
    /\ Created' = Created \cup new /\ new \cap Created = {}
    /\ done \subseteq done' /\ new \cap done' = {} /\ preloaded \subseteq preloaded'
    /\ \A i \in Created :
         /\ items'[i].kind = items[i].kind /\ items'[i].terrain = items[i].terrain
         /\ items'[i].aborted <=> items[i].aborted \/ i \in S
         /\ \A p \in items[i].left :
              p \in items'[i].left \/ <<items[i].terrain, p>> \in preloaded'

ItemsInv ==
    /\ items \in Seq(Item) /\ Len(items) <= MaxItems
    /\ queue \in Seq(Created)
    /\ running \subseteq Created /\ done \subseteq Created
    /\ destroyed \in BOOLEAN /\ inline \in BOOLEAN
    /\ ~destroyed => Created \subseteq done \cup running \cup Elements(queue)
    /\ \A i \in done : IsComplete(i)

LEMMA ItemsOfSeq ==
    ASSUME ItemsInv
    PROVE  /\ Len(items) \in Nat /\ Created = 1..Len(items) /\ NextId \notin Created
           /\ NoItem \notin Created /\ NextId \in Nat \ {0}
           /\ \A i \in Created : items[i] \in Item /\ items[i].aborted \in BOOLEAN
<1>1. items \in Seq(Item) /\ Created = DOMAIN items
  BY DEF ItemsInv, Created
<1>2. Len(items) \in Nat /\ Created = 1..Len(items) /\ \A i \in Created : items[i] \in Item
  BY <1>1, LenProperties, ElementOfSeq
<1>3. \A i \in Created : items[i].aborted \in BOOLEAN
  BY <1>2 DEF Item
<1> QED BY <1>2, <1>3 DEF NextId, NoItem

LEMMA AbortFacts ==
    ASSUME NEW its \in Seq(Item), NEW S
    PROVE  /\ AbortAll(its, S) \in Seq(Item) /\ Len(AbortAll(its, S)) = Len(its)
           /\ DOMAIN AbortAll(its, S) = DOMAIN its
           /\ \A i \in DOMAIN its :
                /\ AbortAll(its, S)[i].kind = its[i].kind
                /\ AbortAll(its, S)[i].terrain = its[i].terrain
                /\ AbortAll(its, S)[i].left = its[i].left
                /\ AbortAll(its, S)[i].aborted <=> its[i].aborted \/ i \in S
<1>1. Len(its) \in Nat /\ DOMAIN its = 1..Len(its) /\ \A i \in DOMAIN its : its[i] \in Item
  BY LenProperties, ElementOfSeq
<1>2. \A i \in DOMAIN its : [its[i] EXCEPT !.aborted = TRUE] \in Item
  BY <1>1 DEF Item
<1>3. /\ DOMAIN AbortAll(its, S) = 1..Len(its)
      /\ \A i \in 1..Len(its) : AbortAll(its, S)[i] =
              IF i \in S THEN [its[i] EXCEPT !.aborted = TRUE] ELSE its[i]
  BY <1>1 DEF AbortAll
<1>4. AbortAll(its, S) \in [1..Len(its) -> Item]
  BY <1>1, <1>2 DEF AbortAll
<1>5. AbortAll(its, S) \in Seq(Item) /\ Len(AbortAll(its, S)) = Len(its)
  BY <1>1, <1>3, <1>4
<1>6. ASSUME NEW i \in DOMAIN its
      PROVE  /\ AbortAll(its, S)[i].kind = its[i].kind
             /\ AbortAll(its, S)[i].terrain = its[i].terrain
             /\ AbortAll(its, S)[i].left = its[i].left
             /\ AbortAll(its, S)[i].aborted <=> its[i].aborted \/ i \in S
  BY <1>1, <1>3 DEF Item
<1> QED BY <1>1, <1>3, <1>5, <1>6

LEMMA AppendFacts ==
    ASSUME NEW its \in Seq(Item), NEW it \in Item
    PROVE  /\ Append(its, it) \in Seq(Item) /\ Len(Append(its, it)) = Len(its) + 1
           /\ DOMAIN Append(its, it) = DOMAIN its \cup {Len(its) + 1}
           /\ Append(its, it)[Len(its) + 1] = it
           /\ \A i \in DOMAIN its : Append(its, it)[i] = its[i]
<1>1. /\ Len(its) \in Nat /\ DOMAIN its = 1..Len(its)
      /\ Append(its, it) \in Seq(Item) /\ Len(Append(its, it)) = Len(its) + 1
      /\ DOMAIN Append(its, it) = 1..Len(its) + 1
  OBVIOUS
<1>2. 1..Len(its) + 1 = (1..Len(its)) \cup {Len(its) + 1}
  BY <1>1
<1> QED BY <1>1, <1>2

(* A step that only aborts.                                                *)
LEMMA Marks ==
    ASSUME ItemsInv, NEW S, items' = AbortAll(items, S), UNCHANGED <<poolVars, preloaded>>
    PROVE  ItemsInv' /\ Kept(S, {})
<1>1. items \in Seq(Item) /\ Created' = Created
  BY AbortFacts DEF ItemsInv, Created
<1>2. \A i \in Created : /\ items'[i].kind = items[i].kind
                         /\ items'[i].terrain = items[i].terrain
                         /\ items'[i].left = items[i].left
                         /\ items'[i].aborted <=> items[i].aborted \/ i \in S
  BY <1>1, AbortFacts DEF Created
<1>3. \A i \in done : IsComplete(i)'
  BY <1>2 DEF ItemsInv, IsComplete
<1>4. ItemsInv'
  BY <1>1, <1>3, AbortFacts DEF ItemsInv, poolVars
<1> QED BY <1>1, <1>2, <1>4 DEF Kept, poolVars

LEMMA Same ==
    ASSUME ItemsInv, UNCHANGED <<items, poolVars, preloaded>>
    PROVE  ItemsInv' /\ Kept({}, {})
<1>1. Created' = Created
  BY DEF Created
<1>2. ItemsInv'
  BY <1>1 DEF ItemsInv, poolVars, IsComplete
<1> QED BY <1>1, <1>2 DEF Kept, poolVars

LEMMA BackElements ==
    ASSUME NEW S, NEW s \in Seq(S), NEW x \in S
    PROVE  Append(s, x) \in Seq(S) /\ Elements(Append(s, x)) = Elements(s) \cup {x}
<1> DEFINE t == Append(s, x)
<1>1. /\ t \in Seq(S) /\ Len(s) \in Nat /\ DOMAIN s = 1..Len(s)
      /\ DOMAIN t = 1..Len(s) + 1 /\ t[Len(s) + 1] = x
      /\ \A i \in 1..Len(s) : t[i] = s[i]
  OBVIOUS
<1> HIDE DEF t
<1>2. \A i \in DOMAIN t : i = Len(s) + 1 \/ i \in DOMAIN s
  BY <1>1
<1>3. Len(s) + 1 \in DOMAIN t /\ \A i \in DOMAIN s : i \in DOMAIN t
  BY <1>1
<1>4. Elements(t) = Elements(s) \cup {x}
  BY <1>1, <1>2, <1>3 DEF Elements
<1> QED BY <1>1, <1>4 DEF t

LEMMA FrontElements ==
    ASSUME NEW S, NEW s \in Seq(S), NEW x \in S
    PROVE  <<x>> \o s \in Seq(S) /\ Elements(<<x>> \o s) = Elements(s) \cup {x}
<1>1. /\ Len(s) \in Nat /\ DOMAIN s = 1..Len(s)
      /\ <<x>> \in Seq(S) /\ Len(<<x>>) = 1 /\ <<x>>[1] = x
  OBVIOUS
<1> DEFINE t == <<x>> \o s
<1>2. /\ t \in Seq(S) /\ DOMAIN t = 1..Len(s) + 1
      /\ \A i \in 1..Len(s) + 1 : t[i] = IF i <= 1 THEN x ELSE s[i - 1]
  BY <1>1, ConcatProperties
<1> HIDE DEF t
<1>3. ASSUME NEW e \in Elements(t) PROVE e \in Elements(s) \cup {x}
  <2>1. PICK i \in DOMAIN t : e = t[i]
    BY DEF Elements
  <2>2. i > 1 => i - 1 \in DOMAIN s
    BY <1>1, <1>2
  <2> QED BY <1>1, <1>2, <2>1, <2>2 DEF Elements
<1>4. ASSUME NEW e \in Elements(s) PROVE e \in Elements(t)
  <2>1. PICK i \in DOMAIN s : e = s[i]
    BY DEF Elements
  <2>2. i + 1 \in DOMAIN t /\ t[i + 1] = s[i]
    BY <1>1, <1>2
  <2> QED BY <2>1, <2>2 DEF Elements
<1>5. x \in Elements(t)
  <2>1. 1 \in DOMAIN t /\ t[1] = x
    BY <1>1, <1>2
  <2> QED BY <2>1 DEF Elements
<1> QED BY <1>2, <1>3, <1>4, <1>5 DEF t

LEMMA TailOf ==
    ASSUME NEW S, NEW s \in Seq(S), s # <<>>
    PROVE  Tail(s) \in Seq(S) /\ Head(s) \in S /\ Elements(s) \subseteq Elements(Tail(s)) \cup {Head(s)}
<1>1. /\ Len(s) \in Nat \ {0} /\ DOMAIN s = 1..Len(s) /\ Tail(s) \in Seq(S)
      /\ DOMAIN Tail(s) = 1..Len(s) - 1 /\ Head(s) = s[1] /\ s[1] \in S
      /\ \A i \in 1..Len(s) - 1 : Tail(s)[i] = s[i + 1]
  OBVIOUS
<1>2. ASSUME NEW e \in Elements(s), e # Head(s) PROVE e \in Elements(Tail(s))
  <2>1. PICK i \in DOMAIN s : e = s[i]
    BY DEF Elements
  <2>2. i # 1 /\ i - 1 \in DOMAIN Tail(s) /\ Tail(s)[i - 1] = s[i]
    BY <1>1, <1>2, <2>1
  <2> QED BY <2>1, <2>2 DEF Elements
<1> QED BY <1>1, <1>2

(* A step that aborts and adds an item.                                    *)
LEMMA Adds ==
    ASSUME ItemsInv, NEW S, NEW it \in Item, NEW front \in BOOLEAN,
           items' = Append(AbortAll(items, S), it), AddItem(front), UNCHANGED preloaded
    PROVE  /\ ItemsInv' /\ Kept(S, {NextId}) /\ items'[NextId] = it
           /\ NextId \in Nat \ {0} /\ ~destroyed /\ UNCHANGED <<destroyed, done, inline>>
<1> DEFINE its == AbortAll(items, S)
<1>1. /\ its \in Seq(Item) /\ Len(its) = Len(items) /\ DOMAIN its = Created
      /\ \A i \in Created : /\ its[i].kind = items[i].kind
                            /\ its[i].terrain = items[i].terrain
                            /\ its[i].left = items[i].left
                            /\ its[i].aborted <=> items[i].aborted \/ i \in S
  BY AbortFacts DEF ItemsInv, Created
<1> HIDE DEF its
<1>2. /\ items' \in Seq(Item) /\ Len(items') = Len(items) + 1
      /\ Created' = Created \cup {NextId} /\ items'[NextId] = it
      /\ \A i \in Created : items'[i] = its[i]
  BY <1>1, AppendFacts DEF its, Created, NextId
<1>3. /\ NextId \in ItemIds /\ ~destroyed /\ UNCHANGED <<done, destroyed, inline>>
      /\ IF inline THEN running' = running \cup {NextId} /\ UNCHANGED queue
         ELSE UNCHANGED running /\ (queue' = Append(queue, NextId) \/ queue' = <<NextId>> \o queue)
  BY DEF AddItem, Pool!Add
<1>4. /\ NextId \notin Created /\ NextId \in Nat \ {0} /\ NextId \in Created'
      /\ Len(items') <= MaxItems
  BY <1>2, <1>3, ItemsOfSeq DEF ItemIds, NextId, ItemsInv
<1>5. queue \in Seq(Created')
  BY <1>2 DEF ItemsInv
<1>6. /\ queue' \in Seq(Created') /\ Elements(queue) \subseteq Elements(queue')
      /\ running \subseteq running' /\ running' \subseteq Created'
      /\ NextId \in running' \cup Elements(queue')
  <2>1. CASE inline
    BY <1>2, <1>3, <1>4, <1>5, <2>1 DEF ItemsInv
  <2>2. CASE ~inline /\ queue' = Append(queue, NextId)
    <3>1. /\ Append(queue, NextId) \in Seq(Created')
          /\ Elements(Append(queue, NextId)) = Elements(queue) \cup {NextId}
      BY <1>4, <1>5, BackElements
    <3> QED BY <1>2, <1>3, <2>2, <3>1 DEF ItemsInv
  <2>3. CASE ~inline /\ queue' = <<NextId>> \o queue
    <3>1. /\ <<NextId>> \o queue \in Seq(Created')
          /\ Elements(<<NextId>> \o queue) = Elements(queue) \cup {NextId}
      BY <1>4, <1>5, FrontElements
    <3> QED BY <1>2, <1>3, <2>3, <3>1 DEF ItemsInv
  <2> QED BY <1>3, <2>1, <2>2, <2>3
<1>7. \A i \in done : i \in Created /\ i # NextId
  BY <1>4 DEF ItemsInv
<1>8. \A i \in done : IsComplete(i)'
  BY <1>1, <1>2, <1>7 DEF ItemsInv, IsComplete
<1>9. ItemsInv'
  BY <1>2, <1>3, <1>4, <1>6, <1>7, <1>8 DEF ItemsInv
<1>10. Kept(S, {NextId})
  BY <1>1, <1>2, <1>3, <1>4, <1>7 DEF Kept
<1> QED BY <1>2, <1>3, <1>4, <1>9, <1>10

-----------------------------------------------------------------------------
(* The invariant                                                           *)

MainPcs == {"idle", "switched", "aborting", "check", "preload", "syncing", "clearing",
            "clearingCache", "clearingCells", "gone"}
Mains == [pc : MainPcs, terrain : Terrains \cup {NoTerrain},
          position : Positions \cup {NoPosition}, next : {"idle", "check", "preload"}]

(* Where the main thread is, and what it has brought there.                *)
MainInv ==
    /\ main \in Mains /\ mTerrain \in Terrains /\ now \in 0..MaxTime
    /\ main.pc \in {"switched", "aborting", "check", "preload", "syncing"} =>
         main.position \in Positions
    /\ main.pc \in {"clearing", "clearingCache", "clearingCells"} /\ main.terrain # NoTerrain =>
         main.position \in Positions
    /\ main.pc = "aborting" => main.next \in {"check", "preload"}
    /\ main.pc \in {"clearingCache", "clearingCells", "gone"} => mTerrainPreloadItem = NoItem
    /\ main.pc = "gone" => Preloaded = {}
    /\ destroyed => main.pc = "gone"

Entries == [mTimeStamp : Nat, mWorkItem : Nat]

(* A cell item is aborted exactly if no entry holds it, but when all are   *)
(* cleared, and works for the terrain in use unless it is aborted.         *)
CellInv ==
    /\ Preloaded \subseteq Cells /\ IsFiniteSet(Preloaded)
    /\ mPreloadCells \in [Preloaded -> Entries]
    /\ \A c \in Preloaded : StampOf(c) <= now /\ mPreloadCells[c].mWorkItem \in OfKind("cell")
    /\ PreloadFitsCache
    /\ \A c, d \in Preloaded : mPreloadCells[c].mWorkItem = mPreloadCells[d].mWorkItem => c = d
    /\ \A i \in OfKind("cell") \cap Unfinished :
         /\ i \notin ItemsOf(Preloaded) \/ main.pc = "clearingCells" => items[i].aborted
         /\ i \in ItemsOf(Preloaded) /\ main.pc # "clearingCells" => ~items[i].aborted
         /\ items[i].terrain # mTerrain => items[i].aborted

CacheInv ==
    /\ mUpdateCacheItem \in {NoItem} \cup OfKind("cache")
    /\ mLastResourceCacheUpdate \in 0..now
    /\ OfKind("cache") \cap Unfinished \subseteq {mUpdateCacheItem}

(* There is one terrain item, on the terrain in use, and it has preloaded  *)
(* the positions or has still to.                                          *)
TerrainInv ==
    /\ mTerrainPreloadPositions \subseteq Positions /\ mLoadedTerrainPositions \subseteq Positions
    /\ mTerrainPreloadItem \in {NoItem} \cup OfKind("terrain")
    /\ OfKind("terrain") \cap Unfinished \subseteq {mTerrainPreloadItem}
    /\ mTerrainPreloadItem # NoItem =>
         /\ items[mTerrainPreloadItem].terrain = mTerrain
         /\ \A p \in mTerrainPreloadPositions :
              p \in items[mTerrainPreloadItem].left \/ <<mTerrain, p>> \in preloaded
         /\ items[mTerrainPreloadItem].aborted =>
              main.pc \in {"aborting", "clearing"} \/ mTerrainPreloadPositions = {}
    /\ LoadedPositionsArePreloaded

IInv == ItemsInv /\ MainInv /\ CellInv /\ CacheInv /\ TerrainInv

-----------------------------------------------------------------------------
(* What an invariant needs of a step                                       *)

LEMMA KindsKept ==
    ASSUME ItemsInv, NEW S, NEW new, Kept(S, new), NEW k
    PROVE  /\ OfKind(k) \subseteq OfKind(k)'
           /\ \A i \in (OfKind(k) \cap Unfinished)' :
                i \in OfKind(k) \cap Unfinished \/ (i \in new /\ items'[i].kind = k)
           /\ \A i \in new : items'[i].kind = k => i \in OfKind(k)'
BY DEF Kept, OfKind, Unfinished

(* Cells: nothing happens to them.                                         *)
LEMMA CellsStay ==
    ASSUME ItemsInv, CellInv, NEW S, NEW new, Kept(S, new), S \cap OfKind("cell") = {},
           \A i \in new : items'[i].kind # "cell", UNCHANGED <<mPreloadCells, mTerrain>>,
           now \in Nat, now' \in Nat, now <= now',
           main.pc = "clearingCells" <=> main'.pc = "clearingCells"
    PROVE  CellInv'
<1>1. /\ OfKind("cell") \subseteq OfKind("cell")'
      /\ \A i \in (OfKind("cell") \cap Unfinished)' : i \in OfKind("cell") \cap Unfinished
  BY KindsKept
<1>2. Preloaded' = Preloaded /\ ItemsOf(Preloaded)' = ItemsOf(Preloaded)
  BY DEF Preloaded, ItemsOf
<1>3. \A c \in Preloaded : StampOf(c)' <= now'
  BY <1>2 DEF CellInv, StampOf, Entries
<1>4. \A i \in OfKind("cell") \cap Unfinished :
        items'[i].terrain = items[i].terrain /\ (items'[i].aborted <=> items[i].aborted)
  BY DEF Kept, OfKind, Unfinished
<1> QED BY <1>1, <1>2, <1>3, <1>4 DEF CellInv, PreloadFitsCache

(* Cells: those of D are dropped and aborted.                              *)
LEMMA CellsDropped ==
    ASSUME ItemsInv, CellInv, NEW D \in SUBSET Preloaded, NEW new, Kept(ItemsOf(D), new),
           \A i \in new : items'[i].kind # "cell",
           mPreloadCells' = Without(D), UNCHANGED <<mTerrain, now>>,
           main.pc # "clearingCells", main'.pc # "clearingCells", mMaxCacheSize \in Nat
    PROVE  CellInv'
<1>1. /\ OfKind("cell") \subseteq OfKind("cell")'
      /\ \A i \in (OfKind("cell") \cap Unfinished)' : i \in OfKind("cell") \cap Unfinished
  BY KindsKept
<1>2. Preloaded' = Preloaded \ D /\ \A c \in Preloaded' : mPreloadCells'[c] = mPreloadCells[c]
  BY DEF Preloaded, Without
<1>3. /\ IsFiniteSet(Preloaded') /\ Cardinality(Preloaded') <= Cardinality(Preloaded)
      /\ Cardinality(Preloaded') \in Nat /\ Cardinality(Preloaded) \in Nat
  BY <1>2, FS_Subset, FS_CardinalityType DEF CellInv
<1>4. mPreloadCells' \in [Preloaded' -> Entries]
  BY <1>2 DEF CellInv, Without
<1>5. ItemsOf(Preloaded)' = ItemsOf(Preloaded) \ ItemsOf(D)
  BY <1>2 DEF CellInv, ItemsOf
<1>6. \A i \in OfKind("cell") \cap Unfinished :
        /\ items'[i].terrain = items[i].terrain
        /\ items'[i].aborted <=> items[i].aborted \/ i \in ItemsOf(D)
  BY DEF Kept, OfKind, Unfinished
<1>7. \A i \in (OfKind("cell") \cap Unfinished)' :
         /\ i \notin ItemsOf(Preloaded)' => items'[i].aborted
         /\ i \in ItemsOf(Preloaded)' => ~items'[i].aborted
         /\ items'[i].terrain # mTerrain' => items'[i].aborted
  BY <1>1, <1>5, <1>6 DEF CellInv
<1>8. PreloadFitsCache'
  BY <1>3 DEF CellInv, PreloadFitsCache
<1>9. \A c \in Preloaded' : StampOf(c)' <= now' /\ mPreloadCells'[c].mWorkItem \in OfKind("cell")'
  BY <1>1, <1>2 DEF CellInv, StampOf
<1>10. \A c, d \in Preloaded' :
          mPreloadCells'[c].mWorkItem = mPreloadCells'[d].mWorkItem => c = d
  BY <1>2 DEF CellInv
<1>11. Preloaded' \subseteq Cells
  BY <1>2 DEF CellInv
<1>12. \A i \in (OfKind("cell") \cap Unfinished)' :
         /\ i \notin ItemsOf(Preloaded)' \/ main'.pc = "clearingCells" => items'[i].aborted
         /\ i \in ItemsOf(Preloaded)' /\ main'.pc # "clearingCells" => ~items'[i].aborted
         /\ items'[i].terrain # mTerrain' => items'[i].aborted
  BY <1>7
<1> QED BY <1>3, <1>4, <1>8, <1>9, <1>10, <1>11, <1>12 DEF CellInv

LEMMA CacheStays ==
    ASSUME ItemsInv, CacheInv, NEW S, NEW new, Kept(S, new),
           \A i \in new : items'[i].kind # "cache", UNCHANGED cacheVars,
           now \in Nat, now' \in Nat, now <= now'
    PROVE  CacheInv'
<1>1. /\ OfKind("cache") \subseteq OfKind("cache")'
      /\ \A i \in (OfKind("cache") \cap Unfinished)' : i \in OfKind("cache") \cap Unfinished
  BY KindsKept
<1> QED BY <1>1 DEF CacheInv, cacheVars

(* Terrain: the item may be aborted where the main thread waits for it.    *)
LEMMA TerrainStays ==
    ASSUME ItemsInv, TerrainInv, NEW S, NEW new, Kept(S, new),
           \A i \in new : items'[i].kind # "terrain", UNCHANGED <<terrainVars, mTerrain>>,
           \/ main.pc \notin {"aborting", "clearing"} /\ mTerrainPreloadItem \notin S
           \/ main'.pc \in {"aborting", "clearing"}
    PROVE  TerrainInv'
<1>1. /\ OfKind("terrain") \subseteq OfKind("terrain")'
      /\ \A i \in (OfKind("terrain") \cap Unfinished)' : i \in OfKind("terrain") \cap Unfinished
  BY KindsKept
<1>2. LoadedPositionsArePreloaded'
  BY DEF TerrainInv, LoadedPositionsArePreloaded, Kept, terrainVars
<1>3. ASSUME mTerrainPreloadItem # NoItem
      PROVE  /\ items'[mTerrainPreloadItem].terrain = mTerrain
             /\ \A p \in mTerrainPreloadPositions :
                  p \in items'[mTerrainPreloadItem].left \/ <<mTerrain, p>> \in preloaded'
             /\ items'[mTerrainPreloadItem].aborted =>
                  main'.pc \in {"aborting", "clearing"} \/ mTerrainPreloadPositions = {}
  <2>1. mTerrainPreloadItem \in Created
    BY <1>3 DEF TerrainInv, OfKind
  <2> QED BY <1>3, <2>1 DEF TerrainInv, Kept
<1> QED BY <1>1, <1>2, <1>3 DEF TerrainInv, terrainVars

LEMMA InvTypes ==
    ASSUME IInv
    PROVE  /\ now \in Nat /\ MaxTime \in Nat /\ mMaxCacheSize \in Nat
           /\ main.pc \in MainPcs /\ inline \in BOOLEAN
           /\ {mTerrainPreloadItem} \cap OfKind("cell") = {}
           /\ mTerrainPreloadItem \notin ItemsOf(Preloaded)
BY PreloaderAssumption, ItemsOfSeq
   DEF IInv, ItemsInv, MainInv, Mains, CellInv, TerrainInv, OfKind, ItemsOf

(* No item of the terrain is unfinished.                                   *)
LEMMA NotBusy ==
    ASSUME IInv, ~TerrainIsBusy
    PROVE  OfKind("terrain") \cap Unfinished = {}
BY ItemsOfSeq DEF IInv, TerrainInv, TerrainIsBusy, IsDone, Unfinished, NoItem

(* SetPositions: what it makes is the only terrain item.                   *)
LEMMA SetPositionsTerrain ==
    ASSUME IInv, NEW ps \in SUBSET Positions, SetPositions(ps), UNCHANGED <<mTerrain, preloaded>>,
           main.pc \notin {"aborting", "clearing"} \/ (ps = {} /\ ~TerrainIsBusy)
    PROVE  /\ ItemsInv' /\ TerrainInv'
           /\ \E new : /\ Kept({}, new) /\ \A i \in new : items'[i].kind = "terrain"
                       /\ UNCHANGED destroyed
<1> DEFINE subsumed == ps # {} /\ ps \subseteq mTerrainPreloadPositions
<1>1. CASE subsumed
  <2>1. UNCHANGED <<terrainVars, items, poolVars, preloaded>>
    BY <1>1 DEF SetPositions
  <2>2. ItemsInv' /\ Kept({}, {})
    BY <2>1, Same DEF IInv
  <2>3. TerrainInv'
    BY <1>1, <2>1, <2>2, TerrainStays DEF IInv
  <2> QED BY <2>1, <2>2, <2>3 DEF poolVars
<1>2. CASE ~subsumed /\ (ps = {} \/ TerrainIsBusy)
  <2>1. /\ UNCHANGED <<mTerrainPreloadItem, items, poolVars, preloaded>>
        /\ mTerrainPreloadPositions' = IF ps = {} THEN {} ELSE mTerrainPreloadPositions
        /\ \/ mLoadedTerrainPositions' = {}
           \/ UNCHANGED <<mLoadedTerrainPositions, carried>>
    BY <1>2 DEF SetPositions
  <2>2. ItemsInv' /\ Kept({}, {})
    BY <2>1, Same DEF IInv
  <2>3. LoadedPositionsArePreloaded'
    <3>1. CASE mLoadedTerrainPositions' = {}
      BY <3>1 DEF LoadedPositionsArePreloaded
    <3>2. CASE UNCHANGED <<mLoadedTerrainPositions, carried>>
      BY <3>2 DEF IInv, TerrainInv, LoadedPositionsArePreloaded
    <3> QED BY <2>1, <3>1, <3>2
  <2>4. OfKind("terrain")' = OfKind("terrain") /\ Unfinished' = Unfinished
    BY <2>1 DEF OfKind, Unfinished, Created, poolVars
  <2>5. mTerrainPreloadItem' # NoItem /\ items'[mTerrainPreloadItem'].aborted =>
          main'.pc \in {"aborting", "clearing"} \/ mTerrainPreloadPositions' = {}
    BY <1>2, <2>1 DEF IInv, TerrainInv
  <2>6. TerrainInv'
    BY <2>1, <2>3, <2>4, <2>5 DEF IInv, TerrainInv
  <2> QED BY <2>1, <2>2, <2>6 DEF poolVars
<1>3. CASE ~subsumed /\ ps # {} /\ ~TerrainIsBusy
  <2>1. /\ mTerrainPreloadPositions' = ps
        /\ UNCHANGED <<mLoadedTerrainPositions, carried>>
        /\ items' = Append(items, NewItem("terrain", mTerrain, ps))
        /\ AddItem(FALSE) /\ mTerrainPreloadItem' = NextId
    BY <1>3 DEF SetPositions
  <2>2. NewItem("terrain", mTerrain, ps) \in Item
    BY DEF NewItem, Item, IInv, MainInv
  <2>3. items = AbortAll(items, {})
    BY DEF AbortAll, IInv, ItemsInv
  <2>4. /\ ItemsInv' /\ Kept({}, {NextId}) /\ items'[NextId] = NewItem("terrain", mTerrain, ps)
        /\ NextId \in Nat \ {0} /\ UNCHANGED <<destroyed, done, inline>>
    BY <2>1, <2>2, <2>3, Adds DEF IInv
  <2>5. /\ NextId \in OfKind("terrain")'
        /\ (OfKind("terrain") \cap Unfinished)' \subseteq {NextId}
    <3>1. OfKind("terrain") \cap Unfinished = {} /\ ItemsInv
      BY <1>3, NotBusy DEF IInv
    <3>2. items'[NextId].kind = "terrain" /\ Kept({}, {NextId})
      BY <2>4 DEF NewItem
    <3> QED BY <3>1, <3>2, KindsKept
  <2>6. LoadedPositionsArePreloaded'
    BY <2>1 DEF IInv, TerrainInv, LoadedPositionsArePreloaded
  <2>7. /\ items'[NextId].terrain = mTerrain /\ items'[NextId].left = ps
        /\ ~items'[NextId].aborted /\ items'[NextId].kind = "terrain"
    BY <2>4 DEF NewItem
  <2>8. TerrainInv'
    BY <2>1, <2>4, <2>5, <2>6, <2>7 DEF IInv, TerrainInv
  <2> QED BY <2>4, <2>7, <2>8
<1> QED BY <1>1, <1>2, <1>3

-----------------------------------------------------------------------------
(* Steps that leave the cells                                              *)

LEMMA Waits ==
    ASSUME IInv, NEW new, Kept({}, new), ItemsInv', new = {},
           UNCHANGED <<mPreloadCells, mTerrain, terrainVars, cacheVars>>,
           now' \in Nat, now <= now', MainInv',
           main.pc \notin {"aborting", "clearing", "clearingCells"} \/ main' = main,
           main'.pc # "clearingCells" \/ main' = main
    PROVE  IInv'
<1>1. now \in Nat /\ ItemsInv /\ CellInv /\ CacheInv /\ TerrainInv
  BY InvTypes DEF IInv
<1>2. CellInv'
  BY <1>1, CellsStay
<1>3. CacheInv'
  BY <1>1, CacheStays
<1>4. TerrainInv'
  <2>1. main.pc \notin {"aborting", "clearing"} \/ main'.pc \in {"aborting", "clearing"}
    OBVIOUS
  <2> QED BY <1>1, <2>1, TerrainStays
<1> QED BY <1>2, <1>3, <1>4 DEF IInv

(* The main thread goes on.                                                *)
LEMMA MainGoes ==
    ASSUME IInv, UNCHANGED <<poolVars, items, mPreloadCells, mTerrain, terrainVars, cacheVars,
                             preloaded>>,
           now' \in Nat, now <= now', MainInv',
           main.pc \notin {"aborting", "clearing", "clearingCells"} \/ main' = main,
           main'.pc # "clearingCells" \/ main' = main
    PROVE  IInv'
<1>1. ItemsInv' /\ Kept({}, {})
  BY Same DEF IInv
<1> QED BY <1>1, Waits

LEMMA WorkerInv ==
    ASSUME IInv, WorkerStep
    PROVE  IInv'
<1>1. UNCHANGED <<mPreloadCells, mTerrain, terrainVars, cacheVars, main, now, destroyed>>
  BY DEF WorkerStep, BeginWork, PreloadPosition, FinishWork, poolVars, Pool!Begin, Pool!Complete
<1>2. MainInv' /\ now \in Nat
  BY <1>1, InvTypes DEF IInv, MainInv, terrainVars, Preloaded
<1>3. ItemsInv /\ items \in Seq(Item) /\ Created = DOMAIN items
  BY DEF IInv, ItemsInv, Created
<1>4. CASE BeginWork
  <2>1. /\ queue # <<>> /\ queue' = Tail(queue) /\ running' = running \cup {Head(queue)}
        /\ UNCHANGED <<done, destroyed, inline, items, preloaded>>
    BY <1>4 DEF BeginWork, Pool!Begin
  <2>2. /\ Tail(queue) \in Seq(Created) /\ Head(queue) \in Created
        /\ Elements(queue) \subseteq Elements(Tail(queue)) \cup {Head(queue)}
    BY <1>3, <2>1, TailOf DEF ItemsInv
  <2>3. Created' = Created
    BY <2>1 DEF Created
  <2>4. ItemsInv'
    BY <1>3, <2>1, <2>2, <2>3 DEF ItemsInv, IsComplete
  <2>5. Kept({}, {})
    BY <2>1, <2>3 DEF Kept
  <2> QED BY <1>1, <1>2, <2>4, <2>5, Waits
<1>5. ASSUME NEW i \in ItemIds, PreloadPosition(i) PROVE IInv'
  <2>1. PICK p \in items[i].left :
          /\ items' = [items EXCEPT ![i].left = @ \ {p}]
          /\ preloaded' = preloaded \cup {<<items[i].terrain, p>>}
          /\ UNCHANGED poolVars /\ i \in running
    BY <1>5 DEF PreloadPosition
  <2>2. i \in Created /\ items[i] \in Item
    BY <1>3, <2>1, ItemsOfSeq DEF ItemsInv
  <2> DEFINE it == [items[i] EXCEPT !.left = @ \ {p}]
  <2>3. /\ it \in Item /\ it.kind = items[i].kind /\ it.terrain = items[i].terrain
        /\ it.left = items[i].left \ {p} /\ it.aborted = items[i].aborted
    BY <2>2 DEF Item
  <2>4. items' = [items EXCEPT ![i] = it]
    BY <2>1
  <2> HIDE DEF it
  <2>5. /\ items' \in Seq(Item) /\ Len(items') = Len(items) /\ Created' = Created
        /\ \A k \in Created : items'[k] = IF k = i THEN it ELSE items[k]
    BY <1>3, <2>2, <2>3, <2>4, ExceptSeq DEF Created
  <2>6. \A k \in done : IsComplete(k)'
    BY <1>3, <2>1, <2>3, <2>5 DEF ItemsInv, IsComplete, poolVars
  <2>7. ItemsInv'
    BY <1>3, <2>1, <2>5, <2>6 DEF ItemsInv, poolVars
  <2>8. ASSUME NEW k \in Created
        PROVE  /\ items'[k].kind = items[k].kind /\ items'[k].terrain = items[k].terrain
               /\ items'[k].aborted = items[k].aborted
               /\ \A q \in items[k].left :
                    q \in items'[k].left \/ <<items[k].terrain, q>> \in preloaded'
    BY <2>1, <2>3, <2>5
  <2>9. Kept({}, {})
    BY <2>1, <2>5, <2>8 DEF Kept, poolVars
  <2> QED BY <1>1, <1>2, <2>7, <2>9, Waits
<1>6. ASSUME NEW i \in ItemIds, FinishWork(i) PROVE IInv'
  <2>1. /\ i \in running /\ running' = running \ {i} /\ done' = done \cup {i} /\ IsComplete(i)
        /\ UNCHANGED <<queue, destroyed, inline, items, preloaded>>
    BY <1>6 DEF FinishWork, Pool!Complete
  <2>2. Created' = Created
    BY <2>1 DEF Created
  <2>3. ItemsInv'
    BY <1>3, <2>1, <2>2 DEF ItemsInv, IsComplete
  <2>4. Kept({}, {})
    BY <2>1, <2>2 DEF Kept
  <2> QED BY <1>1, <1>2, <2>3, <2>4, Waits
<1> QED BY <1>4, <1>5, <1>6 DEF WorkerStep

LEMMA QueueEnds ==
    ASSUME IInv, DestroyQueue
    PROVE  IInv'
<1>1. /\ main.pc = "gone" /\ queue' = <<>> /\ destroyed'
      /\ UNCHANGED <<running, done, inline, items, mPreloadCells, mTerrain, terrainVars,
                     cacheVars, main, now, preloaded>>
  BY DEF DestroyQueue, MainAt, Pool!Destroy
<1>2. MainInv' /\ now \in Nat
  BY <1>1, InvTypes DEF IInv, MainInv, terrainVars, Preloaded
<1>3. Created' = Created /\ destroyed' \in BOOLEAN
  BY <1>1 DEF Created, DestroyQueue, Pool!Destroy
<1>4. ItemsInv'
  BY <1>1, <1>3 DEF IInv, ItemsInv, IsComplete
<1>5. Kept({}, {})
  BY <1>1, <1>3 DEF Kept
<1> QED BY <1>1, <1>2, <1>4, <1>5, Waits

LEMMA ClearingStarts ==
    ASSUME IInv, main.pc = "idle", NEW terrain \in Terrains \cup {NoTerrain},
           NEW position \in Positions \cup {NoPosition},
           terrain = NoTerrain \/ position \in Positions, StartClearing(terrain, position)
    PROVE  IInv'
<1>1. /\ main' = [pc |-> "clearing", terrain |-> terrain, position |-> position, next |-> "idle"]
      /\ items' = AbortAll(items, {mTerrainPreloadItem})
      /\ UNCHANGED <<poolVars, mPreloadCells, mTerrain, terrainVars, cacheVars, now, preloaded>>
  BY DEF StartClearing
<1>2. ItemsInv' /\ Kept({mTerrainPreloadItem}, {})
  BY <1>1, Marks DEF IInv
<1>3. MainInv'
  <2>1. main' \in Mains /\ main'.pc = "clearing" /\ main'.position = position /\ main'.terrain = terrain
    BY <1>1 DEF Mains, MainPcs
  <2>2. ~destroyed
    BY DEF IInv, MainInv
  <2> QED BY <1>1, <2>1, <2>2 DEF IInv, MainInv, poolVars
<1>4. CellInv'
  BY <1>1, <1>2, CellsStay, InvTypes DEF IInv
<1>5. CacheInv'
  BY <1>1, <1>2, CacheStays, InvTypes DEF IInv
<1>6. TerrainInv'
  BY <1>1, <1>2, TerrainStays, InvTypes DEF IInv
<1> QED BY <1>2, <1>3, <1>4, <1>5, <1>6 DEF IInv

LEMMA SetsPositions ==
    ASSUME IInv, NEW ps \in SUBSET Positions, SetPositions(ps),
           UNCHANGED <<mPreloadCells, mTerrain, cacheVars, now, preloaded>>,
           main.pc \notin {"aborting", "clearing"} \/ (ps = {} /\ ~TerrainIsBusy),
           main.pc \notin {"clearingCells", "gone"}, main' \in Mains,
           main'.pc \in {"idle", "check", "preload", "syncing"},
           main'.pc # "idle" => main'.position \in Positions
    PROVE  IInv'
<1>1. now \in Nat /\ ItemsInv /\ CellInv /\ CacheInv
  BY InvTypes DEF IInv
<1>2. /\ ItemsInv' /\ TerrainInv'
      /\ \E new : /\ Kept({}, new) /\ \A i \in new : items'[i].kind = "terrain"
                  /\ UNCHANGED destroyed
  BY SetPositionsTerrain
<1>3. PICK new : /\ Kept({}, new) /\ \A i \in new : items'[i].kind = "terrain"
                 /\ UNCHANGED destroyed
  BY <1>2
<1>4. MainInv'
  BY <1>3 DEF IInv, MainInv
<1>5. CellInv'
  <2>1. \A i \in new : items'[i].kind # "cell"
    BY <1>3
  <2> QED BY <1>1, <1>3, <2>1, CellsStay
<1>6. CacheInv'
  <2>1. \A i \in new : items'[i].kind # "cache"
    BY <1>3
  <2> QED BY <1>1, <1>3, <2>1, CacheStays
<1> QED BY <1>2, <1>4, <1>5, <1>6 DEF IInv

LEMMA AbortsExcept ==
    ASSUME IInv, NEW position \in Positions \cup {NoPosition}, NEW next \in {"check", "preload"},
           main.pc \in {"switched", "check"}, AbortExcept(position, next),
           UNCHANGED <<mPreloadCells, mTerrain, cacheVars, now, preloaded>>
    PROVE  IInv'
<1>1. /\ main \in Mains /\ main.position \in Positions /\ now \in Nat /\ ~destroyed
      /\ now' \in Nat /\ now <= now'
  BY InvTypes DEF IInv, MainInv
<1>2. CASE Continue(next) /\ UNCHANGED <<terrainVars, items, poolVars>>
  <2>1. main' \in Mains /\ main'.pc = next /\ main'.position \in Positions
    BY <1>1, <1>2 DEF Mains, MainPcs, Continue
  <2>2. MainInv'
    BY <1>1, <1>2, <2>1 DEF IInv, MainInv, poolVars
  <2> QED BY <1>1, <1>2, <2>1, <2>2, MainGoes
<1>3. CASE /\ items' = AbortAll(items, {mTerrainPreloadItem})
           /\ main' = [main EXCEPT !.pc = "aborting", !.next = next]
           /\ UNCHANGED <<terrainVars, poolVars>>
  <2>1. ItemsInv' /\ Kept({mTerrainPreloadItem}, {})
    BY <1>3, Marks DEF IInv
  <2>2. /\ main' \in Mains /\ main'.pc = "aborting" /\ main'.position \in Positions
        /\ main'.next = next
    BY <1>1, <1>3 DEF Mains, MainPcs
  <2>3. MainInv'
    BY <1>1, <1>3, <2>2 DEF IInv, MainInv, poolVars
  <2>4. CellInv'
    BY <1>1, <2>1, <2>2, CellsStay, InvTypes DEF IInv
  <2>5. CacheInv'
    BY <1>1, <2>1, CacheStays, InvTypes DEF IInv
  <2>6. TerrainInv'
    BY <1>3, <2>1, <2>2, TerrainStays, InvTypes DEF IInv
  <2> QED BY <2>1, <2>3, <2>4, <2>5, <2>6 DEF IInv
<1>4. CASE ~TerrainIsBusy /\ Continue(next) /\ SetPositions({})
  <2>1. main' \in Mains /\ main'.pc = next /\ main'.position \in Positions
    BY <1>1, <1>4 DEF Mains, MainPcs, Continue
  <2> QED BY <1>1, <1>4, <2>1, SetsPositions
<1> QED BY <1>2, <1>3, <1>4 DEF AbortExcept

LEMMA SceneInv ==
    ASSUME IInv, \/ UnlockPaging \/ CheckTerrain \/ PreloadTerrain \/ SyncTerrainLoad \/ FinishAbort
    PROVE  IInv'
<1>1. /\ main \in Mains /\ now \in Nat
      /\ main.pc \in {"switched", "aborting", "check", "preload", "syncing"} =>
           main.position \in Positions /\ ~destroyed
  BY InvTypes DEF IInv, MainInv
<1>2. ASSUME UNCHANGED <<poolVars, items, mPreloadCells, mTerrain, terrainVars, cacheVars, now,
                         preloaded>>,
             main.pc \in {"switched", "check", "syncing"},
             NEW pc \in {"idle", "check"}, Continue(pc)
      PROVE  IInv'
  <2>1. main' \in Mains /\ main'.pc = pc /\ main'.position \in Positions
    BY <1>1, <1>2 DEF Mains, MainPcs, Continue
  <2>2. MainInv'
    BY <1>1, <1>2, <2>1 DEF IInv, MainInv, poolVars
  <2>3. now' \in Nat /\ now <= now'
    BY <1>1, <1>2
  <2> QED BY <1>1, <1>2, <2>1, <2>2, <2>3, MainGoes
<1>3. CASE UnlockPaging
  <2>1. main.pc = "switched" /\ UNCHANGED <<mPreloadCells, mTerrain, cacheVars, now, preloaded>>
    BY <1>3 DEF UnlockPaging, MainAt
  <2>2. CASE AbortExcept(NoPosition, "check")
    BY <2>1, <2>2, AbortsExcept
  <2>3. CASE Continue("check") /\ UNCHANGED <<terrainVars, items, poolVars>>
    BY <1>2, <2>1, <2>3
  <2> QED BY <1>3, <2>2, <2>3 DEF UnlockPaging
<1>4. CASE CheckTerrain
  <2>1. main.pc = "check" /\ UNCHANGED <<mPreloadCells, mTerrain, cacheVars, now, preloaded>>
    BY <1>4 DEF CheckTerrain, MainAt
  <2>2. CASE AbortExcept(main.position, "preload")
    BY <1>1, <2>1, <2>2, AbortsExcept
  <2>3. CASE Continue("idle") /\ UNCHANGED <<terrainVars, items, poolVars>>
    BY <1>2, <2>1, <2>3
  <2> QED BY <1>4, <2>2, <2>3 DEF CheckTerrain
<1>5. CASE PreloadTerrain
  <2>1. /\ main.pc = "preload" /\ SetPositions({main.position}) /\ Continue("syncing")
        /\ UNCHANGED <<mPreloadCells, mTerrain, cacheVars, now, preloaded>>
    BY <1>5 DEF PreloadTerrain, MainAt
  <2>2. /\ main' \in Mains /\ main'.pc = "syncing" /\ main'.position \in Positions
        /\ {main.position} \in SUBSET Positions
    BY <1>1, <2>1 DEF Mains, MainPcs, Continue
  <2> QED BY <2>1, <2>2, SetsPositions
<1>6. CASE SyncTerrainLoad
  BY <1>2, <1>6 DEF SyncTerrainLoad, MainAt
<1>7. CASE FinishAbort
  <2>1. /\ main.pc = "aborting" /\ SetPositions({}) /\ Continue(main.next) /\ ~TerrainIsBusy
        /\ UNCHANGED <<mPreloadCells, mTerrain, cacheVars, now, preloaded>>
    BY <1>7 DEF FinishAbort, MainAt
  <2>2. main.next \in {"check", "preload"}
    BY <2>1 DEF IInv, MainInv
  <2>3. main' \in Mains /\ main'.pc = main.next /\ main'.position \in Positions
    BY <1>1, <2>1, <2>2 DEF Mains, MainPcs, Continue
  <2> QED BY <2>1, <2>2, <2>3, SetsPositions
<1> QED BY <1>3, <1>4, <1>5, <1>6, <1>7

LEMMA CallInv ==
    ASSUME IInv,
           \/ Tick \/ DestroyWorld
           \/ \E ps \in SUBSET Positions : SetTerrainPreloadPositions(ps)
           \/ \E t \in Terrains, p \in Positions : SetTerrain(t, p)
    PROVE  IInv'
<1>1. main \in Mains /\ main.pc = "idle" /\ ~destroyed /\ now \in Nat /\ MaxTime \in Nat
  BY InvTypes DEF IInv, MainInv, Tick, DestroyWorld, SetTerrainPreloadPositions, SetTerrain, MainAt
<1>2. CASE Tick
  <2>1. /\ now < MaxTime /\ now' = now + 1
        /\ UNCHANGED <<poolVars, items, mPreloadCells, mTerrain, terrainVars, cacheVars, main,
                       preloaded>>
    BY <1>2 DEF Tick
  <2>2. now' \in 0..MaxTime /\ now' \in Nat /\ now <= now'
    BY <1>1, <2>1
  <2>3. MainInv'
    BY <1>1, <2>1, <2>2 DEF IInv, MainInv, terrainVars, poolVars, Preloaded
  <2> QED BY <1>1, <2>1, <2>2, <2>3, MainGoes
<1>3. CASE DestroyWorld
  BY <1>1, <1>3, ClearingStarts DEF DestroyWorld
<1>4. ASSUME NEW ps \in SUBSET Positions, SetTerrainPreloadPositions(ps) PROVE IInv'
  <2>1. SetPositions(ps) /\ UNCHANGED <<mPreloadCells, mTerrain, cacheVars, main, now, preloaded>>
    BY <1>4 DEF SetTerrainPreloadPositions
  <2> QED BY <1>1, <2>1, SetsPositions
<1>5. ASSUME NEW t \in Terrains, NEW p \in Positions, SetTerrain(t, p) PROVE IInv'
  <2>1. CASE t # mTerrain
    BY <1>1, <1>5, <2>1, ClearingStarts DEF SetTerrain
  <2>2. CASE t = mTerrain
    <3>1. /\ main' = [pc |-> "switched", terrain |-> t, position |-> p, next |-> "idle"]
          /\ UNCHANGED <<poolVars, items, mPreloadCells, mTerrain, terrainVars, cacheVars, now,
                         preloaded>>
      BY <1>5, <2>2 DEF SetTerrain
    <3>2. main' \in Mains /\ main'.pc = "switched" /\ main'.position \in Positions
      BY <3>1 DEF Mains, MainPcs
    <3>3. MainInv'
      BY <1>1, <3>1, <3>2 DEF IInv, MainInv, poolVars
    <3>4. now' \in Nat /\ now <= now'
      BY <1>1, <3>1
    <3> QED BY <1>1, <3>1, <3>2, <3>3, <3>4, MainGoes
  <2> QED BY <2>1, <2>2
<1> QED BY <1>2, <1>3, <1>4, <1>5

-----------------------------------------------------------------------------
(* Steps on cells, and of the cache                                        *)

(* Nothing but the cells and what is loaded changes, on the main thread,   *)
(* which stays where it is.                                                *)
LEMMA LoadedMayChange ==
    ASSUME IInv, NEW S \in SUBSET ItemsOf(Preloaded), NEW new, Kept(S, new), ItemsInv', CellInv', CacheInv',
           \A i \in new : items'[i].kind # "terrain", main.pc = "idle",
           UNCHANGED <<mTerrainPreloadPositions, mTerrainPreloadItem, mTerrain, main, now,
                       destroyed>>,
           \/ UNCHANGED <<mLoadedTerrainPositions, carried>>
           \/ /\ mTerrainPreloadItem # NoItem /\ IsDone(mTerrainPreloadItem)
              /\ mLoadedTerrainPositions' = mTerrainPreloadPositions
    PROVE  IInv'
<1>1. MainInv'
  BY DEF IInv, MainInv
<1>2. /\ OfKind("terrain") \subseteq OfKind("terrain")'
      /\ \A i \in (OfKind("terrain") \cap Unfinished)' : i \in OfKind("terrain") \cap Unfinished
  BY KindsKept DEF IInv
<1>3. ASSUME mTerrainPreloadItem # NoItem
      PROVE  /\ mTerrainPreloadItem \in Created
             /\ items'[mTerrainPreloadItem].terrain = mTerrain
             /\ \A p \in mTerrainPreloadPositions :
                  p \in items'[mTerrainPreloadItem].left \/ <<mTerrain, p>> \in preloaded'
             /\ items'[mTerrainPreloadItem].aborted => mTerrainPreloadPositions = {}
  <2>1. mTerrainPreloadItem \in Created
    BY <1>3 DEF IInv, TerrainInv, OfKind
  <2>2. mTerrainPreloadItem \notin S
    BY InvTypes
  <2> QED BY <1>3, <2>1, <2>2 DEF IInv, TerrainInv, Kept
<1>4. LoadedPositionsArePreloaded' /\ mLoadedTerrainPositions' \subseteq Positions
  <2>1. CASE UNCHANGED <<mLoadedTerrainPositions, carried>>
    BY <2>1 DEF IInv, TerrainInv, LoadedPositionsArePreloaded, Kept
  <2>2. CASE /\ mTerrainPreloadItem # NoItem /\ IsDone(mTerrainPreloadItem)
             /\ mLoadedTerrainPositions' = mTerrainPreloadPositions
    <3>1. \/ items[mTerrainPreloadItem].aborted
          \/ items[mTerrainPreloadItem].left = {}
      BY <2>2 DEF IInv, ItemsInv, IsDone, IsComplete
    <3>2. \A p \in mTerrainPreloadPositions : <<mTerrain, p>> \in preloaded
      BY <2>2, <3>1 DEF IInv, TerrainInv
    <3>3. mTerrain \in Terrains /\ preloaded \subseteq preloaded'
      BY DEF IInv, MainInv, Kept
    <3> QED BY <2>2, <3>2, <3>3 DEF IInv, TerrainInv, LoadedPositionsArePreloaded
  <2> QED BY <2>1, <2>2
<1>5. TerrainInv'
  BY <1>2, <1>3, <1>4 DEF IInv, TerrainInv
<1> QED BY <1>1, <1>5 DEF IInv

LEMMA RefreshInv ==
    ASSUME IInv, NEW c \in Cells, RefreshPreload(c)
    PROVE  IInv'
<1>1. /\ main.pc = "idle" /\ c \in Preloaded
      /\ mPreloadCells' = [mPreloadCells EXCEPT ![c].mTimeStamp = now]
      /\ UNCHANGED <<poolVars, items, mTerrain, terrainVars, cacheVars, main, now, preloaded>>
  BY DEF RefreshPreload, MainAt
<1>2. ItemsInv' /\ Kept({}, {}) /\ now \in Nat
  BY <1>1, Same, InvTypes DEF IInv
<1>3. Created' = Created /\ OfKind("cell")' = OfKind("cell") /\ Unfinished' = Unfinished
  BY <1>1 DEF Created, OfKind, Unfinished, poolVars
<1>4. /\ mPreloadCells' \in [Preloaded -> Entries] /\ Preloaded' = Preloaded
      /\ \A d \in Preloaded :
           /\ mPreloadCells'[d].mWorkItem = mPreloadCells[d].mWorkItem
           /\ mPreloadCells'[d].mTimeStamp = IF d = c THEN now ELSE mPreloadCells[d].mTimeStamp
  BY <1>1, <1>2 DEF IInv, CellInv, Entries, Preloaded
<1>5. ItemsOf(Preloaded)' = ItemsOf(Preloaded)
  BY <1>4 DEF ItemsOf
<1>6. \A d \in Preloaded : StampOf(d)' <= now'
  BY <1>1, <1>2, <1>4 DEF IInv, CellInv, StampOf
<1>7. PreloadFitsCache'
  BY <1>4 DEF IInv, CellInv, PreloadFitsCache
<1>8. CellInv'
  BY <1>1, <1>3, <1>4, <1>5, <1>6, <1>7 DEF IInv, CellInv
<1>9. CacheInv'
  BY <1>1, <1>2, CacheStays DEF IInv
<1> QED BY <1>1, <1>2, <1>8, <1>9, LoadedMayChange DEF terrainVars, poolVars

LEMMA PreloadInv ==
    ASSUME IInv, NEW c \in Cells, Preload(c)
    PROVE  IInv'
<1>1. PICK evicted \in IF Cardinality(Preloaded) >= mMaxCacheSize
                       THEN {{d} : d \in Evictable} ELSE {{}} :
        /\ items' = Append(AbortAll(items, ItemsOf(evicted)), NewItem("cell", mTerrain, {}))
        /\ mPreloadCells' = [d \in (Preloaded \ evicted) \cup {c} |->
                               IF d = c THEN [mTimeStamp |-> now, mWorkItem |-> NextId]
                               ELSE mPreloadCells[d]]
  BY DEF Preload
<1>2. /\ main.pc = "idle" /\ c \notin Preloaded /\ AddItem(FALSE)
      /\ UNCHANGED <<mTerrain, terrainVars, cacheVars, main, now, preloaded>>
  BY DEF Preload, MainAt
<1>3. evicted \subseteq Preloaded
  BY <1>1 DEF Evictable
<1>4. NewItem("cell", mTerrain, {}) \in Item
  BY DEF NewItem, Item, IInv, MainInv
<1>5. /\ ItemsInv' /\ Kept(ItemsOf(evicted), {NextId}) /\ NextId \in Nat \ {0}
      /\ items'[NextId] = NewItem("cell", mTerrain, {}) /\ UNCHANGED <<done, destroyed>>
  BY <1>1, <1>2, <1>4, Adds DEF IInv
<1>6. /\ items'[NextId].kind = "cell" /\ ~items'[NextId].aborted
      /\ items'[NextId].terrain = mTerrain
  BY <1>5 DEF NewItem
<1>7. NextId \notin Created /\ now \in Nat /\ mMaxCacheSize \in Nat
  BY ItemsOfSeq, InvTypes DEF IInv
<1> DEFINE kept == Preloaded \ evicted
<1>8. /\ Preloaded' = kept \cup {c} /\ c \notin kept
      /\ \A d \in kept : mPreloadCells'[d] = mPreloadCells[d]
      /\ mPreloadCells'[c] = [mTimeStamp |-> now, mWorkItem |-> NextId]
  BY <1>1, <1>2 DEF Preloaded
<1>9. /\ mPreloadCells' \in [Preloaded' -> Entries]
  <2>1. \A d \in kept : mPreloadCells[d] \in Entries
    BY DEF IInv, CellInv
  <2>2. [mTimeStamp |-> now, mWorkItem |-> NextId] \in Entries
    BY <1>5, <1>7 DEF Entries
  <2> QED BY <1>1, <1>8, <2>1, <2>2
<1>10. IsFiniteSet(Preloaded) /\ Cardinality(Preloaded) \in Nat /\ Cardinality(Preloaded) <= mMaxCacheSize
  BY FS_CardinalityType DEF IInv, CellInv, PreloadFitsCache
<1>11. IsFiniteSet(kept) /\ Cardinality(kept) \in Nat /\ Cardinality(kept) + 1 <= mMaxCacheSize
  <2>1. CASE Cardinality(Preloaded) >= mMaxCacheSize
    <3>1. PICK d \in Preloaded : evicted = {d}
      BY <1>1, <2>1 DEF Evictable
    <3>2. kept = Preloaded \ {d}
      BY <3>1
    <3>3. IsFiniteSet(kept) /\ Cardinality(kept) = Cardinality(Preloaded) - 1
      BY <1>10, <3>1, <3>2, FS_RemoveElement
    <3>4. Cardinality(kept) \in Nat
      BY <3>3, FS_CardinalityType
    <3> QED BY <1>7, <1>10, <3>3, <3>4
  <2>2. CASE Cardinality(Preloaded) < mMaxCacheSize
    <3>1. evicted = {}
      BY <1>1, <1>7, <1>10, <2>2
    <3>2. kept = Preloaded
      BY <3>1
    <3> QED BY <1>7, <1>10, <2>2, <3>2
  <2> QED BY <1>7, <1>10, <2>1, <2>2
<1>12. IsFiniteSet(Preloaded') /\ PreloadFitsCache'
  BY <1>8, <1>11, FS_AddElement DEF PreloadFitsCache
<1> HIDE DEF kept
<1>13. \A d \in kept : d \in Preloaded /\ mPreloadCells[d].mWorkItem \in OfKind("cell")
                       /\ mPreloadCells[d].mWorkItem # NextId
  BY <1>7 DEF kept, IInv, CellInv, OfKind
<1>14. /\ OfKind("cell") \subseteq OfKind("cell")' /\ NextId \in OfKind("cell")'
       /\ \A i \in (OfKind("cell") \cap Unfinished)' :
            i \in OfKind("cell") \cap Unfinished \/ i = NextId
  BY <1>5, <1>6, KindsKept DEF IInv
<1>15. ItemsOf(Preloaded)' = (ItemsOf(Preloaded) \ ItemsOf(evicted)) \cup {NextId}
  <2>1. ItemsOf(Preloaded)' = {mPreloadCells[d].mWorkItem : d \in kept} \cup {NextId}
    BY <1>8 DEF ItemsOf, kept
  <2>2. {mPreloadCells[d].mWorkItem : d \in kept} = ItemsOf(Preloaded) \ ItemsOf(evicted)
    BY <1>3 DEF ItemsOf, kept, IInv, CellInv
  <2> QED BY <2>1, <2>2
<1>16. \A d, e \in Preloaded' :
         mPreloadCells'[d].mWorkItem = mPreloadCells'[e].mWorkItem => d = e
  BY <1>8, <1>13 DEF kept, IInv, CellInv
<1>17. \A d \in Preloaded' : StampOf(d)' <= now' /\ mPreloadCells'[d].mWorkItem \in OfKind("cell")'
  BY <1>2, <1>7, <1>8, <1>13, <1>14 DEF IInv, CellInv, StampOf
<1>18. ASSUME NEW i \in (OfKind("cell") \cap Unfinished)'
       PROVE  /\ i \notin ItemsOf(Preloaded)' => items'[i].aborted
              /\ i \in ItemsOf(Preloaded)' => ~items'[i].aborted
              /\ items'[i].terrain # mTerrain' => items'[i].aborted
  <2>1. CASE i = NextId
    BY <1>2, <1>6, <1>15, <2>1
  <2>2. CASE i # NextId /\ i \in OfKind("cell") \cap Unfinished
    <3>1. /\ i \in Created /\ items'[i].terrain = items[i].terrain
          /\ items'[i].aborted <=> items[i].aborted \/ i \in ItemsOf(evicted)
      BY <1>5, <2>2 DEF Kept, OfKind
    <3>2. /\ i \notin ItemsOf(Preloaded) => items[i].aborted
          /\ i \in ItemsOf(Preloaded) => ~items[i].aborted
          /\ items[i].terrain # mTerrain => items[i].aborted
      BY <1>2, <2>2 DEF IInv, CellInv
    <3> QED BY <1>2, <1>15, <2>2, <3>1, <3>2
  <2> QED BY <1>14, <2>1, <2>2
<1>19. CellInv'
  <2>1. Preloaded' \subseteq Cells /\ main'.pc = "idle"
    BY <1>2, <1>8, <1>13 DEF IInv, CellInv
  <2> QED BY <1>9, <1>12, <1>16, <1>17, <1>18, <2>1 DEF CellInv
<1>20. CacheInv'
  BY <1>2, <1>5, <1>6, <1>7, CacheStays DEF IInv
<1>21. ItemsOf(evicted) \subseteq ItemsOf(Preloaded)
  BY <1>3 DEF ItemsOf
<1> QED BY <1>2, <1>5, <1>6, <1>19, <1>20, <1>21, LoadedMayChange DEF terrainVars

LEMMA CellsAborted ==
    ASSUME IInv, NEW D \in SUBSET Preloaded, AbortCells(D)
    PROVE  IInv'
<1>1. /\ main.pc = "idle" /\ items' = AbortAll(items, ItemsOf(D)) /\ mPreloadCells' = Without(D)
      /\ UNCHANGED <<poolVars, mTerrain, terrainVars, cacheVars, main, now, preloaded>>
  BY DEF AbortCells, MainAt
<1>2. ItemsInv' /\ Kept(ItemsOf(D), {}) /\ now \in Nat /\ mMaxCacheSize \in Nat
  BY <1>1, Marks, InvTypes DEF IInv
<1>3. CellInv'
  BY <1>1, <1>2, CellsDropped DEF IInv
<1>4. CacheInv'
  BY <1>1, <1>2, CacheStays DEF IInv
<1>5. ItemsOf(D) \subseteq ItemsOf(Preloaded)
  BY DEF ItemsOf
<1> QED BY <1>1, <1>2, <1>3, <1>4, <1>5, LoadedMayChange DEF terrainVars, poolVars

LEMMA UpdateInv ==
    ASSUME IInv, UpdateCache
    PROVE  IInv'
<1>1. PICK D \in ExpiredCells :
        /\ mPreloadCells' = Without(D)
        /\ IF CacheUpdateIsDue
           THEN /\ items' = Append(AbortAll(items, ItemsOf(D)), NewItem("cache", NoTerrain, {}))
                /\ AddItem(TRUE)
                /\ mUpdateCacheItem' = NextId
                /\ mLastResourceCacheUpdate' = now
           ELSE /\ items' = AbortAll(items, ItemsOf(D))
                /\ UNCHANGED <<poolVars, cacheVars>>
  BY DEF UpdateCache
<1>2. /\ main.pc = "idle"
      /\ UNCHANGED <<mTerrain, mTerrainPreloadPositions, mTerrainPreloadItem, main, now, preloaded>>
      /\ \/ UNCHANGED <<mLoadedTerrainPositions, carried>>
         \/ /\ mTerrainPreloadItem # NoItem /\ IsDone(mTerrainPreloadItem)
            /\ mLoadedTerrainPositions' = mTerrainPreloadPositions
  BY DEF UpdateCache, MainAt
<1>3. D \in SUBSET Preloaded /\ ItemsOf(D) \subseteq ItemsOf(Preloaded)
  BY DEF ExpiredCells, ItemsOf
<1>4. now \in Nat /\ mMaxCacheSize \in Nat
  BY InvTypes
<1>5. CASE CacheUpdateIsDue
  <2>1. NewItem("cache", NoTerrain, {}) \in Item
    BY DEF NewItem, Item
  <2>2. /\ ItemsInv' /\ Kept(ItemsOf(D), {NextId}) /\ NextId \in Nat \ {0}
        /\ items'[NextId] = NewItem("cache", NoTerrain, {}) /\ UNCHANGED <<done, destroyed>>
    BY <1>1, <1>2, <1>5, <2>1, Adds DEF IInv
  <2>3. items'[NextId].kind = "cache"
    BY <2>2 DEF NewItem
  <2>4. CellInv'
    BY <1>1, <1>2, <1>3, <1>4, <2>2, <2>3, CellsDropped DEF IInv
  <2>5. /\ NextId \in OfKind("cache")'
        /\ \A i \in (OfKind("cache") \cap Unfinished)' :
             i \in OfKind("cache") \cap Unfinished \/ i = NextId
    BY <2>2, <2>3, KindsKept DEF IInv
  <2>6. OfKind("cache") \cap Unfinished = {}
    BY <1>5, ItemsOfSeq DEF IInv, CacheInv, CacheUpdateIsDue, IsDone, Unfinished
  <2>7. CacheInv'
    <3>1. mLastResourceCacheUpdate' \in 0..now'
      BY <1>1, <1>2, <1>4, <1>5
    <3> QED BY <1>1, <1>5, <2>5, <2>6, <3>1 DEF CacheInv
  <2> QED BY <1>2, <1>3, <2>2, <2>3, <2>4, <2>7, LoadedMayChange
<1>6. CASE ~CacheUpdateIsDue
  <2>1. items' = AbortAll(items, ItemsOf(D)) /\ UNCHANGED <<poolVars, cacheVars>>
    BY <1>1, <1>6
  <2>2. ItemsInv' /\ Kept(ItemsOf(D), {})
    BY <1>2, <2>1, Marks DEF IInv
  <2>3. CellInv'
    BY <1>1, <1>2, <1>3, <1>4, <2>2, CellsDropped DEF IInv
  <2>4. CacheInv'
    BY <1>2, <1>4, <2>1, <2>2, CacheStays DEF IInv
  <2> QED BY <1>2, <1>3, <2>1, <2>2, <2>3, <2>4, LoadedMayChange DEF poolVars
<1> QED BY <1>5, <1>6

-----------------------------------------------------------------------------
(* Clearing                                                                *)

LEMMA TerrainCleared ==
    ASSUME IInv, ClearTerrain
    PROVE  IInv'
<1>1. /\ main.pc = "clearing" /\ ~TerrainIsBusy /\ mTerrainPreloadItem' = NoItem
      /\ main' = [main EXCEPT !.pc = "clearingCache"]
      /\ UNCHANGED <<poolVars, items, mPreloadCells, mTerrain, mTerrainPreloadPositions,
                     mLoadedTerrainPositions, carried, cacheVars, now, preloaded>>
  BY DEF ClearTerrain, MainAt, Continue
<1>2. ItemsInv' /\ Kept({}, {}) /\ now \in Nat
  BY <1>1, Same, InvTypes DEF IInv
<1>3. /\ main' \in Mains /\ main'.pc = "clearingCache" /\ main'.position = main.position
      /\ main'.terrain = main.terrain
  BY <1>1 DEF IInv, MainInv, Mains, MainPcs
<1>4. MainInv'
  BY <1>1, <1>3 DEF IInv, MainInv, poolVars
<1>5. CellInv'
  BY <1>1, <1>2, <1>3, CellsStay DEF IInv
<1>6. CacheInv'
  BY <1>1, <1>2, CacheStays DEF IInv
<1>7. TerrainInv'
  <2>1. OfKind("terrain") \cap Unfinished = {}
    BY <1>1, NotBusy
  <2>2. (OfKind("terrain") \cap Unfinished)' = {}
    BY <1>1, <2>1 DEF OfKind, Unfinished, Created, poolVars
  <2>3. LoadedPositionsArePreloaded'
    BY <1>1 DEF IInv, TerrainInv, LoadedPositionsArePreloaded
  <2> QED BY <1>1, <2>2, <2>3 DEF IInv, TerrainInv
<1> QED BY <1>2, <1>4, <1>5, <1>6, <1>7 DEF IInv

LEMMA CacheCleared ==
    ASSUME IInv, ClearCache
    PROVE  IInv'
<1>1. /\ main.pc = "clearingCache" /\ mUpdateCacheItem' = NoItem
      /\ (mUpdateCacheItem # NoItem => IsDone(mUpdateCacheItem))
      /\ items' = AbortAll(items, ItemsOf(Preloaded))
      /\ main' = [main EXCEPT !.pc = "clearingCells"]
      /\ UNCHANGED <<poolVars, mPreloadCells, mTerrain, terrainVars, mLastResourceCacheUpdate,
                     now, preloaded>>
  BY DEF ClearCache, MainAt, Continue
<1>2. ItemsInv' /\ Kept(ItemsOf(Preloaded), {}) /\ now \in Nat
  BY <1>1, Marks, InvTypes DEF IInv
<1>3. /\ main' \in Mains /\ main'.pc = "clearingCells" /\ main'.position = main.position
      /\ main'.terrain = main.terrain
  BY <1>1 DEF IInv, MainInv, Mains, MainPcs
<1>4. MainInv'
  BY <1>1, <1>3 DEF IInv, MainInv, poolVars, terrainVars
<1>5. CellInv'
  <2>1. Preloaded' = Preloaded /\ ItemsOf(Preloaded)' = ItemsOf(Preloaded)
    BY <1>1 DEF Preloaded, ItemsOf
  <2>2. \A c \in Preloaded : StampOf(c)' <= now'
    BY <1>1 DEF IInv, CellInv, StampOf
  <2>3. /\ OfKind("cell") \subseteq OfKind("cell")'
        /\ \A i \in (OfKind("cell") \cap Unfinished)' : i \in OfKind("cell") \cap Unfinished
    BY <1>2, KindsKept DEF IInv
  <2>4. ASSUME NEW i \in OfKind("cell") \cap Unfinished PROVE items'[i].aborted
    <3>1. items'[i].aborted <=> items[i].aborted \/ i \in ItemsOf(Preloaded)
      BY <1>2 DEF Kept, OfKind
    <3>2. i \notin ItemsOf(Preloaded) => items[i].aborted
      BY DEF IInv, CellInv
    <3> QED BY <3>1, <3>2
  <2>5. PreloadFitsCache'
    BY <2>1 DEF IInv, CellInv, PreloadFitsCache
  <2> QED BY <1>1, <1>3, <2>1, <2>2, <2>3, <2>4, <2>5 DEF IInv, CellInv
<1>6. CacheInv'
  <2>1. OfKind("cache") \cap Unfinished = {}
    BY <1>1, ItemsOfSeq DEF IInv, CacheInv, IsDone, Unfinished
  <2>2. (OfKind("cache") \cap Unfinished)' = {}
    BY <1>2, <2>1, KindsKept DEF IInv
  <2> QED BY <1>1, <2>2 DEF IInv, CacheInv
<1>7. TerrainInv'
  BY <1>1, <1>2, TerrainStays, InvTypes DEF IInv
<1> QED BY <1>2, <1>4, <1>5, <1>6, <1>7 DEF IInv

LEMMA CellsCleared ==
    ASSUME IInv, ClearCells
    PROVE  IInv'
<1>1. /\ main.pc = "clearingCells" /\ mPreloadCells' = <<>>
      /\ IF main.terrain = NoTerrain
         THEN main' = [main EXCEPT !.pc = "gone"] /\ UNCHANGED <<mTerrain, carried>>
         ELSE /\ main' = [main EXCEPT !.pc = "switched"]
              /\ mTerrain' = main.terrain
              /\ carried' = (carried \/ mLoadedTerrainPositions # {})
      /\ UNCHANGED <<poolVars, items, mTerrainPreloadPositions, mTerrainPreloadItem,
                     mLoadedTerrainPositions, cacheVars, now, preloaded>>
  BY DEF ClearCells, MainAt, Continue
<1>2. ItemsInv' /\ Kept({}, {}) /\ now \in Nat /\ mTerrainPreloadItem = NoItem
  BY <1>1, Same, InvTypes DEF IInv, MainInv
<1>3. /\ main' \in Mains /\ main'.pc \in {"gone", "switched"} /\ mTerrain' \in Terrains
      /\ main'.pc = "switched" => main'.position \in Positions
  BY <1>1 DEF IInv, MainInv, Mains, MainPcs
<1>4. Preloaded' = {} /\ ~destroyed
  BY <1>1 DEF Preloaded, IInv, MainInv
<1>5. MainInv'
  BY <1>1, <1>2, <1>3, <1>4 DEF IInv, MainInv, poolVars
<1>6. /\ OfKind("cell")' = OfKind("cell") /\ Unfinished' = Unfinished
      /\ OfKind("terrain")' = OfKind("terrain")
  BY <1>1 DEF OfKind, Unfinished, Created, poolVars
<1>7. CellInv'
  <2>1. /\ IsFiniteSet(Preloaded') /\ PreloadFitsCache' /\ mPreloadCells' \in [Preloaded' -> Entries]
    <3>1. mPreloadCells' \in [{} -> Entries]
      BY <1>1
    <3>2. mMaxCacheSize \in Nat
      BY InvTypes
    <3> QED BY <1>4, <3>1, <3>2, FS_EmptySet DEF PreloadFitsCache
  <2>2. ItemsOf(Preloaded)' = {}
    BY <1>4 DEF ItemsOf
  <2>3. \A i \in OfKind("cell") \cap Unfinished : items'[i].aborted
    BY <1>1 DEF IInv, CellInv
  <2> QED BY <1>4, <1>6, <2>1, <2>2, <2>3 DEF CellInv
<1>8. CacheInv'
  BY <1>1, <1>2, CacheStays DEF IInv
<1>9. LoadedPositionsArePreloaded'
  BY <1>1 DEF IInv, TerrainInv, LoadedPositionsArePreloaded
<1>10. TerrainInv'
  BY <1>1, <1>2, <1>6, <1>9 DEF IInv, TerrainInv
<1> QED BY <1>2, <1>5, <1>7, <1>8, <1>10 DEF IInv

-----------------------------------------------------------------------------
(* The theorems                                                            *)

LEMMA InvInit == Init => IInv
<1> SUFFICES ASSUME Init PROVE IInv
  OBVIOUS
<1>1. /\ queue = <<>> /\ running = {} /\ done = {} /\ destroyed = FALSE /\ inline \in BOOLEAN
      /\ items = <<>> /\ mPreloadCells = <<>> /\ mTerrain \in Terrains
      /\ mTerrainPreloadPositions = {} /\ mLoadedTerrainPositions = {}
      /\ mTerrainPreloadItem = NoItem /\ mUpdateCacheItem = NoItem
      /\ mLastResourceCacheUpdate = 0 /\ now = 0
      /\ main = [pc |-> "idle", terrain |-> NoTerrain, position |-> NoPosition, next |-> "idle"]
  BY DEF Init, Pool!Init
<1>2. Created = {} /\ Preloaded = {} /\ {MaxItems, MaxTime, mMaxCacheSize} \subseteq Nat
  BY <1>1, PreloaderAssumption DEF Created, Preloaded
<1>3. ItemsInv
  <2>1. items \in Seq(Item) /\ Len(items) = 0 /\ queue \in Seq(Created)
    BY <1>1, EmptySeq
  <2>2. Len(items) <= MaxItems
    BY <1>2, <2>1
  <2>3. running \subseteq Created /\ done \subseteq Created /\ destroyed \in BOOLEAN
    BY <1>1, <1>2
  <2>4. \A i \in done : IsComplete(i)
    BY <1>1
  <2>5. ~destroyed => Created \subseteq done \cup running \cup Elements(queue)
    BY <1>2
  <2> QED BY <1>1, <2>1, <2>2, <2>3, <2>4, <2>5 DEF ItemsInv
<1>4. MainInv
  BY <1>1, <1>2 DEF MainInv, Mains, MainPcs
<1>5. CellInv
  <2>1. mPreloadCells \in [{} -> Entries]
    BY <1>1
  <2> QED BY <1>2, <2>1, FS_EmptySet DEF CellInv, PreloadFitsCache, OfKind
<1>6. CacheInv
  BY <1>1, <1>2 DEF CacheInv, OfKind
<1>7. TerrainInv
  BY <1>1, <1>2 DEF TerrainInv, OfKind, LoadedPositionsArePreloaded
<1> QED BY <1>3, <1>4, <1>5, <1>6, <1>7 DEF IInv

LEMMA InvNext == IInv /\ [Next]_vars => IInv'
<1> SUFFICES ASSUME IInv, [Next]_vars PROVE IInv'
  OBVIOUS
<1>1. CASE UNCHANGED vars
  <2>1. MainInv' /\ now \in Nat
    BY <1>1, InvTypes DEF IInv, MainInv, vars, poolVars, terrainVars, Preloaded
  <2> QED BY <1>1, <2>1, MainGoes DEF vars
<1>2. CASE Terminated
  BY <1>1, <1>2 DEF Terminated
<1>3. CASE WorkerStep
  BY <1>3, WorkerInv
<1>4. CASE DestroyQueue
  BY <1>4, QueueEnds
<1>5. CASE MainStep
  BY <1>5, SceneInv, TerrainCleared, CacheCleared, CellsCleared DEF MainStep
<1>6. ASSUME NEW c \in Cells, RefreshPreload(c) \/ Preload(c) \/ NotifyLoaded(c) PROVE IInv'
  BY <1>6, RefreshInv, PreloadInv, CellsAborted DEF NotifyLoaded
<1>7. CASE Clear \/ UpdateCache
  BY <1>7, UpdateInv, CellsAborted DEF Clear
<1>8. CASE \/ Tick \/ DestroyWorld
           \/ \E ps \in SUBSET Positions : SetTerrainPreloadPositions(ps)
           \/ \E t \in Terrains, p \in Positions : SetTerrain(t, p)
  BY <1>8, CallInv
<1> QED BY <1>1, <1>2, <1>3, <1>4, <1>5, <1>6, <1>7, <1>8 DEF Next, Call

LEMMA Invariant == Spec => []IInv
BY InvInit, InvNext, PTL DEF Spec

(* Every variable keeps its type, for any cells, positions and terrains.   *)
THEOREM TypeCorrect == Spec => []TypeOK
<1>1. IInv => TypeOK
  <2> SUFFICES ASSUME IInv PROVE TypeOK
    OBVIOUS
  <2>1. \A c \in Preloaded : StampOf(c) \in 0..now
    BY InvTypes DEF IInv, CellInv, Entries, StampOf
  <2> QED BY <2>1 DEF TypeOK, IInv, ItemsInv, MainInv, Mains, MainPcs, CellInv, CacheInv, TerrainInv
<1> QED BY <1>1, Invariant, PTL

(* The cells that are held never exceed the limit of the cache, so that    *)
(* the scene's unsigned difference does not wrap around.                   *)
THEOREM PreloadFits == Spec => []PreloadFitsCache
<1>1. IInv => PreloadFitsCache
  BY DEF IInv, CellInv
<1> QED BY <1>1, Invariant, PTL

(* What was aborted is forgotten, what is forgotten is aborted, and one    *)
(* item at a time sweeps the caches.                                       *)
THEOREM EntriesWork == Spec => []EntriesArePreloading
<1>1. IInv => EntriesArePreloading
  BY DEF IInv, CellInv, CacheInv, ItemsOf, EntriesArePreloading
<1> QED BY <1>1, Invariant, PTL

(* One item at a time loads into the views, whoever made and aborted it.   *)
THEOREM OneThreadLoads == Spec => []ViewsAreLoadedByOneThread
<1>1. IInv => ViewsAreLoadedByOneThread
  BY DEF IInv, TerrainInv, ViewsAreLoadedByOneThread
<1> QED BY <1>1, Invariant, PTL

(* Terrain is reported as loaded only where an item went.                  *)
THEOREM LoadedWasPreloaded == Spec => []LoadedPositionsArePreloaded
<1>1. IInv => LoadedPositionsArePreloaded
  BY DEF IInv, TerrainInv
<1> QED BY <1>1, Invariant, PTL

(* Work that still uses another terrain was aborted.                       *)
THEOREM OldWorkIsAborted == Spec => []OldTerrainWorkIsAborted
<1>1. IInv => OldTerrainWorkIsAborted
  <2> SUFFICES ASSUME IInv, NEW i \in Unfinished \ OfKind("cache"),
                      items[i].terrain # mTerrain \/ main.pc = "gone"
               PROVE  items[i].kind = "cell" /\ items[i].aborted
    BY DEF OldTerrainWorkIsAborted
  <2>1. i \in Created /\ items[i] \in Item /\ i # NoItem /\ NoItem \notin Created
    BY ItemsOfSeq DEF IInv, Unfinished
  <2>2. items[i].kind \in {"cell", "terrain"} /\ i \in OfKind(items[i].kind)
    BY <2>1 DEF Item, OfKind
  <2>3. CASE items[i].kind = "terrain"
    <3>1. mTerrainPreloadItem = i
      BY <2>2, <2>3 DEF IInv, TerrainInv
    <3> QED BY <2>1, <3>1 DEF IInv, TerrainInv, MainInv
  <2>4. CASE items[i].kind = "cell"
    <3>1. main.pc = "gone" => i \notin ItemsOf(Preloaded)
      BY DEF IInv, MainInv, ItemsOf
    <3>2. i \in OfKind("cell") \cap Unfinished
      BY <2>2, <2>4
    <3> QED BY <2>4, <3>1, <3>2 DEF IInv, CellInv
  <2> QED BY <2>2, <2>3, <2>4
<1> QED BY <1>1, Invariant, PTL

(* What the main thread waits for is done, worked on or in the queue.      *)
THEOREM AwaitedAreAlive == Spec => []AwaitedItemsAreAlive
<1>1. IInv => AwaitedItemsAreAlive
  <2> SUFFICES ASSUME IInv, NEW i \in Awaited PROVE i \in done \cup running \cup Elements(queue)
    BY DEF AwaitedItemsAreAlive
  <2>1. main.pc # "gone"
    BY DEF Awaited
  <2>2. i \in Created
    BY DEF Awaited, IInv, CellInv, OfKind, ItemsOf
  <2> QED BY <2>1, <2>2 DEF IInv, MainInv, ItemsInv
<1> QED BY <1>1, Invariant, PTL
=============================================================================
