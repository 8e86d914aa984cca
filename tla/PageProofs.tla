------------------------------ MODULE PageProofs ------------------------------
(***************************************************************************)
(* Proofs about the JavaScript of the page.                                *)
(*                                                                         *)
(* Of SavePersistence, for any saves, writes, pages and failures: a save   *)
(* that is not stored is on its way, stored saves are kept, and the        *)
(* player's folder is not overwritten by older saves.                      *)
(*                                                                         *)
(* Of StreamFS, for files, chunks, caches and reads of any size and any    *)
(* number of requests: read() returns the bytes of the file and the cache  *)
(* holds what its keys say, unless a late answer was written over theirs,  *)
(* and the cache holds the chunks that were used last.                     *)
(***************************************************************************)
EXTENDS SavePersistence, StreamFS, SequenceTheorems, TLAPS


------------------------------------------------------------------------------
(* Sequences.                                                               *)

LEMMA PartOfSeq ==
    ASSUME NEW S, NEW s \in Seq(S), NEW m \in 1..Len(s) + 1, NEW n \in m - 1..Len(s)
    PROVE  /\ SubSeq(s, m, n) \in Seq(S) /\ Len(SubSeq(s, m, n)) = n - m + 1
           /\ \A i \in 1..n - m + 1 : SubSeq(s, m, n)[i] = s[m + i - 1]
<1>1. \A i \in m..n : i \in 1..Len(s)
  OBVIOUS
<1>2. \A i \in m..n : s[i] \in S
  BY <1>1, ElementOfSeq
<1> QED BY <1>2, SubSeqProperties

Old(i, k) == IF k < i THEN k ELSE k + 1

(* RemoveAt closes the gap.                                                 *)
LEMMA ElementRemoved ==
    ASSUME NEW S, NEW s \in Seq(S), NEW i \in 1..Len(s)
    PROVE  /\ RemoveAt(s, i) \in Seq(S) /\ Len(RemoveAt(s, i)) = Len(s) - 1
           /\ \A k \in 1..Len(s) - 1 :
                Old(i, k) \in 1..Len(s) /\ RemoveAt(s, i)[k] = s[Old(i, k)]
<1> DEFINE left == SubSeq(s, 1, i - 1)
           right == SubSeq(s, i + 1, Len(s))
           both == left \o right
<1>1. Len(s) \in Nat
  BY LenProperties
<1>2. left \in Seq(S) /\ Len(left) = i - 1 /\ \A k \in 1..i - 1 : left[k] = s[k]
  BY <1>1, PartOfSeq
<1>3. /\ right \in Seq(S) /\ Len(right) = Len(s) - i
      /\ \A k \in 1..Len(s) - i : right[k] = s[i + 1 + k - 1]
  BY <1>1, PartOfSeq
<1>4. RemoveAt(s, i) = both
  BY DEF RemoveAt
<1> HIDE DEF left, right
<1>5. /\ both \in Seq(S) /\ Len(both) = Len(left) + Len(right)
      /\ \A k \in 1..Len(left) + Len(right) :
           both[k] = IF k <= Len(left) THEN left[k] ELSE right[k - Len(left)]
  BY <1>2, <1>3, ConcatProperties
<1> HIDE DEF both
<1>6. ASSUME NEW k \in 1..Len(s) - 1
      PROVE  Old(i, k) \in 1..Len(s) /\ both[k] = s[Old(i, k)]
  <2>1. CASE k < i
    <3>1. k \in 1..i - 1 /\ k \in 1..Len(left) + Len(right) /\ k <= Len(left)
      BY <1>1, <1>2, <1>3, <1>6, <2>1
    <3>2. both[k] = left[k] /\ left[k] = s[k]
      BY <1>2, <1>5, <3>1
    <3> QED BY <1>1, <1>6, <2>1, <3>2 DEF Old
  <2>2. CASE ~(k < i)
    <3>1. k - (i - 1) \in 1..Len(s) - i /\ i + 1 + (k - (i - 1)) - 1 = k + 1
      BY <1>1, <1>6, <2>2
    <3>2. k \in 1..Len(left) + Len(right) /\ ~(k <= Len(left)) /\ k - Len(left) = k - (i - 1)
      BY <1>1, <1>2, <1>3, <1>6, <2>2
    <3>3. both[k] = right[k - (i - 1)]
      BY <1>5, <3>2
    <3>4. right[k - (i - 1)] = s[k + 1]
      BY <1>3, <3>1
    <3> QED BY <1>1, <1>6, <2>2, <3>3, <3>4 DEF Old
  <2> QED BY <2>1, <2>2
<1> QED BY <1>1, <1>2, <1>3, <1>4, <1>5, <1>6

LEMMA TailRemoves ==
    ASSUME NEW S, NEW s \in Seq(S), 1 \in 1..Len(s)
    PROVE  Tail(s) = RemoveAt(s, 1)
<1>1. Len(s) \in Nat /\ s # <<>>
  BY LenProperties, EmptySeq
<1>2. Tail(s) = SubSeq(s, 2, Len(s))
  BY <1>1, TailIsSubSeq
<1>3. SubSeq(s, 1, 0) = <<>>
  BY SubSeqEmpty
<1>4. SubSeq(s, 2, Len(s)) \in Seq(S)
  BY <1>1, PartOfSeq
<1>5. <<>> \o SubSeq(s, 2, Len(s)) = SubSeq(s, 2, Len(s))
  BY <1>4, ConcatEmptySeq
<1> QED BY <1>2, <1>3, <1>5 DEF RemoveAt

LEMMA Appended ==
    ASSUME NEW S, NEW s \in Seq(S), NEW e \in S
    PROVE  /\ Append(s, e) \in Seq(S) /\ Len(Append(s, e)) = Len(s) + 1 /\ Len(s) \in Nat
           /\ \A k \in 1..Len(s) : Append(s, e)[k] = s[k]
           /\ Append(s, e)[Len(s) + 1] = e
BY AppendProperties, LenProperties

LEMMA OneElement ==
    ASSUME NEW S, NEW e \in S
    PROVE  <<e>> \in Seq(S) /\ Len(<<e>>) = 1 /\ <<e>>[1] = e
<1>1. [i \in 1..1 |-> e] \in Seq(S) /\ Len([i \in 1..1 |-> e]) = 1
  BY IsASeq
<1>2. <<e>> = [i \in 1..1 |-> e]
  OBVIOUS
<1> QED BY <1>1, <1>2

------------------------------------------------------------------------------
(* Types. A file is read from the folder only while it is there: nothing    *)
(* mirrors to the folder before all of it has been read.                    *)

Contents == [Files -> Entry \cup {None}]
Times == [Files -> Nat \cup {None}]
Syncs == [populate : BOOLEAN, phase : {"list", "store"},
          partial : BOOLEAN, errored : BOOLEAN,
          local : Times, left : SUBSET Files, put : Contents, del : SUBSET Files]

ReadInv ==
    /\ setup.left \subseteq Present(folder)
    /\ setup.pc # "done" \/ page = "closed" => ~folderSaves /\ mirror.pc = "idle"
    /\ setup.pc = "read" => page = "ready"
    /\ setup.pc # "read" => setup.left = {}
    /\ page = "closed" => syncs = <<>> /\ mem = NoFiles /\ setup.pc = "done"

TypeInv == TypeOK /\ ReadInv

LEMMA StampTypes ==
    ASSUME NEW m \in Contents
    PROVE  /\ Stamps(m) \in Times
           /\ \A f \in Files : /\ Stamps(m)[f] = Stamp(m[f])
                               /\ m[f] # None => m[f] \in Entry /\ m[f].mtime \in Nat
                                                 /\ m[f].data \in Nat
                               /\ Stamp(m[f]) = None <=> m[f] = None
<1>1. ASSUME NEW f \in Files
      PROVE  /\ m[f] # None => m[f] \in Entry /\ m[f].mtime \in Nat /\ m[f].data \in Nat
             /\ Stamp(m[f]) \in Nat \cup {None}
             /\ Stamp(m[f]) = None <=> m[f] = None
  <2>1. m[f] \in Entry \cup {None}
    BY DEF Contents
  <2> QED BY <2>1, NoneAssumption DEF Entry, Stamp
<1> QED BY <1>1 DEF Stamps, Times

LEMMA NoFilesTypes == NoFiles \in Contents /\ NoFiles \in Times
BY DEF NoFiles, Contents, Times

LEMMA NewSyncTypes ==
    ASSUME NEW populate \in BOOLEAN, NEW m \in Contents, NEW partial \in BOOLEAN
    PROVE  /\ NewSync(populate, m, partial) \in Syncs
           /\ NewSync(populate, m, partial).populate = populate
           /\ NewSync(populate, m, partial).phase = "list"
           /\ NewSync(populate, m, partial).partial = partial
           /\ NewSync(populate, m, partial).errored = FALSE
           /\ NewSync(populate, m, partial).local = Stamps(m)
           /\ NewSync(populate, m, partial).put = NoFiles
BY StampTypes, NoFilesTypes DEF NewSync, Syncs

LEMMA NewFlushTypes ==
    ASSUME NEW ss, NEW m \in Contents
    PROVE  /\ NewFlush(ss, m) \in Syncs
           /\ NewFlush(ss, m).populate = FALSE /\ NewFlush(ss, m).phase = "list"
           /\ NewFlush(ss, m).partial = Loads(ss) /\ NewFlush(ss, m).errored = FALSE
           /\ NewFlush(ss, m).local = Stamps(m) /\ NewFlush(ss, m).put = NoFiles
<1>1. Loads(ss) \in BOOLEAN
  BY DEF Loads
<1> QED BY <1>1, NewSyncTypes DEF NewFlush

LEMMA WriteTypes ==
    ASSUME NEW m \in Contents, NEW files, NEW bytes, now \in Nat,
           \A f \in files \cap Files : bytes[f] \in Nat
    PROVE  /\ Write(m, files, bytes) \in Contents
           /\ \A f \in Files : f \notin files => Write(m, files, bytes)[f] = m[f]
           /\ \A f \in Files : f \in files => /\ Write(m, files, bytes)[f] # None
                                              /\ Write(m, files, bytes)[f].mtime = now + 1
                                              /\ Write(m, files, bytes)[f].data = bytes[f]
<1>1. ASSUME NEW f \in Files, f \in files
      PROVE  [data |-> bytes[f], mtime |-> now + 1] \in Entry
  BY <1>1 DEF Entry
<1>2. Write(m, files, bytes) \in Contents
  BY <1>1 DEF Write, Contents
<1>3. ASSUME NEW f \in Files, f \in files
      PROVE  /\ Write(m, files, bytes)[f] # None /\ Write(m, files, bytes)[f].mtime = now + 1
             /\ Write(m, files, bytes)[f].data = bytes[f]
  BY <1>1, <1>3, NoneAssumption DEF Write, Entry
<1> QED BY <1>2, <1>3 DEF Write

(* What a flush that is asked for or ends does to the syncs.                *)
Extends(ss, m) == syncs' = ss \/ syncs' = Append(ss, NewFlush(ss, m))

LEMMA FlushTypes ==
    ASSUME NEW ss \in Seq(Syncs), NEW m \in Contents,
           syncing \in BOOLEAN, syncAgain \in BOOLEAN, flushFailed \in BOOLEAN,
           \/ Flush(ss, m)
           \/ m = mem /\ (Flushed(ss, TRUE) \/ Flushed(ss, FALSE))
    PROVE  /\ Extends(ss, m) /\ syncs' \in Seq(Syncs)
           /\ syncing' \in BOOLEAN /\ syncAgain' \in BOOLEAN /\ flushFailed' \in BOOLEAN
<1>1. NewFlush(ss, m) \in Syncs
  BY NewFlushTypes
<1>2. Append(ss, NewFlush(ss, m)) \in Seq(Syncs)
  BY <1>1, Appended
<1> QED BY <1>2 DEF Flush, Flushed, Extends

SyncTypes ==
    /\ mem \in Contents /\ idb \in Contents /\ page \in {"closed", "loading", "ready"}
    /\ syncs \in Seq(Syncs) /\ syncing \in BOOLEAN /\ syncAgain \in BOOLEAN
    /\ now \in Nat /\ flushFailed \in BOOLEAN /\ loadMarred \in BOOLEAN

LEMMA TypeParts ==
    TypeOK <=>
      /\ SyncTypes
      /\ folder \in [Files -> Nat \cup {None}]
      /\ setup \in [pc : {"wait", "read", "done"}, left : SUBSET Files]
      /\ folderSaves \in BOOLEAN
      /\ mirrored \in [Files -> Nat \cup {None}]
      /\ mirror \in [pc : {"idle", "scan", "create", "write"},
                     names : SUBSET LooseSaves, live : SUBSET LooseSaves,
                     file : Files \cup {None},
                     data : Nat \cup {None}, mtime : Nat \cup {None}]
      /\ mirrorAgain \in BOOLEAN
      /\ sessions \in 0..MaxSessions /\ failures \in 0..MaxFailures
      /\ deleted \subseteq Files /\ unread \subseteq Files
BY DEF TypeOK, SyncTypes, Contents, Syncs, Times

(* The syncs but one, and a sync that moves to the end.                     *)
LEMMA OthersTypes ==
    ASSUME SyncTypes, NEW i \in DOMAIN syncs
    PROVE  /\ i \in 1..Len(syncs) /\ syncs[i] \in Syncs
           /\ RemoveAt(syncs, i) \in Seq(Syncs)
           /\ i = 1 => Tail(syncs) = RemoveAt(syncs, 1)
<1>1. i \in 1..Len(syncs)
  BY DEF SyncTypes
<1> QED BY <1>1, ElementOfSeq, ElementRemoved, TailRemoves DEF SyncTypes

LEMMA StoredTypes ==
    ASSUME SyncTypes, NEW s \in Syncs, NEW done \in SUBSET (s.left \cup s.del)
    PROVE  /\ Stored(s, done) \in Contents
           /\ \A f \in Files :
                Stored(s, done)[f] = IF f \notin done THEN idb[f]
                                     ELSE IF f \in s.left THEN s.put[f] ELSE None
<1>1. idb \in Contents /\ s.put \in Contents
  BY DEF SyncTypes, Syncs
<1> QED BY <1>1 DEF Stored, Contents

(* Steps that leave the folder and the setup alone, on a page that stays.   *)
LEMMA SyncsOnly ==
    ASSUME TypeInv, SyncTypes', UNCHANGED <<folder, setup, mirrorVars>>,
           page # "closed", page' # "closed", page = "ready" => page' = "ready",
           sessions' = sessions, failures' \in 0..MaxFailures,
           deleted' \subseteq Files, unread' = unread
    PROVE  TypeInv'
<1>1. TypeOK'
  BY DEF TypeInv, TypeOK, SyncTypes, Contents, Syncs, Times, mirrorVars
<1>2. ReadInv'
  BY DEF TypeInv, ReadInv, mirrorVars, Present
<1> QED BY <1>1, <1>2 DEF TypeInv

(* There is no sync while the page is closed.                               *)
LEMMA SyncsOpen ==
    ASSUME TypeInv, DOMAIN syncs # {}
    PROVE  page # "closed"
BY DEF TypeInv, ReadInv

LEMMA FailuresBound ==
    ASSUME TypeOK, failures < MaxFailures, failures' = failures + 1
    PROVE  failures' \in 0..MaxFailures
BY BoundsAssumption, TypeParts

(* The rest of a load, with an entry less to copy.                          *)
LEMMA EntryTypes ==
    ASSUME SyncTypes, NEW i \in DOMAIN syncs, NEW f,
           NEW e \in BOOLEAN
    PROVE  LET s == [syncs[i] EXCEPT !.left = @ \ {f}, !.errored = e]
           IN  /\ s \in Syncs
               /\ [syncs EXCEPT ![i] = s] \in Seq(Syncs)
               /\ s.populate = syncs[i].populate /\ s.phase = syncs[i].phase
               /\ s.errored = e /\ s.left = syncs[i].left \ {f} /\ s.put = syncs[i].put
               /\ s.local = syncs[i].local
<1> DEFINE s == [syncs[i] EXCEPT !.left = @ \ {f}, !.errored = e]
<1>1. syncs[i] \in Syncs /\ i \in 1..Len(syncs)
  BY OthersTypes
<1>2. /\ s \in Syncs
      /\ s.populate = syncs[i].populate /\ s.phase = syncs[i].phase
      /\ s.errored = e /\ s.left = syncs[i].left \ {f} /\ s.put = syncs[i].put
      /\ s.local = syncs[i].local
  BY <1>1 DEF Syncs
<1> HIDE DEF s
<1>3. [syncs EXCEPT ![i] = s] \in Seq(Syncs)
  BY <1>1, <1>2, ExceptSeq DEF SyncTypes
<1> QED BY <1>2, <1>3 DEF s

LEMMA FlushStepTypes ==
    ASSUME TypeInv, NEW i \in DOMAIN syncs,
           ReconcileFlush(i) \/ CommitFlush(i) \/ FlushFails(i)
    PROVE  TypeInv'
<1>1. SyncTypes /\ syncs[i] \in Syncs /\ RemoveAt(syncs, i) \in Seq(Syncs)
      /\ (i = 1 => Tail(syncs) = RemoveAt(syncs, i)) /\ page # "closed"
  BY OthersTypes, TypeParts, SyncsOpen DEF TypeInv
<1>2. CASE ReconcileFlush(i)
  <2> DEFINE local  == syncs[i].local
             create == {f \in Files : local[f] # None /\ local[f] # Stamp(idb[f])}
             del    == {f \in Present(idb) : local[f] = None}
             lost   == create \ Present(mem)
             others == RemoveAt(syncs, i)
             store  == [syncs[i] EXCEPT !.phase = "store", !.local = NoFiles,
                          !.errored = (lost # {}), !.left = create \ lost,
                          !.put = mem, !.del = del]
  <2>1. store \in Syncs
    BY <1>1, NoFilesTypes DEF Syncs, SyncTypes, Present
  <2>2. \/ Flushed(others, FALSE)
        \/ syncs' = Append(others, store) /\ UNCHANGED <<syncing, syncAgain, flushFailed>>
        \/ Flushed(Append(others, store), FALSE)
    BY <1>2 DEF ReconcileFlush
  <2>3. /\ UNCHANGED <<folder, setup, mirrorVars, deleted, unread, failures, sessions, page,
                       mem, idb, now, loadMarred>>
    BY <1>2 DEF ReconcileFlush
  <2> HIDE DEF store, others
  <2>4. Append(others, store) \in Seq(Syncs) /\ others \in Seq(Syncs)
    BY <1>1, <2>1, Appended DEF others
  <2>5. SyncTypes'
    BY <1>1, <2>2, <2>3, <2>4, FlushTypes DEF SyncTypes
  <2> QED BY <1>1, <2>3, <2>5, SyncsOnly, TypeParts DEF TypeInv
<1>3. CASE CommitFlush(i)
  <2>1. i = 1
    BY <1>3 DEF CommitFlush, CanStore
  <2>2. \/ syncs' = RemoveAt(syncs, i) /\ UNCHANGED <<syncing, syncAgain, flushFailed>>
        \/ Flushed(RemoveAt(syncs, i), FALSE)
    BY <1>1, <1>3, <2>1 DEF CommitFlush
  <2>3. UNCHANGED <<folder, setup, mirrorVars, deleted, unread, failures, sessions, page, mem,
                    now, loadMarred>>
    BY <1>3 DEF CommitFlush
  <2>4. idb' \in Contents
    BY <1>1, <1>3, StoredTypes DEF CommitFlush
  <2>5. SyncTypes'
    BY <1>1, <2>2, <2>3, <2>4, FlushTypes DEF SyncTypes
  <2> QED BY <1>1, <2>3, <2>5, SyncsOnly, TypeParts DEF TypeInv
<1>4. CASE FlushFails(i)
  <2>1. \/ /\ syncs' = RemoveAt(syncs, i) /\ UNCHANGED <<syncing, syncAgain>>
           /\ flushFailed' = TRUE
        \/ Flushed(RemoveAt(syncs, i), TRUE)
    BY <1>4 DEF FlushFails
  <2>2. UNCHANGED <<folder, setup, mirrorVars, deleted, unread, sessions, page, mem,
                    now, loadMarred>>
    BY <1>4 DEF FlushFails
  <2>3. idb' \in Contents
    BY <1>1, <1>4, StoredTypes DEF FlushFails, SyncTypes
  <2>4. SyncTypes'
    BY <1>1, <2>1, <2>2, <2>3, FlushTypes DEF SyncTypes
  <2>5. failures' \in 0..MaxFailures
    BY <1>4, FailuresBound DEF FlushFails, TypeInv
  <2> QED BY <1>1, <2>2, <2>4, <2>5, SyncsOnly, TypeParts DEF TypeInv
<1> QED BY <1>2, <1>3, <1>4

LEMMA LoadStepTypes ==
    ASSUME TypeInv, NEW i \in DOMAIN syncs,
           \/ ReconcileLoad(i) \/ EndLoad(i) \/ LoadFails(i)
           \/ \E f \in Files : LoadEntry(i, f) \/ EntryIsGone(i, f)
    PROVE  TypeInv'
<1>1. SyncTypes /\ syncs[i] \in Syncs /\ RemoveAt(syncs, i) \in Seq(Syncs)
      /\ (i = 1 => Tail(syncs) = RemoveAt(syncs, i)) /\ page # "closed"
  BY OthersTypes, TypeParts, SyncsOpen DEF TypeInv
<1>2. CASE ReconcileLoad(i)
  <2>1. PICK create \in SUBSET Files :
          \/ Loaded(RemoveAt(syncs, i))
          \/ /\ syncs' = Append(RemoveAt(syncs, i), [syncs[i] EXCEPT !.phase = "store",
                                                        !.left = create])
             /\ UNCHANGED <<page, syncing, syncAgain, flushFailed>>
    BY <1>2 DEF ReconcileLoad, Present
  <2> DEFINE store == [syncs[i] EXCEPT !.phase = "store", !.left = create]
  <2>2. store \in Syncs
    BY <1>1 DEF Syncs
  <2> HIDE DEF store
  <2>3. Append(RemoveAt(syncs, i), store) \in Seq(Syncs)
    BY <1>1, <2>2, Appended
  <2>4. UNCHANGED <<folder, setup, mirrorVars, deleted, unread, failures, sessions, mem, idb,
                    now, loadMarred>>
    BY <1>2 DEF ReconcileLoad
  <2>5. SyncTypes' /\ (page' = "ready" \/ page' = page)
    BY <1>1, <2>1, <2>3, <2>4, FlushTypes DEF SyncTypes, Loaded, store
  <2> QED BY <1>1, <2>4, <2>5, SyncsOnly, TypeParts DEF TypeInv
<1>3. CASE EndLoad(i)
  <2>1. \/ /\ syncs' = RemoveAt(syncs, i)
           /\ UNCHANGED <<page, syncing, syncAgain, flushFailed>>
        \/ Loaded(RemoveAt(syncs, i))
    BY <1>1, <1>3 DEF EndLoad, CanStore
  <2>2. UNCHANGED <<folder, setup, mirrorVars, deleted, unread, failures, sessions, mem, idb,
                    now, loadMarred>>
    BY <1>3 DEF EndLoad
  <2>3. SyncTypes' /\ (page' = "ready" \/ page' = page)
    BY <1>1, <2>1, <2>2, FlushTypes DEF SyncTypes, Loaded
  <2> QED BY <1>1, <2>2, <2>3, SyncsOnly, TypeParts DEF TypeInv
<1>4. ASSUME NEW f \in Files, EntryFails(i, f),
             UNCHANGED <<mem, idb, folder, setup, mirrorVars, now, sessions, deleted, unread>>,
             failures' \in 0..MaxFailures, loadMarred' = TRUE
      PROVE  TypeInv'
  <2> DEFINE rest == [syncs EXCEPT ![i].left = @ \ {f}, ![i].errored = TRUE]
             s == [syncs[i] EXCEPT !.left = @ \ {f}, !.errored = TRUE]
  <2>1. rest = [syncs EXCEPT ![i] = s]
    OBVIOUS
  <2>2. rest \in Seq(Syncs)
    BY <1>1, <2>1, EntryTypes
  <2>3. \/ syncs' = rest /\ UNCHANGED <<page, syncing, syncAgain, flushFailed>>
        \/ Loaded(rest)
    BY <1>4 DEF EntryFails
  <2> HIDE DEF rest
  <2>4. SyncTypes' /\ (page' = "ready" \/ page' = page)
    BY <1>1, <1>4, <2>2, <2>3, FlushTypes DEF SyncTypes, Loaded
  <2> QED BY <1>1, <1>4, <2>4, SyncsOnly, TypeParts DEF TypeInv
<1>5. ASSUME NEW f \in Files, EntryIsGone(i, f) PROVE TypeInv'
  BY <1>4, <1>5, TypeParts DEF EntryIsGone, TypeInv
<1>6. CASE LoadFails(i)
  <2>1. failures' \in 0..MaxFailures /\ loadMarred' = TRUE
    BY <1>6, FailuresBound DEF LoadFails, TypeInv
  <2>2. UNCHANGED <<mem, idb, folder, setup, mirrorVars, now, sessions, deleted, unread>>
    BY <1>6 DEF LoadFails
  <2>3. CASE Loaded(RemoveAt(syncs, i))
    <3>1. SyncTypes' /\ page' = "ready"
      BY <1>1, <2>1, <2>2, <2>3, FlushTypes DEF SyncTypes, Loaded
    <3> QED BY <1>1, <2>1, <2>2, <3>1, SyncsOnly, TypeParts DEF TypeInv
  <2> QED BY <1>4, <1>6, <2>1, <2>2, <2>3 DEF LoadFails
<1>7. ASSUME NEW f \in Files, LoadEntry(i, f) PROVE TypeInv'
  <2> DEFINE s == [syncs[i] EXCEPT !.left = @ \ {f}]
  <2>1. s \in Syncs /\ syncs' = [syncs EXCEPT ![i] = s]
    BY <1>1, <1>7 DEF LoadEntry, Syncs
  <2>2. i \in 1..Len(syncs)
    BY <1>1, OthersTypes
  <2> HIDE DEF s
  <2>3. syncs' \in Seq(Syncs)
    BY <1>1, <2>1, <2>2, ExceptSeq DEF SyncTypes
  <2>4. mem' \in Contents
    BY <1>1, <1>7 DEF LoadEntry, SyncTypes, Contents
  <2>5. SyncTypes'
    BY <1>1, <1>7, <2>3, <2>4 DEF LoadEntry, SyncTypes, history
  <2> QED BY <1>1, <1>7, <2>5, SyncsOnly, TypeParts DEF TypeInv, LoadEntry, history
<1> QED BY <1>2, <1>3, <1>5, <1>6, <1>7

LEMMA FolderTypes ==
    ASSUME TypeInv, SetupStep \/ MirrorStep \/ MirrorFails \/ \E f \in Files : ReadFails(f)
    PROVE  TypeInv'
<1>1. SyncTypes /\ ReadInv /\ folder \in [Files -> Nat \cup {None}]
  BY TypeParts DEF TypeInv
<1>2. CASE SetupFolderSaves
  <2>1. /\ setup' \in [pc : {"wait", "read", "done"}, left : SUBSET Files]
        /\ setup'.left \subseteq Present(folder)
        /\ setup'.pc # "read" => setup'.left = {}
    BY <1>2 DEF SetupFolderSaves, NoSetup, Present
  <2>2. UNCHANGED <<mem, idb, folder, page, syncVars, mirrorVars, now, sessions, failures,
                    history>> /\ setup.pc = "wait" /\ page = "ready"
    BY <1>2 DEF SetupFolderSaves
  <2>3. TypeOK'
    <3>1. SyncTypes'
      BY <1>1, <2>2 DEF SyncTypes, syncVars, history
    <3> QED BY <2>1, <2>2, <3>1, TypeParts DEF TypeInv, TypeOK, mirrorVars, history,
                SyncTypes, Contents, Syncs, Times
  <2>4. ReadInv'
    <3>1. folder' = folder /\ page' = "ready" /\ folderSaves' = folderSaves /\ mirror' = mirror
      BY <2>2 DEF mirrorVars
    <3>2. ~folderSaves /\ mirror.pc = "idle"
      BY <1>1, <2>2 DEF ReadInv
    <3> QED BY <2>1, <3>1, <3>2 DEF ReadInv, Present
  <2> QED BY <2>3, <2>4 DEF TypeInv
<1>3. ASSUME NEW f \in Files, ReadFromFolder(f)
      PROVE  TypeInv'
  <2>1. /\ setup.pc = "read" /\ f \in setup.left /\ setup' = [setup EXCEPT !.left = @ \ {f}]
        /\ mem' = Write(mem, {f}, folder) /\ now' = now + 1
        /\ mirrored' = [mirrored EXCEPT ![f] = now + 1]
        /\ UNCHANGED <<idb, folder, page, syncVars, folderSaves, mirror, mirrorAgain,
                       sessions, failures, history>>
    BY <1>3 DEF ReadFromFolder
  <2>2. page = "ready" /\ folder[f] \in Nat
    BY <1>1, <2>1 DEF ReadInv, Present
  <2>3. mem' \in Contents /\ now' \in Nat /\ mirrored' \in [Files -> Nat \cup {None}]
    BY <1>1, <2>1, <2>2, WriteTypes DEF SyncTypes, TypeInv, TypeOK
  <2>4. /\ setup' \in [pc : {"wait", "read", "done"}, left : SUBSET Files]
        /\ setup'.left \subseteq setup.left /\ setup'.pc = setup.pc
    BY <2>1 DEF TypeInv, TypeOK
  <2>5. TypeOK'
    <3>1. SyncTypes'
      BY <1>1, <2>1, <2>3 DEF SyncTypes, syncVars, history
    <3> QED BY <2>1, <2>3, <2>4, <3>1 DEF TypeInv, TypeOK, history,
                SyncTypes, Contents, Syncs, Times
  <2>6. ReadInv'
    BY <1>1, <2>1, <2>2, <2>4 DEF ReadInv, Present
  <2> QED BY <2>5, <2>6 DEF TypeInv
<1>4. CASE EndSetup
  <2>1. /\ setup.pc = "read" /\ setup' = NoSetup /\ folderSaves' = TRUE /\ Flush(syncs, mem)
        /\ UNCHANGED <<mem, idb, folder, page, mirrored, mirror, mirrorAgain, now, sessions,
                       failures, loadMarred, deleted, unread>>
    BY <1>4 DEF EndSetup
  <2>2. SyncTypes'
    BY <1>1, <2>1, FlushTypes DEF SyncTypes
  <2>3. setup' \in [pc : {"wait", "read", "done"}, left : SUBSET Files] /\ setup'.left = {}
        /\ setup'.pc = "done"
    BY <2>1 DEF NoSetup
  <2>4. TypeOK'
    BY <2>1, <2>2, <2>3 DEF TypeInv, TypeOK, SyncTypes, Contents, Syncs, Times
  <2>5. ReadInv'
    BY <1>1, <2>1, <2>3 DEF ReadInv, Present
  <2> QED BY <2>4, <2>5 DEF TypeInv
<1>5. ASSUME NEW f \in Files, ReadFails(f)
      PROVE  TypeInv'
  <2>1. /\ setup' = [setup EXCEPT !.left = @ \ {f}] /\ unread' = unread \cup {f}
        /\ UNCHANGED <<mem, idb, folder, page, syncVars, mirrorVars, now, sessions,
                       loadMarred, flushFailed, deleted>>
    BY <1>5 DEF ReadFails
  <2>2. failures' \in 0..MaxFailures
    BY <1>5, FailuresBound DEF ReadFails, TypeInv
  <2>3. /\ setup' \in [pc : {"wait", "read", "done"}, left : SUBSET Files]
        /\ setup'.left \subseteq setup.left /\ setup'.pc = setup.pc
    BY <2>1 DEF TypeInv, TypeOK
  <2>4. TypeOK'
    BY <2>1, <2>2, <2>3 DEF TypeInv, TypeOK, syncVars, mirrorVars
  <2>5. ReadInv'
    BY <1>1, <2>1, <2>3 DEF ReadInv, mirrorVars, syncVars, Present
  <2> QED BY <2>4, <2>5 DEF TypeInv
<1>6. ASSUME mirror.pc # "idle", mirror' \in [pc : {"idle", "scan", "create", "write"},
                     names : SUBSET LooseSaves, live : SUBSET LooseSaves,
                     file : Files \cup {None},
                     data : Nat \cup {None}, mtime : Nat \cup {None}],
             folder' \in [Files -> Nat \cup {None}],
             mirrored' \in [Files -> Nat \cup {None}], mirrorAgain' \in BOOLEAN,
             failures' \in 0..MaxFailures,
             UNCHANGED <<mem, idb, page, syncVars, setup, folderSaves, now, sessions, history>>
      PROVE  TypeInv'
  <2>1. TypeOK'
    BY <1>6 DEF TypeInv, TypeOK, syncVars, history
  <2>2. setup.pc = "done" /\ page # "closed"
    BY <1>1, <1>6 DEF ReadInv
  <2>3. ReadInv'
    BY <1>1, <1>6, <2>2 DEF ReadInv, Present, syncVars
  <2> QED BY <2>1, <2>3 DEF TypeInv
<1> DEFINE MirrorTypes == [pc : {"idle", "scan", "create", "write"},
                           names : SUBSET LooseSaves, live : SUBSET LooseSaves,
                           file : Files \cup {None},
                           data : Nat \cup {None}, mtime : Nat \cup {None}]
<1>7. mirror \in MirrorTypes /\ mirrored \in [Files -> Nat \cup {None}]
      /\ NoMirror \in MirrorTypes /\ NewMirror \in MirrorTypes /\ MirrorIdle \in MirrorTypes
      /\ mirrorAgain \in BOOLEAN /\ failures \in 0..MaxFailures
  <2>1. mirror \in MirrorTypes
    BY DEF TypeInv, TypeOK
  <2> QED BY <2>1 DEF TypeInv, TypeOK, NoMirror, NewMirror, MirrorIdle
<1>8. ASSUME NEW f \in Files, MirrorFile(f)
      PROVE  TypeInv'
  <2>1. /\ mirror.pc = "scan" /\ f \in mirror.names /\ mem[f] # None
        /\ \/ mirror' = [mirror EXCEPT !.names = @ \ {f}, !.live = @ \cup {f}]
           \/ mirror' = [[mirror EXCEPT !.names = @ \ {f}, !.live = @ \cup {f}]
                           EXCEPT !.pc = "create", !.file = f,
                                  !.data = mem[f].data, !.mtime = mem[f].mtime]
        /\ UNCHANGED <<mem, idb, folder, page, syncVars, setup, folderSaves, mirrored,
                       mirrorAgain, now, sessions, failures, history>>
    BY <1>8 DEF MirrorFile
  <2>2. mem[f].data \in Nat /\ mem[f].mtime \in Nat
    BY <1>1, <2>1, StampTypes DEF SyncTypes
  <2>3. [mirror EXCEPT !.names = @ \ {f}, !.live = @ \cup {f}] \in MirrorTypes
    BY <1>7, <2>1
  <2>4. mirror' \in MirrorTypes
    BY <2>1, <2>2, <2>3
  <2> QED BY <1>1, <1>6, <1>7, <2>1, <2>4
<1>9. CASE MirrorCreate
  <2>1. /\ mirror.pc = "create" /\ mirror' = [mirror EXCEPT !.pc = "write"]
        /\ folder' = [folder EXCEPT ![mirror.file] = IF @ = None THEN EmptyFile ELSE @]
        /\ UNCHANGED <<mem, idb, page, syncVars, setup, folderSaves, mirrored, mirrorAgain,
                       now, sessions, failures, history>>
    BY <1>9 DEF MirrorCreate
  <2>2. mirror' \in MirrorTypes /\ folder' \in [Files -> Nat \cup {None}]
    BY <1>1, <1>7, <2>1 DEF EmptyFile
  <2> QED BY <1>6, <1>7, <2>1, <2>2
<1>10. CASE MirrorWrite
  <2>1. /\ mirror.pc = "write" /\ mirror' = MirrorIdle
        /\ folder' = [folder EXCEPT ![mirror.file] = mirror.data]
        /\ mirrored' = [mirrored EXCEPT ![mirror.file] = mirror.mtime]
        /\ UNCHANGED <<mem, idb, page, syncVars, setup, folderSaves, mirrorAgain, now,
                       sessions, failures, history>>
    BY <1>10 DEF MirrorWrite
  <2>2. /\ folder' \in [Files -> Nat \cup {None}] /\ mirrored' \in [Files -> Nat \cup {None}]
    BY <1>1, <1>7, <2>1
  <2> QED BY <1>6, <1>7, <2>1, <2>2
<1>11. CASE MirrorFails
  <2>1. /\ mirror.pc # "idle" /\ mirror' = MirrorIdle
        /\ UNCHANGED <<mem, idb, folder, page, syncVars, setup, folderSaves, mirrored,
                       mirrorAgain, now, sessions, history>>
    BY <1>11 DEF MirrorFails
  <2>2. failures' \in 0..MaxFailures
    BY <1>11, FailuresBound DEF MirrorFails, TypeInv
  <2> QED BY <1>1, <1>6, <1>7, <2>1, <2>2
<1>12. CASE EndMirror
  <2>1. PICK gone :
          /\ folder' = [f \in Files |-> IF f \in gone THEN None ELSE folder[f]]
          /\ mirrored' = [f \in Files |-> IF f \in gone THEN None ELSE mirrored[f]]
          /\ mirror.pc = "scan" /\ mirror' \in {NewMirror, NoMirror} /\ mirrorAgain' = FALSE
          /\ UNCHANGED <<mem, idb, page, syncVars, setup, folderSaves, now, sessions,
                         failures, history>>
    BY <1>12 DEF EndMirror
  <2>2. /\ folder' \in [Files -> Nat \cup {None}] /\ mirrored' \in [Files -> Nat \cup {None}]
    BY <1>1, <1>7, <2>1
  <2> QED BY <1>6, <1>7, <2>1, <2>2
<1> QED BY <1>2, <1>3, <1>4, <1>5, <1>8, <1>9, <1>10, <1>11, <1>12 DEF SetupStep, MirrorStep

LEMMA GameTypes ==
    ASSUME TypeInv, Game \/ OmwSync \/ Close \/ \E srcLocal \in BOOLEAN : OpenPage(srcLocal)
    PROVE  TypeInv'
<1>1. SyncTypes /\ ReadInv /\ folder \in [Files -> Nat \cup {None}]
  BY TypeParts DEF TypeInv
<1>2. ASSUME NEW files \in SUBSET Files, NEW bytes, \A f \in files : bytes[f] \in Nat,
             mem' = Write(mem, files, bytes), now' = now + 1, page # "closed",
             loadMarred' \in BOOLEAN, Flush(syncs, mem'),
             UNCHANGED <<idb, folder, page, setup, mirrorVars, sessions, failures, deleted,
                         unread>>
      PROVE  TypeInv'
  <2>1. mem' \in Contents /\ now' \in Nat
    BY <1>1, <1>2, WriteTypes DEF SyncTypes
  <2>2. SyncTypes'
    BY <1>1, <1>2, <2>1, FlushTypes DEF SyncTypes
  <2> QED BY <1>2, <2>2, SyncsOnly, TypeParts DEF TypeInv
<1>3. ASSUME NEW f \in Files, SaveGame(f) PROVE TypeInv'
  <2>1. [g \in {f} |-> now + 1][f] \in Nat
    BY <1>1 DEF SyncTypes
  <2>2. /\ mem' = Write(mem, {f}, [g \in {f} |-> now + 1]) /\ now' = now + 1
        /\ page # "closed" /\ loadMarred' = loadMarred /\ Flush(syncs, mem')
        /\ UNCHANGED <<idb, folder, page, setup, mirrorVars, sessions, failures, deleted,
                       unread>>
    BY <1>3 DEF SaveGame, EngineRuns
  <2> QED BY <1>1, <1>2, <2>1, <2>2 DEF SyncTypes
<1>4. ASSUME NEW files \in SUBSET Files, Restore(files) PROVE TypeInv'
  <2>1. \A f \in files : [g \in files |-> now + 1][f] \in Nat
    BY <1>1 DEF SyncTypes
  <2>2. /\ mem' = Write(mem, files, [g \in files |-> now + 1]) /\ now' = now + 1
        /\ page # "closed" /\ loadMarred' = (loadMarred \/ Loads(syncs)) /\ Flush(syncs, mem')
        /\ UNCHANGED <<idb, folder, page, setup, mirrorVars, sessions, failures, deleted,
                       unread>>
    BY <1>4 DEF Restore
  <2>3. loadMarred' \in BOOLEAN
    BY <2>2 DEF Loads
  <2> QED BY <1>2, <2>1, <2>2, <2>3
<1>5. ASSUME NEW f \in Files, DeleteGame(f) PROVE TypeInv'
  <2>1. /\ mem' = [mem EXCEPT ![f] = None] /\ deleted' = deleted \cup {f} /\ page = "ready"
        /\ UNCHANGED <<idb, folder, page, syncVars, setup, mirrorVars, now, sessions, failures,
                       loadMarred, flushFailed, unread>>
    BY <1>5 DEF DeleteGame, EngineRuns
  <2>2. mem' \in Contents
    BY <1>1, <2>1 DEF SyncTypes, Contents
  <2>3. SyncTypes'
    BY <1>1, <2>1, <2>2 DEF SyncTypes, syncVars
  <2> QED BY <2>1, <2>3, SyncsOnly, TypeParts DEF TypeInv
<1>6. ASSUME NEW f \in Files, PutInFolder(f) PROVE TypeInv'
  <2>1. /\ folder' = [folder EXCEPT ![f] = now + 1] /\ now' = now + 1 /\ page = "closed"
        /\ UNCHANGED <<mem, idb, page, syncVars, setup, mirrorVars, sessions, failures, history>>
    BY <1>6 DEF PutInFolder
  <2>2. folder' \in [Files -> Nat \cup {None}] /\ now' \in Nat
    BY <1>1, <2>1 DEF SyncTypes
  <2>3. TypeOK'
    BY <2>1, <2>2 DEF TypeInv, TypeOK, syncVars, mirrorVars, history
  <2>4. ReadInv'
    BY <1>1, <2>1 DEF ReadInv, Present, syncVars, mirrorVars
  <2> QED BY <2>3, <2>4 DEF TypeInv
<1>7. CASE OmwSync
  <2>1. /\ page # "closed" /\ Flush(syncs, mem)
        /\ UNCHANGED <<mem, idb, folder, page, setup, now, sessions, failures, deleted, unread,
                       loadMarred, folderSaves, mirrored>>
        /\ \/ UNCHANGED <<mirror, mirrorAgain>>
           \/ folderSaves /\ mirrorAgain' = TRUE /\ UNCHANGED mirror
           \/ folderSaves /\ mirror' = NewMirror /\ UNCHANGED mirrorAgain
    BY <1>7 DEF OmwSync, StartMirror
  <2>2. SyncTypes'
    BY <1>1, <2>1, FlushTypes DEF SyncTypes
  <2>3. /\ mirror' \in [pc : {"idle", "scan", "create", "write"},
                        names : SUBSET LooseSaves, live : SUBSET LooseSaves,
                        file : Files \cup {None},
                        data : Nat \cup {None}, mtime : Nat \cup {None}]
        /\ mirrorAgain' \in BOOLEAN
    <3>1. NewMirror \in [pc : {"idle", "scan", "create", "write"},
                         names : SUBSET LooseSaves, live : SUBSET LooseSaves,
                         file : Files \cup {None},
                         data : Nat \cup {None}, mtime : Nat \cup {None}]
      BY DEF NewMirror, NoMirror
    <3> QED BY <2>1, <3>1 DEF TypeInv, TypeOK
  <2>4. TypeOK'
    BY <2>1, <2>2, <2>3 DEF TypeInv, TypeOK, SyncTypes, Contents, Syncs, Times
  <2>5. ReadInv'
    BY <1>1, <2>1 DEF ReadInv, Present
  <2> QED BY <2>4, <2>5 DEF TypeInv
<1>8. CASE Close
  <2>1. /\ mem' = NoFiles /\ page' = "closed" /\ syncs' = <<>> /\ syncing' = FALSE
        /\ syncAgain' = FALSE /\ setup' = NoSetup /\ folderSaves' = FALSE
        /\ mirrored' = NoFiles /\ mirror' = NoMirror /\ mirrorAgain' = FALSE
        /\ loadMarred' = FALSE /\ flushFailed' = FALSE /\ deleted' = {} /\ unread' = {}
        /\ UNCHANGED <<idb, folder, now, sessions, failures>>
    BY <1>8 DEF Close
  <2>2. SyncTypes'
    BY <1>1, <2>1, NoFilesTypes, EmptySeq DEF SyncTypes
  <2>3. TypeOK'
    BY <2>1, <2>2, NoFilesTypes
       DEF TypeInv, TypeOK, SyncTypes, Contents, Syncs, Times, NoMirror, NoSetup
  <2>4. ReadInv'
    BY <2>1 DEF ReadInv, NoMirror, NoSetup, Present
  <2> QED BY <2>3, <2>4 DEF TypeInv
<1>9. ASSUME NEW srcLocal \in BOOLEAN, OpenPage(srcLocal) PROVE TypeInv'
  <2>1. /\ page = "closed" /\ page' = "loading" /\ syncs' = <<NewSync(TRUE, mem, FALSE)>>
        /\ sessions' = sessions + 1 /\ sessions < MaxSessions
        /\ setup' = [NoSetup EXCEPT !.pc = IF srcLocal THEN "wait" ELSE "done"]
        /\ UNCHANGED <<mem, idb, folder, syncing, syncAgain, mirrorVars, now, failures, history>>
    BY <1>9 DEF OpenPage
  <2>2. NewSync(TRUE, mem, FALSE) \in Syncs
    BY <1>1, NewSyncTypes DEF SyncTypes
  <2>3. SyncTypes'
    <3>1. syncs' \in Seq(Syncs)
      BY <2>1, <2>2, OneElement
    <3> QED BY <1>1, <2>1, <3>1 DEF SyncTypes, history
  <2>4. /\ setup' \in [pc : {"wait", "read", "done"}, left : SUBSET Files]
        /\ setup'.left = {} /\ setup'.pc # "read"
    BY <2>1 DEF NoSetup
  <2>5. sessions' \in 0..MaxSessions
    BY <2>1, BoundsAssumption DEF TypeInv, TypeOK
  <2>6. TypeOK'
    BY <2>1, <2>3, <2>4, <2>5
       DEF TypeInv, TypeOK, SyncTypes, Contents, Syncs, Times, history, mirrorVars
  <2>7. ReadInv'
    BY <1>1, <2>1, <2>4 DEF ReadInv, mirrorVars, Present
  <2> QED BY <2>6, <2>7 DEF TypeInv
<1> QED BY <1>3, <1>4, <1>5, <1>6, <1>7, <1>8, <1>9 DEF Game

LEMMA TypesInit == Init => TypeInv
<1> SUFFICES ASSUME Init PROVE TypeInv
  OBVIOUS
<1>1. SyncTypes
  BY NoFilesTypes, EmptySeq DEF Init, SyncTypes
<1>2. TypeOK
  <2>1. 0 \in 0..MaxSessions /\ 0 \in 0..MaxFailures
    BY BoundsAssumption
  <2>2. NoMirror \in [pc : {"idle", "scan", "create", "write"},
                     names : SUBSET LooseSaves, live : SUBSET LooseSaves,
                     file : Files \cup {None},
                     data : Nat \cup {None}, mtime : Nat \cup {None}]
    BY DEF NoMirror
  <2>3. NoSetup \in [pc : {"wait", "read", "done"}, left : SUBSET Files]
    BY DEF NoSetup
  <2> QED BY <1>1, <2>1, <2>2, <2>3, TypeParts, NoFilesTypes DEF Init, Times
<1>3. ReadInv
  BY DEF Init, ReadInv, NoMirror, NoSetup, Present
<1> QED BY <1>2, <1>3 DEF TypeInv

LEMMA TypesNext == TypeInv /\ [Next]_vars => TypeInv'
<1> SUFFICES ASSUME TypeInv, [Next]_vars PROVE TypeInv'
  OBVIOUS
<1>1. CASE UNCHANGED vars
  BY <1>1 DEF vars, TypeInv, TypeOK, ReadInv, Present, syncVars, mirrorVars, history
<1>2. CASE FlushStep \/ LoadStep \/ Failure
  BY <1>2, FlushStepTypes, LoadStepTypes, FolderTypes DEF FlushStep, LoadStep, Failure
<1> QED BY <1>1, <1>2, FolderTypes, GameTypes DEF Next

(* Every variable keeps its type, for any number of saves and pages.        *)
THEOREM TypeCorrect == Spec => []TypeOK
<1>1. TypeInv => TypeOK
  BY DEF TypeInv
<1> QED BY <1>1, TypesInit, TypesNext, PTL DEF Spec

------------------------------------------------------------------------------
(* The order of the syncs: at most one flush is waited for, and it is the   *)
(* last of the flushes; there is one load, which is over when the page is   *)
(* ready, unless it met an error.                                           *)

InOrder(ss) ==
    /\ \A i \in DOMAIN ss : ~ss[i].populate /\ ss[i].errored => ss[i].phase = "store"
    /\ \A i, k \in DOMAIN ss : ~ss[i].populate /\ ~ss[k].populate /\ i < k => ss[i].errored
    /\ \A i, k \in DOMAIN ss : ss[i].populate /\ ss[k].populate => i = k
AllErrored(ss) == \A i \in DOMAIN ss : ~ss[i].populate => ss[i].errored

OrderInv ==
    /\ InOrder(syncs)
    /\ ~syncing => AllErrored(syncs)
    /\ page = "ready" /\ ~loadMarred => ~Loads(syncs)

LEMMA RemovedInOrder ==
    ASSUME NEW ss \in Seq(Syncs), InOrder(ss), NEW i \in DOMAIN ss
    PROVE  /\ RemoveAt(ss, i) \in Seq(Syncs) /\ InOrder(RemoveAt(ss, i))
           /\ AllErrored(ss) \/ (~ss[i].populate /\ ~ss[i].errored)
                => AllErrored(RemoveAt(ss, i))
           /\ ss[i].populate \/ ~Loads(ss) => ~Loads(RemoveAt(ss, i))
<1> DEFINE rest == RemoveAt(ss, i)
<1>1. i \in 1..Len(ss) /\ Len(ss) \in Nat /\ DOMAIN ss = 1..Len(ss)
  BY LenProperties
<1>2. /\ rest \in Seq(Syncs) /\ Len(rest) = Len(ss) - 1
      /\ \A k \in 1..Len(ss) - 1 : Old(i, k) \in 1..Len(ss) /\ rest[k] = ss[Old(i, k)]
  BY <1>1, ElementRemoved
<1> HIDE DEF rest
<1>3. DOMAIN rest = 1..Len(ss) - 1
  BY <1>2, LenProperties
<1>4. ASSUME NEW k \in DOMAIN rest
      PROVE  /\ Old(i, k) \in DOMAIN ss /\ rest[k] = ss[Old(i, k)] /\ Old(i, k) # i
             /\ \A j \in DOMAIN rest : (k < j => Old(i, k) < Old(i, j))
                                       /\ (Old(i, k) = Old(i, j) => k = j)
  BY <1>1, <1>2, <1>3 DEF Old
<1>5. InOrder(rest)
  BY <1>4 DEF InOrder
<1>6. ASSUME AllErrored(ss) \/ (~ss[i].populate /\ ~ss[i].errored)
      PROVE  AllErrored(rest)
  <2> SUFFICES ASSUME NEW k \in DOMAIN rest, ~rest[k].populate PROVE rest[k].errored
    BY DEF AllErrored
  <2>1. Old(i, k) \in DOMAIN ss /\ rest[k] = ss[Old(i, k)] /\ Old(i, k) # i
    BY <1>4
  <2>2. Old(i, k) < i \/ i < Old(i, k)
    BY <1>1, <2>1
  <2> QED BY <1>6, <2>1, <2>2 DEF InOrder, AllErrored
<1>7. ss[i].populate \/ ~Loads(ss) => ~Loads(rest)
  BY <1>4 DEF Loads, InOrder
<1> QED BY <1>2, <1>5, <1>6, <1>7 DEF rest

LEMMA AppendedInOrder ==
    ASSUME NEW ss \in Seq(Syncs), InOrder(ss), NEW e \in Syncs,
           IF e.populate THEN ~Loads(ss)
           ELSE AllErrored(ss) /\ (e.errored => e.phase = "store")
    PROVE  /\ Append(ss, e) \in Seq(Syncs) /\ InOrder(Append(ss, e))
           /\ AllErrored(ss) /\ (e.populate \/ e.errored) => AllErrored(Append(ss, e))
           /\ ~Loads(ss) /\ ~e.populate => ~Loads(Append(ss, e))
<1> DEFINE more == Append(ss, e)
<1>1. /\ more \in Seq(Syncs) /\ Len(more) = Len(ss) + 1 /\ Len(ss) \in Nat
      /\ \A k \in 1..Len(ss) : more[k] = ss[k]
      /\ more[Len(ss) + 1] = e
  BY Appended
<1> HIDE DEF more
<1>2. DOMAIN more = 1..Len(ss) + 1 /\ DOMAIN ss = 1..Len(ss)
  BY <1>1, LenProperties
<1>3. ASSUME NEW k \in DOMAIN more
      PROVE  \/ k \in DOMAIN ss /\ more[k] = ss[k] /\ k < Len(ss) + 1
             \/ k = Len(ss) + 1 /\ more[k] = e
  BY <1>1, <1>2
<1>4. InOrder(more)
  <2>1. \A i \in DOMAIN more : ~more[i].populate /\ more[i].errored => more[i].phase = "store"
    BY <1>3 DEF InOrder
  <2>2. ASSUME NEW i \in DOMAIN more, NEW k \in DOMAIN more, ~more[i].populate,
               ~more[k].populate, i < k
        PROVE  more[i].errored
    <3>1. i \in DOMAIN ss /\ more[i] = ss[i]
      BY <1>1, <1>2, <1>3, <2>2
    <3> QED BY <1>3, <2>2, <3>1 DEF InOrder, AllErrored
  <2>3. \A i, k \in DOMAIN more : more[i].populate /\ more[k].populate => i = k
    BY <1>3 DEF InOrder, Loads
  <2> QED BY <2>1, <2>2, <2>3 DEF InOrder
<1>5. /\ AllErrored(ss) /\ (e.populate \/ e.errored) => AllErrored(more)
      /\ ~Loads(ss) /\ ~e.populate => ~Loads(more)
  BY <1>3 DEF AllErrored, Loads
<1> QED BY <1>1, <1>4, <1>5 DEF more

(* A load that goes on stays in its place.                                  *)
LEMMA ReplacedInOrder ==
    ASSUME NEW ss \in Seq(Syncs), InOrder(ss), NEW i \in DOMAIN ss, NEW e \in Syncs,
           ss[i].populate, e.populate
    PROVE  /\ InOrder([ss EXCEPT ![i] = e])
           /\ AllErrored(ss) => AllErrored([ss EXCEPT ![i] = e])
BY DEF InOrder, AllErrored

(* What a flush that is asked for, or that is over, leaves.                 *)
LEMMA FlushInOrder ==
    ASSUME NEW ss \in Seq(Syncs), NEW m \in Contents, InOrder(ss),
           \/ Flush(ss, m) /\ (~syncing => AllErrored(ss))
           \/ m = mem /\ AllErrored(ss) /\ (Flushed(ss, TRUE) \/ Flushed(ss, FALSE))
    PROVE  /\ InOrder(syncs') /\ (~syncing' => AllErrored(syncs'))
           /\ ~Loads(ss) => ~Loads(syncs')
<1>1. /\ NewFlush(ss, m) \in Syncs /\ ~NewFlush(ss, m).populate
      /\ ~NewFlush(ss, m).errored
  BY NewFlushTypes
<1>2. AllErrored(ss) =>
        /\ InOrder(Append(ss, NewFlush(ss, m)))
        /\ ~Loads(ss) => ~Loads(Append(ss, NewFlush(ss, m)))
  BY <1>1, AppendedInOrder
<1>3. \/ syncs' = ss /\ (syncing' \/ AllErrored(ss))
      \/ syncs' = Append(ss, NewFlush(ss, m)) /\ syncing' /\ AllErrored(ss)
  BY DEF Flush, Flushed
<1>4. CASE syncs' = ss
  BY <1>3, <1>4
<1> QED BY <1>2, <1>3, <1>4

(* Steps of the flushes.                                                    *)
LEMMA FlushStepOrder ==
    ASSUME TypeInv, OrderInv, NEW i \in DOMAIN syncs,
           ReconcileFlush(i) \/ CommitFlush(i) \/ FlushFails(i)
    PROVE  OrderInv'
<1>1. SyncTypes /\ syncs[i] \in Syncs /\ (i = 1 => Tail(syncs) = RemoveAt(syncs, i))
  BY OthersTypes, TypeParts DEF TypeInv
<1>2. syncs \in Seq(Syncs) /\ mem \in Contents
  BY <1>1 DEF SyncTypes
<1> DEFINE others == RemoveAt(syncs, i)
<1>3. /\ others \in Seq(Syncs) /\ InOrder(others)
      /\ AllErrored(syncs) \/ (~syncs[i].populate /\ ~syncs[i].errored) => AllErrored(others)
      /\ ~Loads(syncs) => ~Loads(others)
  BY <1>2, RemovedInOrder DEF OrderInv
<1> HIDE DEF others
<1>4. ~syncs[i].populate
  BY DEF ReconcileFlush, CommitFlush, FlushFails, Flushes
<1>5. UNCHANGED <<page, mem, loadMarred>>
  BY DEF ReconcileFlush, CommitFlush, FlushFails
<1>6. ASSUME NEW ss \in Seq(Syncs), InOrder(ss), ~Loads(syncs) => ~Loads(ss), AllErrored(ss),
             Flushed(ss, TRUE) \/ Flushed(ss, FALSE)
      PROVE  OrderInv'
  <2>1. /\ InOrder(syncs') /\ (~syncing' => AllErrored(syncs'))
        /\ ~Loads(ss) => ~Loads(syncs')
    BY <1>2, <1>6, FlushInOrder
  <2> QED BY <1>5, <1>6, <2>1 DEF OrderInv, Loads
<1>7. CASE ReconcileFlush(i)
  <2> DEFINE local  == syncs[i].local
             create == {f \in Files : local[f] # None /\ local[f] # Stamp(idb[f])}
             del    == {f \in Present(idb) : local[f] = None}
             lost   == create \ Present(mem)
             store  == [syncs[i] EXCEPT !.phase = "store", !.local = NoFiles,
                          !.errored = (lost # {}), !.left = create \ lost,
                          !.put = mem, !.del = del]
             more   == Append(others, store)
  <2>1. /\ store \in Syncs /\ store.phase = "store" /\ ~store.populate
        /\ store.errored = (lost # {})
    BY <1>1, <1>4, NoFilesTypes DEF Syncs, SyncTypes, Present
  <2>2. \/ Flushed(others, FALSE)
        \/ syncs' = more /\ lost = {} /\ UNCHANGED <<syncing, syncAgain, flushFailed>>
        \/ lost # {} /\ Flushed(more, FALSE)
    BY <1>7 DEF ReconcileFlush, others
  <2>3. ~syncs[i].errored
    BY <1>4, <1>7 DEF ReconcileFlush, CanList, OrderInv, InOrder
  <2>4. AllErrored(others)
    BY <1>3, <1>4, <2>3
  <2> HIDE DEF store
  <2>5. /\ more \in Seq(Syncs) /\ InOrder(more) /\ (~Loads(others) => ~Loads(more))
        /\ store.errored => AllErrored(more)
    BY <1>3, <2>1, <2>4, AppendedInOrder
  <2> HIDE DEF more, lost
  <2>6. CASE syncs' = more /\ UNCHANGED <<syncing, syncAgain, flushFailed>>
    <3>1. syncing
      BY <1>4, <2>3 DEF OrderInv, AllErrored
    <3> QED BY <1>3, <1>5, <2>5, <2>6, <3>1 DEF OrderInv, Loads
  <2> QED BY <1>3, <1>6, <2>1, <2>2, <2>4, <2>5, <2>6
<1>8. CASE CommitFlush(i)
  <2>1. \/ syncs[i].errored /\ syncs' = others /\ UNCHANGED syncing
        \/ ~syncs[i].errored /\ Flushed(others, FALSE)
    BY <1>1, <1>8 DEF CommitFlush, CanStore, others
  <2> QED BY <1>3, <1>4, <1>5, <1>6, <2>1 DEF OrderInv
<1>9. CASE FlushFails(i)
  <2>1. \/ syncs[i].errored /\ syncs' = others /\ UNCHANGED syncing
        \/ ~syncs[i].errored /\ Flushed(others, TRUE)
    BY <1>9 DEF FlushFails, others
  <2> QED BY <1>3, <1>4, <1>5, <1>6, <2>1 DEF OrderInv
<1> QED BY <1>7, <1>8, <1>9

(* Steps of the load.                                                       *)
LEMMA LoadStepOrder ==
    ASSUME TypeInv, OrderInv, NEW i \in DOMAIN syncs,
           \/ ReconcileLoad(i) \/ EndLoad(i) \/ LoadFails(i)
           \/ \E f \in Files : LoadEntry(i, f) \/ EntryIsGone(i, f)
    PROVE  OrderInv'
<1>1. SyncTypes /\ syncs[i] \in Syncs /\ (i = 1 => Tail(syncs) = RemoveAt(syncs, i))
  BY OthersTypes, TypeParts DEF TypeInv
<1>2. syncs \in Seq(Syncs) /\ mem \in Contents
  BY <1>1 DEF SyncTypes
<1>3. syncs[i].populate
  BY DEF ReconcileLoad, EndLoad, LoadFails, LoadEntry, EntryIsGone, EntryFails, Populates
<1>4. Loads(syncs)
  BY <1>3 DEF Loads
<1> DEFINE others == RemoveAt(syncs, i)
<1>5. /\ others \in Seq(Syncs) /\ InOrder(others) /\ ~Loads(others)
      /\ AllErrored(syncs) => AllErrored(others)
  BY <1>2, <1>3, RemovedInOrder DEF OrderInv
<1>6. ASSUME NEW ss \in Seq(Syncs), InOrder(ss), AllErrored(syncs) => AllErrored(ss),
             ~Loads(ss) \/ loadMarred', Loaded(ss)
      PROVE  OrderInv'
  <2>1. /\ InOrder(syncs') /\ (~syncing' => AllErrored(syncs'))
        /\ ~Loads(ss) => ~Loads(syncs')
    BY <1>2, <1>6, FlushInOrder DEF Loaded, OrderInv
  <2> QED BY <1>6, <2>1 DEF OrderInv, Loads
<1>7. ASSUME NEW ss \in Seq(Syncs), InOrder(ss), AllErrored(syncs) => AllErrored(ss),
             syncs' = ss, UNCHANGED <<page, syncing>>, loadMarred' = loadMarred \/ loadMarred'
      PROVE  OrderInv'
  BY <1>4, <1>7 DEF OrderInv
<1>8. CASE ReconcileLoad(i)
  <2>1. PICK create \in SUBSET Files :
          \/ Loaded(others)
          \/ /\ syncs' = Append(others, [syncs[i] EXCEPT !.phase = "store",
                                                        !.left = create])
             /\ UNCHANGED <<page, syncing, syncAgain, flushFailed>>
    BY <1>8 DEF ReconcileLoad, Present
  <2> DEFINE store == [syncs[i] EXCEPT !.phase = "store", !.left = create]
  <2>2. store \in Syncs /\ store.populate
    BY <1>1, <1>3 DEF Syncs
  <2> HIDE DEF store, others
  <2>3. /\ Append(others, store) \in Seq(Syncs) /\ InOrder(Append(others, store))
        /\ AllErrored(others) => AllErrored(Append(others, store))
    BY <1>5, <2>2, AppendedInOrder
  <2>4. loadMarred' = loadMarred
    BY <1>8 DEF ReconcileLoad
  <2> QED BY <1>5, <1>6, <1>7, <2>1, <2>3, <2>4 DEF store
<1>9. CASE EndLoad(i)
  <2>1. \/ syncs' = others /\ UNCHANGED <<page, syncing>>
        \/ Loaded(others)
    BY <1>1, <1>9 DEF EndLoad, CanStore
  <2>2. loadMarred' = loadMarred
    BY <1>9 DEF EndLoad
  <2> QED BY <1>5, <1>6, <1>7, <2>1, <2>2
<1>10. ASSUME NEW f \in Files, EntryFails(i, f), loadMarred' = TRUE
       PROVE  OrderInv'
  <2> DEFINE rest == [syncs EXCEPT ![i].left = @ \ {f}, ![i].errored = TRUE]
             s == [syncs[i] EXCEPT !.left = @ \ {f}, !.errored = TRUE]
  <2>1. rest = [syncs EXCEPT ![i] = s]
    OBVIOUS
  <2>2. rest \in Seq(Syncs) /\ s \in Syncs /\ s.populate
    BY <1>1, <1>3, <2>1, EntryTypes
  <2> HIDE DEF s
  <2>3. InOrder(rest) /\ (AllErrored(syncs) => AllErrored(rest))
    BY <1>2, <1>3, <2>1, <2>2, ReplacedInOrder DEF OrderInv
  <2>4. \/ syncs' = rest /\ UNCHANGED <<page, syncing>>
        \/ Loaded(rest)
    BY <1>10 DEF EntryFails
  <2> HIDE DEF rest
  <2> QED BY <1>6, <1>7, <1>10, <2>2, <2>3, <2>4
<1>11. ASSUME NEW f \in Files, EntryIsGone(i, f) PROVE OrderInv'
  BY <1>10, <1>11 DEF EntryIsGone
<1>12. CASE LoadFails(i)
  BY <1>5, <1>6, <1>10, <1>12 DEF LoadFails
<1>13. ASSUME NEW f \in Files, LoadEntry(i, f) PROVE OrderInv'
  <2> DEFINE s == [syncs[i] EXCEPT !.left = @ \ {f}]
  <2>1. s \in Syncs /\ s.populate /\ syncs' = [syncs EXCEPT ![i] = s]
        /\ UNCHANGED <<page, syncing, loadMarred>>
    BY <1>1, <1>3, <1>13 DEF LoadEntry, Syncs, history
  <2>2. i \in 1..Len(syncs)
    BY <1>1, OthersTypes
  <2> HIDE DEF s
  <2>3. syncs' \in Seq(Syncs)
    BY <1>2, <2>1, <2>2, ExceptSeq
  <2>4. InOrder(syncs') /\ (AllErrored(syncs) => AllErrored(syncs'))
    BY <1>2, <1>3, <2>1, ReplacedInOrder DEF OrderInv
  <2> QED BY <1>7, <2>1, <2>3, <2>4
<1> QED BY <1>8, <1>9, <1>11, <1>12, <1>13

LEMMA OrderNext == TypeInv /\ OrderInv /\ [Next]_vars => OrderInv'
<1> SUFFICES ASSUME TypeInv, OrderInv, [Next]_vars PROVE OrderInv'
  OBVIOUS
<1>1. SyncTypes /\ syncs \in Seq(Syncs) /\ mem \in Contents
  BY TypeParts DEF TypeInv, SyncTypes
<1>2. ASSUME UNCHANGED <<syncs, syncing, page, loadMarred>> PROVE OrderInv'
  BY <1>2 DEF OrderInv
<1>3. ASSUME NEW m \in Contents, Flush(syncs, m), page' = page, loadMarred => loadMarred'
      PROVE  OrderInv'
  <2>1. /\ InOrder(syncs') /\ (~syncing' => AllErrored(syncs'))
        /\ ~Loads(syncs) => ~Loads(syncs')
    BY <1>1, <1>3, FlushInOrder DEF OrderInv
  <2> QED BY <1>3, <2>1 DEF OrderInv, Loads
<1>4. CASE FlushStep \/ LoadStep \/ \E i \in DOMAIN syncs : FlushFails(i) \/ LoadFails(i)
  BY <1>4, FlushStepOrder, LoadStepOrder DEF FlushStep, LoadStep
<1>5. CASE \/ UNCHANGED vars \/ MirrorStep \/ MirrorFails \/ SetupFolderSaves
           \/ \E f \in Files : \/ ReadFromFolder(f) \/ ReadFails(f)
                               \/ DeleteGame(f) \/ PutInFolder(f)
  <2>1. UNCHANGED <<syncs, syncing, page, loadMarred>>
    BY <1>5 DEF vars, MirrorStep, MirrorFails, SetupFolderSaves, ReadFromFolder, ReadFails,
                DeleteGame, PutInFolder, MirrorCreate, MirrorWrite, MirrorFile, EndMirror,
                syncVars, history
  <2> QED BY <1>2, <2>1
<1>6. CASE EndSetup \/ OmwSync
  BY <1>1, <1>3, <1>6 DEF EndSetup, OmwSync
<1>7. CASE (\E f \in Files : SaveGame(f)) \/ (\E files \in SUBSET Files : Restore(files))
  <2>1. mem' \in Contents
    BY TypesNext DEF TypeInv, TypeOK, Contents
  <2>2. Flush(syncs, mem') /\ page' = page /\ (loadMarred => loadMarred')
    <3>1. ASSUME NEW f \in Files, SaveGame(f)
          PROVE  Flush(syncs, mem') /\ page' = page /\ loadMarred' = loadMarred
      BY <3>1 DEF SaveGame
    <3>2. ASSUME NEW files \in SUBSET Files, Restore(files)
          PROVE  Flush(syncs, mem') /\ page' = page /\ (loadMarred => loadMarred')
      BY <3>2 DEF Restore
    <3> QED BY <1>7, <3>1, <3>2
  <2> QED BY <1>3, <2>1, <2>2
<1>8. CASE Close
  BY <1>8, EmptySeq DEF Close, OrderInv, InOrder, AllErrored, Loads
<1>9. ASSUME NEW srcLocal \in BOOLEAN, OpenPage(srcLocal) PROVE OrderInv'
  <2> DEFINE s == NewSync(TRUE, mem, FALSE)
  <2>1. s \in Syncs /\ s.populate /\ syncs' = <<s>> /\ page' = "loading"
    BY <1>1, <1>9, NewSyncTypes DEF OpenPage
  <2> HIDE DEF s
  <2>2. DOMAIN syncs' = {1} /\ syncs'[1] = s
    BY <2>1
  <2> QED BY <2>1, <2>2 DEF OrderInv, InOrder, AllErrored
<1> QED BY <1>4, <1>5, <1>6, <1>7, <1>8, <1>9 DEF Next, SetupStep, Failure, Game

------------------------------------------------------------------------------
(* What a file holds comes from a write, and tells which: two versions of   *)
(* a file, wherever they are, with the same time are the same.              *)

PutsOf(ss, f) == {ss[i].put[f] : i \in DOMAIN ss}
Versions(f) == {mem[f], idb[f]} \cup PutsOf(syncs, f)
AgreeInv ==
    \A f \in Files : \A e, d \in Versions(f) \ {None} :
        e.mtime <= now /\ e.data <= now /\ (e.mtime = d.mtime => e = d)

(* No content is newer than the last write.                                 *)
BoundInv ==
    /\ \A f \in Present(folder) : folder[f] <= now
    /\ mirror.data # None => mirror.data <= now

LEMMA RemovedPuts ==
    ASSUME NEW ss \in Seq(Syncs), NEW i \in DOMAIN ss, NEW f
    PROVE  PutsOf(RemoveAt(ss, i), f) \subseteq PutsOf(ss, f)
<1> DEFINE rest == RemoveAt(ss, i)
<1>1. i \in 1..Len(ss) /\ Len(ss) \in Nat /\ DOMAIN ss = 1..Len(ss)
  BY LenProperties
<1>2. /\ rest \in Seq(Syncs) /\ Len(rest) = Len(ss) - 1
      /\ \A k \in 1..Len(ss) - 1 : Old(i, k) \in 1..Len(ss) /\ rest[k] = ss[Old(i, k)]
  BY <1>1, ElementRemoved
<1> HIDE DEF rest
<1>3. \A k \in DOMAIN rest : Old(i, k) \in DOMAIN ss /\ rest[k] = ss[Old(i, k)]
  BY <1>1, <1>2, LenProperties
<1> QED BY <1>3 DEF PutsOf, rest

LEMMA AppendedPuts ==
    ASSUME NEW ss \in Seq(Syncs), NEW e \in Syncs, NEW f
    PROVE  PutsOf(Append(ss, e), f) \subseteq PutsOf(ss, f) \cup {e.put[f]}
<1> DEFINE more == Append(ss, e)
<1>1. /\ more \in Seq(Syncs) /\ Len(more) = Len(ss) + 1 /\ Len(ss) \in Nat
      /\ \A k \in 1..Len(ss) : more[k] = ss[k]
      /\ more[Len(ss) + 1] = e
  BY Appended
<1> HIDE DEF more
<1>2. \A k \in DOMAIN more : (k \in DOMAIN ss /\ more[k] = ss[k]) \/ more[k] = e
  BY <1>1, LenProperties
<1> QED BY <1>2 DEF PutsOf, more

LEMMA FlushPuts ==
    ASSUME NEW ss \in Seq(Syncs), NEW m \in Contents, NEW f \in Files, Extends(ss, m)
    PROVE  PutsOf(syncs', f) \subseteq PutsOf(ss, f) \cup {None}
<1>1. NewFlush(ss, m) \in Syncs /\ NewFlush(ss, m).put[f] = None
  <2>1. NewFlush(ss, m) \in Syncs /\ NewFlush(ss, m).put = NoFiles
    BY NewFlushTypes
  <2> QED BY <2>1 DEF NoFiles
<1>2. PutsOf(Append(ss, NewFlush(ss, m)), f) \subseteq PutsOf(ss, f) \cup {None}
  BY <1>1, AppendedPuts
<1> QED BY <1>2 DEF Extends

LEMMA VersionTypes ==
    ASSUME SyncTypes, NEW f \in Files
    PROVE  \A e \in Versions(f) \ {None} : e \in Entry /\ e.mtime \in Nat /\ e.data \in Nat
<1>1. \A i \in DOMAIN syncs : syncs[i].put[f] \in Entry \cup {None}
  BY OthersTypes DEF Syncs, Contents
<1>2. \A e \in Versions(f) : e \in Entry \cup {None}
  BY <1>1 DEF SyncTypes, Contents, Versions, PutsOf
<1> QED BY <1>2 DEF Entry

(* A step that writes nothing, or files with the next time.                 *)
LEMMA NothingWritten ==
    ASSUME SyncTypes, AgreeInv, now' \in Nat, now' >= now,
           \A f \in Files : Versions(f)' \subseteq Versions(f) \cup {None}
    PROVE  AgreeInv'
<1> SUFFICES ASSUME NEW f \in Files, NEW e \in (Versions(f) \ {None})',
                    NEW d \in (Versions(f) \ {None})'
             PROVE  e.mtime <= now' /\ e.data <= now' /\ (e.mtime = d.mtime => e = d)
  BY DEF AgreeInv
<1>1. e \in Versions(f) \ {None} /\ d \in Versions(f) \ {None}
  OBVIOUS
<1>2. e.mtime \in Nat /\ e.data \in Nat /\ now \in Nat
  BY <1>1, VersionTypes DEF SyncTypes
<1> QED BY <1>1, <1>2 DEF AgreeInv

LEMMA FilesWritten ==
    ASSUME SyncTypes, AgreeInv, NEW files, NEW bytes, mem' = Write(mem, files, bytes),
           now' = now + 1, idb' = idb,
           \A f \in files \cap Files : bytes[f] \in Nat /\ bytes[f] <= now + 1,
           \A f \in Files : PutsOf(syncs', f) \subseteq PutsOf(syncs, f) \cup {None}
    PROVE  AgreeInv'
<1>1. mem \in Contents /\ now \in Nat
  BY DEF SyncTypes
<1>2. \A f \in Files : IF f \in files THEN mem'[f].mtime = now + 1 /\ mem'[f].data <= now + 1
                       ELSE mem'[f] = mem[f]
  BY <1>1, WriteTypes
<1> SUFFICES ASSUME NEW f \in Files, NEW e \in (Versions(f) \ {None})',
                    NEW d \in (Versions(f) \ {None})'
             PROVE  e.mtime <= now' /\ e.data <= now' /\ (e.mtime = d.mtime => e = d)
  BY DEF AgreeInv
<1>3. /\ \/ e \in Versions(f) \ {None}
         \/ e = mem'[f] /\ e.mtime = now + 1 /\ e.data <= now + 1
      /\ d \in Versions(f) \ {None} \/ (d = mem'[f] /\ d.mtime = now + 1)
  BY <1>2 DEF Versions
<1>4. \A v \in Versions(f) \ {None} :
        v.mtime \in Nat /\ v.mtime <= now /\ v.data \in Nat /\ v.data <= now
  BY VersionTypes DEF AgreeInv
<1> QED BY <1>1, <1>3, <1>4 DEF AgreeInv

LEMMA FlushStepAgree ==
    ASSUME TypeInv, AgreeInv, NEW i \in DOMAIN syncs,
           ReconcileFlush(i) \/ CommitFlush(i) \/ FlushFails(i)
    PROVE  AgreeInv'
<1>1. SyncTypes /\ syncs[i] \in Syncs /\ (i = 1 => Tail(syncs) = RemoveAt(syncs, i))
      /\ RemoveAt(syncs, i) \in Seq(Syncs)
  BY OthersTypes, TypeParts DEF TypeInv
<1>2. syncs \in Seq(Syncs) /\ mem \in Contents /\ syncs[i].put \in Contents
      /\ syncing \in BOOLEAN /\ syncAgain \in BOOLEAN /\ flushFailed \in BOOLEAN /\ now \in Nat
  BY <1>1 DEF SyncTypes, Syncs
<1>3. UNCHANGED <<mem, now>>
  BY DEF ReconcileFlush, CommitFlush, FlushFails
<1> DEFINE others == RemoveAt(syncs, i)
<1>4. \A f \in Files : PutsOf(others, f) \cup {syncs[i].put[f]} \subseteq PutsOf(syncs, f)
  BY <1>2, RemovedPuts DEF PutsOf
<1> HIDE DEF others
<1>5. ASSUME NEW ss \in Seq(Syncs), syncs' = ss \/ Flushed(ss, TRUE) \/ Flushed(ss, FALSE)
      PROVE  \A f \in Files : PutsOf(syncs', f) \subseteq PutsOf(ss, f) \cup {None}
  <2>1. Extends(ss, mem)
    BY <1>2, <1>5, FlushTypes DEF Extends
  <2> QED BY <1>2, <2>1, FlushPuts
<1>6. ASSUME \A f \in Files : /\ PutsOf(syncs', f) \subseteq Versions(f) \cup {None}
                              /\ idb'[f] \in Versions(f) \cup {None}
      PROVE  AgreeInv'
  <2>1. \A f \in Files : Versions(f)' \subseteq Versions(f) \cup {None}
    BY <1>3, <1>6 DEF Versions
  <2> QED BY <1>1, <1>2, <1>3, <2>1, NothingWritten
<1>7. CASE ReconcileFlush(i)
  <2> DEFINE local  == syncs[i].local
             create == {f \in Files : local[f] # None /\ local[f] # Stamp(idb[f])}
             del    == {f \in Present(idb) : local[f] = None}
             lost   == create \ Present(mem)
             store  == [syncs[i] EXCEPT !.phase = "store", !.local = NoFiles,
                          !.errored = (lost # {}), !.left = create \ lost,
                          !.put = mem, !.del = del]
             more   == Append(others, store)
  <2>1. store \in Syncs /\ store.put = mem
    BY <1>1, NoFilesTypes DEF Syncs, SyncTypes, Present
  <2>2. /\ \/ Flushed(others, FALSE)
           \/ syncs' = more
           \/ Flushed(more, FALSE)
        /\ idb' = idb
    BY <1>7 DEF ReconcileFlush, others
  <2> HIDE DEF store
  <2>3. more \in Seq(Syncs) /\ \A f \in Files : PutsOf(more, f) \subseteq PutsOf(others, f) \cup {mem[f]}
    BY <1>1, <2>1, Appended, AppendedPuts DEF others
  <2> HIDE DEF more
  <2>4. \A f \in Files : PutsOf(syncs', f) \subseteq PutsOf(others, f) \cup {mem[f], None}
    BY <1>1, <1>5, <2>2, <2>3 DEF others
  <2> QED BY <1>4, <1>6, <2>2, <2>4 DEF Versions
<1>8. CASE CommitFlush(i) \/ FlushFails(i)
  <2>1. syncs' = others \/ Flushed(others, TRUE) \/ Flushed(others, FALSE)
    BY <1>1, <1>8 DEF CommitFlush, FlushFails, CanStore, others
  <2>2. \/ idb' = idb
        \/ \E done \in SUBSET (syncs[i].left \cup syncs[i].del) : idb' = Stored(syncs[i], done)
    BY <1>8 DEF CommitFlush, FlushFails
  <2>3. \A f \in Files : idb'[f] \in {idb[f], syncs[i].put[f], None}
    BY <1>1, <2>2, StoredTypes
  <2>4. \A f \in Files : PutsOf(syncs', f) \subseteq PutsOf(others, f) \cup {None}
    BY <1>1, <1>5, <2>1 DEF others
  <2> QED BY <1>4, <1>6, <2>3, <2>4 DEF Versions
<1> QED BY <1>7, <1>8

LEMMA LoadStepAgree ==
    ASSUME TypeInv, AgreeInv, NEW i \in DOMAIN syncs,
           \/ ReconcileLoad(i) \/ EndLoad(i) \/ LoadFails(i)
           \/ \E f \in Files : LoadEntry(i, f) \/ EntryIsGone(i, f)
    PROVE  AgreeInv'
<1>1. SyncTypes /\ syncs[i] \in Syncs /\ (i = 1 => Tail(syncs) = RemoveAt(syncs, i))
      /\ RemoveAt(syncs, i) \in Seq(Syncs)
  BY OthersTypes, TypeParts DEF TypeInv
<1>2. syncs \in Seq(Syncs) /\ mem \in Contents /\ now \in Nat
      /\ syncing \in BOOLEAN /\ syncAgain \in BOOLEAN /\ flushFailed \in BOOLEAN
  BY <1>1 DEF SyncTypes
<1>3. UNCHANGED <<idb, now>>
  BY DEF ReconcileLoad, EndLoad, LoadFails, LoadEntry, EntryIsGone
<1> DEFINE others == RemoveAt(syncs, i)
<1>4. \A f \in Files : PutsOf(others, f) \cup {syncs[i].put[f]} \subseteq PutsOf(syncs, f)
  BY <1>2, RemovedPuts DEF PutsOf
<1> HIDE DEF others
<1>5. ASSUME NEW ss \in Seq(Syncs), syncs' = ss \/ Loaded(ss), mem' = mem,
             \A f \in Files : PutsOf(ss, f) \subseteq PutsOf(syncs, f)
      PROVE  AgreeInv'
  <2>1. Extends(ss, mem)
    BY <1>2, <1>5, FlushTypes DEF Extends, Loaded
  <2>2. \A f \in Files : PutsOf(syncs', f) \subseteq PutsOf(ss, f) \cup {None}
    BY <1>2, <2>1, FlushPuts
  <2>3. \A f \in Files : Versions(f)' \subseteq Versions(f) \cup {None}
    BY <1>3, <1>5, <2>2 DEF Versions
  <2> QED BY <1>1, <1>2, <1>3, <2>3, NothingWritten
<1>6. CASE ReconcileLoad(i)
  <2>1. PICK create \in SUBSET Files :
          \/ Loaded(others)
          \/ syncs' = Append(others, [syncs[i] EXCEPT !.phase = "store", !.left = create])
    BY <1>6 DEF ReconcileLoad, Present, others
  <2> DEFINE store == [syncs[i] EXCEPT !.phase = "store", !.left = create]
  <2>2. store \in Syncs /\ store.put = syncs[i].put
    BY <1>1 DEF Syncs
  <2> HIDE DEF store
  <2>3. /\ Append(others, store) \in Seq(Syncs)
        /\ \A f \in Files : PutsOf(Append(others, store), f) \subseteq PutsOf(syncs, f)
    BY <1>1, <1>4, <2>2, Appended, AppendedPuts DEF others
  <2>4. mem' = mem
    BY <1>6 DEF ReconcileLoad
  <2> QED BY <1>1, <1>4, <1>5, <2>1, <2>3, <2>4 DEF store, others
<1>7. CASE EndLoad(i)
  <2>1. (syncs' = others \/ Loaded(others)) /\ mem' = mem
    BY <1>1, <1>7 DEF EndLoad, CanStore, others
  <2> QED BY <1>1, <1>4, <1>5, <2>1 DEF others
<1>8. ASSUME NEW f \in Files, EntryFails(i, f), mem' = mem
      PROVE  AgreeInv'
  <2> DEFINE rest == [syncs EXCEPT ![i].left = @ \ {f}, ![i].errored = TRUE]
             s == [syncs[i] EXCEPT !.left = @ \ {f}, !.errored = TRUE]
  <2>1. rest = [syncs EXCEPT ![i] = s]
    OBVIOUS
  <2>2. rest \in Seq(Syncs) /\ s.put = syncs[i].put
    BY <1>1, <2>1, EntryTypes
  <2>3. syncs' = rest \/ Loaded(rest)
    BY <1>8 DEF EntryFails
  <2> HIDE DEF s
  <2>4. \A g \in Files : PutsOf(rest, g) \subseteq PutsOf(syncs, g)
    BY <1>2, <2>1, <2>2 DEF PutsOf
  <2> HIDE DEF rest
  <2> QED BY <1>5, <1>8, <2>2, <2>3, <2>4
<1>9. ASSUME NEW f \in Files, EntryIsGone(i, f) PROVE AgreeInv'
  BY <1>8, <1>9 DEF EntryIsGone
<1>10. CASE LoadFails(i)
  <2>1. mem' = mem /\ (Loaded(others) \/ \E f \in Files : EntryFails(i, f))
    BY <1>10 DEF LoadFails, others
  <2> QED BY <1>1, <1>4, <1>5, <1>8, <2>1 DEF others
<1>11. ASSUME NEW f \in Files, LoadEntry(i, f) PROVE AgreeInv'
  <2> DEFINE s == [syncs[i] EXCEPT !.left = @ \ {f}]
  <2>1. s.put = syncs[i].put /\ syncs' = [syncs EXCEPT ![i] = s]
        /\ mem' = [mem EXCEPT ![f] = idb[f]]
    BY <1>1, <1>11 DEF LoadEntry, Syncs
  <2> HIDE DEF s
  <2>2. \A g \in Files : PutsOf(syncs', g) \subseteq PutsOf(syncs, g)
    BY <1>2, <2>1 DEF PutsOf
  <2>3. \A g \in Files : mem'[g] \in {mem[g], idb[g]}
    BY <1>2, <2>1 DEF Contents
  <2>4. \A g \in Files : Versions(g)' \subseteq Versions(g) \cup {None}
    BY <1>3, <2>2, <2>3 DEF Versions
  <2> QED BY <1>1, <1>2, <1>3, <2>4, NothingWritten
<1> QED BY <1>6, <1>7, <1>9, <1>10, <1>11

LEMMA AgreeNext == TypeInv /\ AgreeInv /\ BoundInv /\ [Next]_vars => AgreeInv'
<1> SUFFICES ASSUME TypeInv, AgreeInv, BoundInv, [Next]_vars PROVE AgreeInv'
  OBVIOUS
<1>1. SyncTypes /\ syncs \in Seq(Syncs) /\ mem \in Contents /\ now \in Nat
      /\ syncing \in BOOLEAN /\ syncAgain \in BOOLEAN /\ flushFailed \in BOOLEAN
  BY TypeParts DEF TypeInv, SyncTypes
<1>2. ASSUME UNCHANGED idb, \A f \in Files : mem'[f] \in {mem[f], None},
             now' \in {now, now + 1}, syncs' = syncs \/ Flush(syncs, mem)
      PROVE  AgreeInv'
  <2>1. Extends(syncs, mem)
    BY <1>1, <1>2, FlushTypes DEF Extends
  <2>2. \A f \in Files : PutsOf(syncs', f) \subseteq PutsOf(syncs, f) \cup {None}
    BY <1>1, <2>1, FlushPuts
  <2>3. \A f \in Files : Versions(f)' \subseteq Versions(f) \cup {None}
    BY <1>2, <2>2 DEF Versions
  <2>4. now' \in Nat /\ now' >= now
    BY <1>1, <1>2
  <2> QED BY <1>1, <2>3, <2>4, NothingWritten
<1>3. CASE FlushStep \/ LoadStep \/ \E i \in DOMAIN syncs : FlushFails(i) \/ LoadFails(i)
  BY <1>3, FlushStepAgree, LoadStepAgree DEF FlushStep, LoadStep
<1>4. CASE \/ UNCHANGED vars \/ MirrorStep \/ MirrorFails \/ SetupFolderSaves
           \/ \E f \in Files : ReadFails(f) \/ PutInFolder(f)
  <2>1. UNCHANGED <<syncs, mem, idb>> /\ now' \in {now, now + 1}
    BY <1>4 DEF vars, MirrorStep, MirrorFails, SetupFolderSaves, ReadFails, PutInFolder,
                MirrorCreate, MirrorWrite, MirrorFile, EndMirror, syncVars, history
  <2> QED BY <1>2, <2>1
<1>5. CASE EndSetup \/ OmwSync
  <2>1. UNCHANGED <<mem, idb, now>> /\ Flush(syncs, mem)
    BY <1>5 DEF EndSetup, OmwSync
  <2> QED BY <1>2, <2>1
<1>6. ASSUME NEW f \in Files, DeleteGame(f) PROVE AgreeInv'
  <2>1. UNCHANGED <<syncs, idb, now>> /\ mem' = [mem EXCEPT ![f] = None]
    BY <1>6 DEF DeleteGame, syncVars
  <2>2. \A g \in Files : mem'[g] \in {mem[g], None}
    BY <1>1, <2>1 DEF Contents
  <2> QED BY <1>2, <2>1, <2>2
<1>7. ASSUME NEW files \in SUBSET Files, NEW bytes,
             \A f \in files : bytes[f] \in Nat /\ bytes[f] <= now + 1,
             mem' = Write(mem, files, bytes), now' = now + 1, UNCHANGED idb,
             syncs' = syncs \/ Flush(syncs, mem')
      PROVE  AgreeInv'
  <2>1. mem' \in Contents
    BY <1>1, <1>7, WriteTypes
  <2>2. Extends(syncs, mem')
    BY <1>1, <1>7, <2>1, FlushTypes DEF Extends
  <2>3. \A f \in Files : PutsOf(syncs', f) \subseteq PutsOf(syncs, f) \cup {None}
    BY <1>1, <2>1, <2>2, FlushPuts
  <2> QED BY <1>1, <1>7, <2>3, FilesWritten
<1>8. ASSUME NEW f \in Files, ReadFromFolder(f) PROVE AgreeInv'
  <2>1. /\ mem' = Write(mem, {f}, folder) /\ now' = now + 1 /\ f \in setup.left
        /\ UNCHANGED <<idb, syncs>>
    BY <1>8 DEF ReadFromFolder, syncVars
  <2>2. folder[f] \in Nat /\ folder[f] <= now
    BY <2>1, TypeParts DEF TypeInv, ReadInv, BoundInv, Present
  <2>3. \A g \in {f} : folder[g] \in Nat /\ folder[g] <= now + 1
    BY <1>1, <2>2
  <2> QED BY <1>7, <2>1, <2>3
<1>9. ASSUME NEW f \in Files, SaveGame(f) PROVE AgreeInv'
  <2>1. /\ mem' = Write(mem, {f}, [g \in {f} |-> now + 1]) /\ now' = now + 1
        /\ Flush(syncs, mem') /\ UNCHANGED idb
    BY <1>9 DEF SaveGame
  <2>2. \A g \in {f} : [h \in {f} |-> now + 1][g] \in Nat
                       /\ [h \in {f} |-> now + 1][g] <= now + 1
    BY <1>1
  <2> QED BY <1>7, <2>1, <2>2
<1>10. ASSUME NEW files \in SUBSET Files, Restore(files) PROVE AgreeInv'
  <2>1. /\ mem' = Write(mem, files, [g \in files |-> now + 1]) /\ now' = now + 1
        /\ Flush(syncs, mem') /\ UNCHANGED idb
    BY <1>10 DEF Restore
  <2>2. \A g \in files : [h \in files |-> now + 1][g] \in Nat
                         /\ [h \in files |-> now + 1][g] <= now + 1
    BY <1>1
  <2> QED BY <1>7, <2>1, <2>2
<1>11. CASE Close
  <2>1. mem' = NoFiles /\ syncs' = <<>> /\ UNCHANGED <<idb, now>>
    BY <1>11 DEF Close
  <2>2. \A f \in Files : Versions(f)' \subseteq Versions(f) \cup {None}
    BY <2>1, EmptySeq DEF Versions, PutsOf, NoFiles
  <2> QED BY <1>1, <2>1, <2>2, NothingWritten
<1>12. ASSUME NEW srcLocal \in BOOLEAN, OpenPage(srcLocal) PROVE AgreeInv'
  <2> DEFINE s == NewSync(TRUE, mem, FALSE)
  <2>1. s.put = NoFiles /\ syncs' = <<s>> /\ UNCHANGED <<idb, mem, now>>
    BY <1>1, <1>12, NewSyncTypes DEF OpenPage
  <2> HIDE DEF s
  <2>2. DOMAIN syncs' = {1} /\ syncs'[1] = s
    BY <2>1
  <2>3. \A f \in Files : PutsOf(syncs', f) \subseteq {None}
    BY <2>1, <2>2 DEF PutsOf, NoFiles
  <2>4. \A f \in Files : Versions(f)' \subseteq Versions(f) \cup {None}
    BY <2>1, <2>3 DEF Versions
  <2> QED BY <1>1, <2>1, <2>4, NothingWritten
<1> QED BY <1>3, <1>4, <1>5, <1>6, <1>8, <1>9, <1>10, <1>11, <1>12
       DEF Next, SetupStep, Failure, Game

(* The steps that change the folder or the mirror.                          *)
MirrorChanges ==
    \/ MirrorCreate \/ MirrorWrite \/ EndMirror \/ MirrorFails \/ OmwSync \/ Close
    \/ \E f \in Files : MirrorFile(f) \/ PutInFolder(f)

LEMMA FolderChanges ==
    ASSUME [Next]_vars
    PROVE  /\ now' \in {now, now + 1}
           /\ MirrorChanges \/ UNCHANGED <<folder, mirror>>
BY DEF Next, vars, FlushStep, LoadStep, SetupStep, MirrorStep, Failure, Game, OmwSync, Close,
       OpenPage, ReconcileFlush, CommitFlush, ReconcileLoad, EndLoad, LoadEntry, EntryIsGone,
       SetupFolderSaves, EndSetup, ReadFromFolder, MirrorCreate, MirrorWrite, EndMirror,
       MirrorFile, FlushFails, LoadFails, MirrorFails, ReadFails, SaveGame, DeleteGame,
       PutInFolder, Restore, MirrorChanges, mirrorVars

LEMMA MirrorParts ==
    ASSUME TypeInv
    PROVE  /\ NoMirror.pc = "idle" /\ NoMirror.data = None
           /\ NewMirror.pc = "scan" /\ NewMirror.data = None /\ NewMirror.live = {}
           /\ NewMirror.names = LooseSaves \cap Present(mem)
           /\ MirrorIdle.pc = "scan" /\ MirrorIdle.data = None
           /\ MirrorIdle.names = mirror.names /\ MirrorIdle.live = mirror.live
<1>1. NoMirror.pc = "idle" /\ NoMirror.data = None
  BY DEF NoMirror
<1>2. /\ NewMirror.pc = "scan" /\ NewMirror.data = None /\ NewMirror.live = {}
      /\ NewMirror.names = LooseSaves \cap Present(mem)
  <2>1. NoMirror \in [pc : {"idle"}, names : {{}}, live : {{}}, file : {None},
                     data : {None}, mtime : {None}]
    BY DEF NoMirror
  <2> QED BY <2>1 DEF NewMirror
<1>3. /\ MirrorIdle.pc = "scan" /\ MirrorIdle.data = None
      /\ MirrorIdle.names = mirror.names /\ MirrorIdle.live = mirror.live
  BY TypeParts DEF TypeInv, MirrorIdle
<1> QED BY <1>1, <1>2, <1>3

LEMMA BoundNext == TypeInv /\ AgreeInv /\ BoundInv /\ [Next]_vars => BoundInv'
<1> SUFFICES ASSUME TypeInv, AgreeInv, BoundInv, [Next]_vars PROVE BoundInv'
  OBVIOUS
<1>1. /\ SyncTypes /\ now \in Nat /\ folder \in [Files -> Nat \cup {None}]
      /\ mirror.data \in Nat \cup {None}
      /\ mirror \in [pc : {"idle", "scan", "create", "write"},
                     names : SUBSET LooseSaves, live : SUBSET LooseSaves,
                     file : Files \cup {None},
                     data : Nat \cup {None}, mtime : Nat \cup {None}]
  BY TypeParts DEF TypeInv, SyncTypes
<1>2. now' \in {now, now + 1} /\ now' \in Nat /\ now <= now'
  BY <1>1, FolderChanges
<1>3. ASSUME \A f \in Files : folder'[f] \in {folder[f], None, 0, mirror.data, now'},
             \/ mirror'.data \in {mirror.data, None}
             \/ \E f \in Files : mem[f] # None /\ mirror'.data = mem[f].data
      PROVE  BoundInv'
  <2>1. ASSUME NEW f \in Files, folder'[f] # None PROVE folder'[f] <= now'
    BY <1>1, <1>2, <1>3, <2>1 DEF BoundInv, Present
  <2>2. ASSUME NEW f \in Files, mem[f] # None PROVE mem[f].data <= now'
    <3>1. mem[f] \in Versions(f) \ {None}
      BY <2>2 DEF Versions
    <3>2. mem[f].data \in Nat /\ mem[f].data <= now
      BY <1>1, <3>1, VersionTypes DEF AgreeInv
    <3> QED BY <1>1, <1>2, <3>2
  <2>3. mirror'.data # None => mirror'.data <= now'
    BY <1>1, <1>2, <1>3, <2>2 DEF BoundInv
  <2> QED BY <2>1, <2>3 DEF BoundInv, Present
<1>4. CASE UNCHANGED <<folder, mirror>>
  BY <1>3, <1>4
<1>5. CASE MirrorCreate
  <2>1. /\ folder' = [folder EXCEPT ![mirror.file] = IF @ = None THEN EmptyFile ELSE @]
        /\ mirror' = [mirror EXCEPT !.pc = "write"]
    BY <1>5 DEF MirrorCreate
  <2>2. \A f \in Files : folder'[f] \in {folder[f], None, 0, mirror.data, now'}
    BY <1>1, <2>1 DEF EmptyFile
  <2>3. mirror'.data = mirror.data
    BY <1>1, <2>1
  <2> QED BY <1>3, <2>2, <2>3
<1>6. CASE MirrorWrite
  <2>1. folder' = [folder EXCEPT ![mirror.file] = mirror.data] /\ mirror' = MirrorIdle
    BY <1>6 DEF MirrorWrite
  <2>2. mirror'.data = None
    BY <2>1, MirrorParts
  <2> QED BY <1>1, <1>3, <2>1, <2>2
<1>7. CASE EndMirror
  <2>1. /\ \A f \in Files : folder'[f] \in {folder[f], None}
        /\ mirror' \in {NewMirror, NoMirror}
    BY <1>7 DEF EndMirror
  <2>2. mirror'.data = None
    BY <2>1, MirrorParts
  <2> QED BY <1>3, <2>1, <2>2
<1>8. CASE MirrorFails \/ OmwSync \/ Close
  <2>1. folder' = folder /\ mirror' \in {mirror, MirrorIdle, NewMirror, NoMirror}
    BY <1>8 DEF MirrorFails, OmwSync, StartMirror, Close
  <2>2. mirror'.data \in {mirror.data, None}
    BY <1>1, <2>1, MirrorParts
  <2> QED BY <1>3, <2>1, <2>2
<1>9. ASSUME NEW f \in Files, MirrorFile(f) PROVE BoundInv'
  <2>1. /\ folder' = folder /\ mem[f] # None
        /\ \/ mirror' = [mirror EXCEPT !.names = @ \ {f}, !.live = @ \cup {f}]
           \/ mirror' = [[mirror EXCEPT !.names = @ \ {f}, !.live = @ \cup {f}]
                           EXCEPT !.pc = "create", !.file = f,
                                  !.data = mem[f].data, !.mtime = mem[f].mtime]
    BY <1>9 DEF MirrorFile
  <2>2. mirror'.data \in {mirror.data, mem[f].data}
    BY <1>1, <2>1
  <2> QED BY <1>3, <2>1, <2>2
<1>10. ASSUME NEW f \in Files, PutInFolder(f) PROVE BoundInv'
  <2>1. folder' = [folder EXCEPT ![f] = now + 1] /\ now' = now + 1 /\ mirror' = mirror
    BY <1>10 DEF PutInFolder, mirrorVars
  <2> QED BY <1>1, <1>3, <2>1
<1> QED BY <1>4, <1>5, <1>6, <1>7, <1>8, <1>9, <1>10, FolderChanges DEF MirrorChanges

------------------------------------------------------------------------------
(* A save that is not stored is on its way: the last flush that has to do   *)
(* with the file lists it or stores it, or another flush is to follow.      *)

Lists(s, m, f) == s.phase = "list" /\ s.local[f] = m[f].mtime
Puts(s, m, f) == s.phase = "store" /\ f \in s.left /\ s.put[f] = m[f]
Leaves(s, f) == s.phase = "store" /\ f \notin s.left \cup s.del
Covered(ss, m, d, f) ==
    \/ \E i \in DOMAIN ss : /\ Lists(ss[i], m, f) \/ Puts(ss[i], m, f)
                            /\ \A k \in DOMAIN ss : k > i => Leaves(ss[k], f)
    \/ d[f] = m[f] /\ \A i \in DOMAIN ss : Leaves(ss[i], f)

Settled == page = "ready" /\ setup.pc # "read" /\ ~loadMarred /\ ~flushFailed
CoveredInv ==
    Settled => \A f \in Present(mem) : syncAgain \/ Covered(syncs, mem, idb, f)

UnstoredInv == TypeInv /\ OrderInv /\ AgreeInv /\ BoundInv /\ CoveredInv

LEMMA UnstoredImplies == UnstoredInv => UnstoredSaveIsOnItsWay
<1> SUFFICES ASSUME UnstoredInv, EngineRuns, ~loadMarred, ~flushFailed,
                    NEW f \in Present(mem), ~syncAgain, idb[f] # mem[f]
             PROVE  \E i \in Flushes :
                      \/ syncs[i].phase = "list" /\ syncs[i].local[f] = mem[f].mtime
                      \/ f \in syncs[i].left /\ syncs[i].put[f] = mem[f]
  BY DEF UnstoredSaveIsOnItsWay
<1>1. Covered(syncs, mem, idb, f)
  BY DEF UnstoredInv, CoveredInv, Settled, EngineRuns
<1>2. PICK i \in DOMAIN syncs : Lists(syncs[i], mem, f) \/ Puts(syncs[i], mem, f)
  BY <1>1 DEF Covered
<1>3. i \in Flushes
  BY DEF UnstoredInv, OrderInv, Loads, EngineRuns, Flushes
<1> QED BY <1>2, <1>3 DEF Lists, Puts

LEMMA NewFlushCovers ==
    ASSUME NEW ss \in Seq(Syncs), NEW m \in Contents, NEW f \in Present(m), NEW d
    PROVE  Covered(Append(ss, NewFlush(ss, m)), m, d, f)
<1> DEFINE e == NewFlush(ss, m)
           more == Append(ss, e)
<1>1. e \in Syncs /\ e.phase = "list" /\ e.local = Stamps(m)
  BY NewFlushTypes
<1>2. f \in Files /\ m[f] # None
  BY DEF Present
<1>3. e.local[f] = m[f].mtime
  BY <1>1, <1>2 DEF Stamps, Stamp
<1> HIDE DEF e
<1>4. more \in Seq(Syncs) /\ Len(more) = Len(ss) + 1 /\ Len(ss) \in Nat /\ more[Len(ss) + 1] = e
  BY <1>1, Appended
<1> HIDE DEF more
<1>5. DOMAIN more = 1..Len(ss) + 1
  BY <1>4, LenProperties
<1>6. Lists(more[Len(ss) + 1], m, f) /\ Len(ss) + 1 \in DOMAIN more
      /\ \A k \in DOMAIN more : ~(k > Len(ss) + 1)
  BY <1>1, <1>3, <1>4, <1>5 DEF Lists
<1> QED BY <1>6 DEF Covered, more, e

(* A flush that is asked for, or the one that follows another, covers all.  *)
LEMMA FlushCovers ==
    ASSUME NEW ss \in Seq(Syncs), mem' \in Contents,
           \/ Flush(ss, mem')
           \/ UNCHANGED mem /\ Flushed(ss, TRUE) /\ ~flushFailed'
           \/ UNCHANGED mem /\ Flushed(ss, FALSE) /\ syncAgain
    PROVE  CoveredInv'
<1>1. syncAgain' \/ syncs' = Append(ss, NewFlush(ss, mem'))
  BY DEF Flush, Flushed
<1> SUFFICES ASSUME ~syncAgain', NEW f \in Present(mem')
             PROVE  Covered(syncs', mem', idb', f)
  BY DEF CoveredInv, Present
<1> QED BY <1>1, NewFlushCovers

(* On a page where the load is over there are only flushes, and the one     *)
(* that lists the files is alone.                                           *)
LEMMA OnlyFlushes ==
    ASSUME TypeInv, OrderInv, Settled, NEW i \in DOMAIN syncs
    PROVE  /\ ~syncs[i].populate
           /\ CanList(i) => i = 1 /\ Len(syncs) = 1
<1>1. syncs \in Seq(Syncs) /\ syncs[i] \in Syncs /\ i \in 1..Len(syncs)
      /\ DOMAIN syncs = 1..Len(syncs) /\ Len(syncs) \in Nat
  BY OthersTypes, TypeParts, LenProperties DEF TypeInv, SyncTypes
<1>2. \A k \in DOMAIN syncs : ~syncs[k].populate
  BY DEF OrderInv, Settled, Loads
<1>3. ASSUME CanList(i) PROVE i = 1 /\ Len(syncs) = 1
  <2>1. ~syncs[i].errored
    BY <1>2, <1>3 DEF CanList, OrderInv, InOrder
  <2>2. ASSUME NEW k \in DOMAIN syncs, k # i PROVE FALSE
    <3>1. CASE k < i
      <4>1. syncs[k].phase = "list" /\ syncs[k].errored
        BY <1>1, <1>2, <1>3, <2>2, <3>1 DEF CanList, OrderInv, InOrder
      <4> QED BY <1>2, <4>1 DEF OrderInv, InOrder
    <3>2. CASE k > i
      BY <1>1, <1>2, <2>1, <3>2 DEF OrderInv, InOrder
    <3> QED BY <1>1, <2>2, <3>1, <3>2
  <2>3. 1 \in DOMAIN syncs /\ Len(syncs) \in DOMAIN syncs
    BY <1>1
  <2> QED BY <2>2, <2>3
<1> QED BY <1>2, <1>3

LEMMA NothingElse ==
    ASSUME NEW ss \in Seq(Syncs), Len(ss) = 1
    PROVE  RemoveAt(ss, 1) = <<>> /\ \A e \in Syncs : Append(RemoveAt(ss, 1), e) = <<e>>
<1>1. RemoveAt(ss, 1) \in Seq(Syncs) /\ Len(RemoveAt(ss, 1)) = 0
  <2>1. 1 \in 1..Len(ss) /\ Len(ss) - 1 = 0
    OBVIOUS
  <2> QED BY <2>1, ElementRemoved
<1>2. RemoveAt(ss, 1) = <<>>
  BY <1>1, EmptySeq
<1>3. \A e \in Syncs : Append(<<>>, e) = <<e>>
  OBVIOUS
<1> QED BY <1>2, <1>3

LEMMA ReconcileFlushCovers ==
    ASSUME TypeInv, OrderInv, AgreeInv, CoveredInv, NEW i \in DOMAIN syncs,
           ReconcileFlush(i)
    PROVE  CoveredInv'
<1> DEFINE local  == syncs[i].local
           create == {f \in Files : local[f] # None /\ local[f] # Stamp(idb[f])}
           del    == {f \in Present(idb) : local[f] = None}
           lost   == create \ Present(mem)
           others == RemoveAt(syncs, i)
           store  == [syncs[i] EXCEPT !.phase = "store", !.local = NoFiles,
                        !.errored = (lost # {}), !.left = create \ lost,
                        !.put = mem, !.del = del]
<1>1. SyncTypes /\ syncs[i] \in Syncs /\ others \in Seq(Syncs)
      /\ mem \in Contents /\ idb \in Contents /\ syncs \in Seq(Syncs)
  BY OthersTypes, TypeParts DEF TypeInv, SyncTypes
<1>2. /\ store \in Syncs /\ store.phase = "store" /\ store.left = create \ lost
      /\ store.put = mem /\ store.del = del
  BY <1>1, NoFilesTypes DEF Syncs, Present
<1> HIDE DEF store
<1>3. Append(others, store) \in Seq(Syncs)
  BY <1>1, <1>2, Appended
<1>4. /\ CanList(i)
      /\ \/ create \cup del = {} /\ Flushed(others, FALSE)
         \/ /\ syncs' = Append(others, store)
            /\ UNCHANGED <<syncing, syncAgain, flushFailed>>
         \/ Flushed(Append(others, store), FALSE)
      /\ UNCHANGED <<mem, idb, page, setup, loadMarred>>
  BY DEF ReconcileFlush, store
<1>5. CASE syncAgain
  <2>1. CASE Flushed(others, FALSE) \/ Flushed(Append(others, store), FALSE)
    BY <1>1, <1>3, <1>4, <1>5, <2>1, FlushCovers
  <2> QED BY <1>4, <1>5, <2>1 DEF CoveredInv
<1>6. CASE ~syncAgain
  <2>1. /\ ~syncAgain' /\ flushFailed' = flushFailed
        /\ \/ create \cup del = {} /\ syncs' = others
           \/ syncs' = Append(others, store)
    BY <1>1, <1>4, <1>6 DEF Flushed, SyncTypes
  <2> SUFFICES ASSUME Settled, NEW f \in Present(mem)
               PROVE  Covered(syncs', mem, idb, f)
    BY <1>4, <2>1 DEF CoveredInv, Settled, Present
  <2>2. i = 1 /\ Len(syncs) = 1 /\ DOMAIN syncs = {1}
    BY <1>1, <1>4, OnlyFlushes, LenProperties
  <2>3. others = <<>> /\ Append(others, store) = <<store>>
    BY <1>1, <1>2, <2>2, NothingElse
  <2>4. f \in Files /\ mem[f] # None /\ Covered(syncs, mem, idb, f)
    BY <1>6 DEF CoveredInv, Present
  <2>5. local[f] = mem[f].mtime /\ mem[f].mtime \in Nat /\ local[f] # None
    BY <1>1, <1>4, <2>2, <2>4, StampTypes, NoneAssumption
       DEF Covered, Lists, Puts, Leaves, CanList
  <2>6. f \notin create => idb[f] = mem[f] /\ f \notin del
    <3> SUFFICES ASSUME f \notin create PROVE idb[f] = mem[f] /\ f \notin del
      OBVIOUS
    <3>1. Stamp(idb[f]) = mem[f].mtime /\ f \notin del
      BY <2>4, <2>5
    <3>2. idb[f] # None /\ idb[f].mtime = mem[f].mtime
      BY <1>1, <2>4, <2>5, <3>1, StampTypes DEF Stamp
    <3> QED BY <2>4, <3>1, <3>2 DEF AgreeInv, Versions
  <2>7. CASE syncs' = others /\ create = {}
    BY <2>3, <2>6, <2>7, EmptySeq DEF Covered
  <2>8. CASE syncs' = Append(others, store)
    <3>1. DOMAIN syncs' = {1} /\ syncs'[1] = store
      BY <2>3, <2>8
    <3>2. f \notin lost
      OBVIOUS
    <3>3. CASE f \in create
      <4>1. Puts(store, mem, f)
        BY <1>2, <3>2, <3>3 DEF Puts
      <4> QED BY <3>1, <4>1 DEF Covered
    <3>4. CASE f \notin create
      <4>1. Leaves(store, f) /\ idb[f] = mem[f]
        BY <1>2, <2>6, <3>4 DEF Leaves
      <4> QED BY <3>1, <4>1 DEF Covered
    <3> QED BY <3>3, <3>4
  <2> QED BY <2>1, <2>7, <2>8
<1> QED BY <1>5, <1>6

LEMMA CommitFlushCovers ==
    ASSUME TypeInv, OrderInv, CoveredInv, NEW i \in DOMAIN syncs, CommitFlush(i)
    PROVE  CoveredInv'
<1> DEFINE rest == RemoveAt(syncs, i)
<1>1. SyncTypes /\ syncs[i] \in Syncs /\ rest \in Seq(Syncs) /\ i \in 1..Len(syncs)
      /\ mem \in Contents /\ syncs \in Seq(Syncs) /\ Len(syncs) \in Nat
      /\ DOMAIN syncs = 1..Len(syncs)
  BY OthersTypes, TypeParts, LenProperties DEF TypeInv, SyncTypes
<1>2. i = 1 /\ Tail(syncs) = rest /\ syncs[1].phase = "store"
      /\ idb' = Stored(syncs[1], syncs[1].left \cup syncs[1].del)
      /\ UNCHANGED <<mem, page, setup, loadMarred>>
      /\ \/ syncs' = rest /\ UNCHANGED <<syncing, syncAgain, flushFailed>>
         \/ Flushed(rest, FALSE)
  BY <1>1, OthersTypes DEF CommitFlush, CanStore
<1>3. /\ Len(rest) = Len(syncs) - 1
      /\ \A k \in 1..Len(syncs) - 1 : rest[k] = syncs[k + 1]
  <2>1. /\ Len(rest) = Len(syncs) - 1
        /\ \A k \in 1..Len(syncs) - 1 : rest[k] = syncs[Old(i, k)]
    BY <1>1, ElementRemoved
  <2> HIDE DEF rest
  <2> QED BY <1>1, <1>2, <2>1 DEF Old
<1> HIDE DEF rest
<1>4. DOMAIN rest = 1..Len(syncs) - 1
  BY <1>1, <1>3, LenProperties
<1>5. CASE syncAgain
  <2>1. CASE Flushed(rest, FALSE)
    BY <1>1, <1>2, <1>5, <2>1, FlushCovers
  <2> QED BY <1>2, <1>5, <2>1 DEF CoveredInv
<1>6. CASE ~syncAgain
  <2>1. ~syncAgain' /\ flushFailed' = flushFailed /\ syncs' = rest
    BY <1>1, <1>2, <1>6 DEF Flushed, SyncTypes
  <2> SUFFICES ASSUME Settled, NEW f \in Present(mem)
               PROVE  Covered(rest, mem, idb', f)
    BY <1>2, <2>1 DEF CoveredInv, Settled, Present
  <2>2. f \in Files /\ Covered(syncs, mem, idb, f)
    BY <1>6 DEF CoveredInv, Present
  <2>3. idb'[f] = IF f \notin syncs[1].left \cup syncs[1].del THEN idb[f]
                  ELSE IF f \in syncs[1].left THEN syncs[1].put[f] ELSE None
    BY <1>1, <1>2, <2>2, StoredTypes
  <2>4. CASE idb[f] = mem[f] /\ \A k \in DOMAIN syncs : Leaves(syncs[k], f)
    <3>1. idb'[f] = mem[f]
      BY <1>1, <1>2, <2>3, <2>4 DEF Leaves
    <3>2. \A k \in DOMAIN rest : Leaves(rest[k], f)
      BY <1>1, <1>3, <1>4, <2>4
    <3> QED BY <3>1, <3>2 DEF Covered
  <2>5. ASSUME NEW j \in DOMAIN syncs, Lists(syncs[j], mem, f) \/ Puts(syncs[j], mem, f),
               \A k \in DOMAIN syncs : k > j => Leaves(syncs[k], f)
        PROVE  Covered(rest, mem, idb', f)
    <3>1. CASE j = 1
      <4>1. idb'[f] = mem[f]
        BY <1>2, <2>3, <2>5, <3>1 DEF Lists, Puts
      <4>2. \A k \in DOMAIN rest : Leaves(rest[k], f)
        BY <1>1, <1>3, <1>4, <2>5, <3>1
      <4> QED BY <4>1, <4>2 DEF Covered
    <3>2. CASE j # 1
      <4>1. j - 1 \in DOMAIN rest /\ rest[j - 1] = syncs[j]
        BY <1>1, <1>3, <1>4, <3>2
      <4>2. ASSUME NEW k \in DOMAIN rest, k > j - 1
            PROVE  Leaves(rest[k], f)
        <5>1. k + 1 \in DOMAIN syncs /\ k + 1 > j /\ rest[k] = syncs[k + 1]
          BY <1>1, <1>3, <1>4, <4>2
        <5> QED BY <2>5, <5>1
      <4> QED BY <2>5, <4>1, <4>2 DEF Covered
    <3> QED BY <3>1, <3>2
  <2> QED BY <2>2, <2>4, <2>5 DEF Covered
<1> QED BY <1>5, <1>6

LEMMA LoadStepCovers ==
    ASSUME TypeInv, OrderInv, CoveredInv, NEW i \in DOMAIN syncs,
           \/ ReconcileLoad(i) \/ EndLoad(i) \/ LoadFails(i)
           \/ \E f \in Files : LoadEntry(i, f) \/ EntryIsGone(i, f)
    PROVE  CoveredInv'
<1>1. SyncTypes /\ RemoveAt(syncs, i) \in Seq(Syncs)
      /\ (i = 1 => Tail(syncs) = RemoveAt(syncs, i)) /\ mem \in Contents
  BY OthersTypes, TypeParts DEF TypeInv, SyncTypes
<1>2. syncs[i].populate
  BY DEF ReconcileLoad, EndLoad, LoadFails, LoadEntry, EntryIsGone, EntryFails, Populates
<1>3. page # "ready" \/ loadMarred
  BY <1>2 DEF OrderInv, Loads
<1>4. CASE Loaded(RemoveAt(syncs, i)) /\ mem' = mem
  BY <1>1, <1>4, FlushCovers DEF Loaded
<1>5. CASE page' = page /\ loadMarred' = loadMarred
  BY <1>3, <1>5 DEF CoveredInv, Settled
<1>6. CASE loadMarred' = TRUE
  BY <1>6 DEF CoveredInv, Settled
<1> QED BY <1>1, <1>4, <1>5, <1>6
        DEF ReconcileLoad, EndLoad, CanStore, LoadFails, LoadEntry, EntryIsGone, history

LEMMA CoveredNext == TypeInv /\ OrderInv /\ AgreeInv /\ CoveredInv /\ [Next]_vars => CoveredInv'
<1> SUFFICES ASSUME TypeInv, OrderInv, AgreeInv, CoveredInv, [Next]_vars PROVE CoveredInv'
  OBVIOUS
<1>1. SyncTypes /\ syncs \in Seq(Syncs) /\ mem \in Contents /\ mem' \in Contents
  BY TypesNext, TypeParts DEF TypeInv, TypeOK, SyncTypes, Contents
<1>2. CASE UNCHANGED <<syncs, syncAgain, mem, idb, page, loadMarred, flushFailed>>
           /\ (setup.pc = "read" => setup'.pc = "read")
  BY <1>2 DEF CoveredInv, Settled, Present
<1>3. CASE Flush(syncs, mem')
  BY <1>1, <1>3, FlushCovers
<1>4. CASE page' # "ready" \/ setup'.pc = "read"
  BY <1>4 DEF CoveredInv, Settled
<1>5. CASE LoadStep \/ \E i \in DOMAIN syncs : LoadFails(i)
  BY <1>5, LoadStepCovers DEF LoadStep
<1>6. ASSUME NEW i \in DOMAIN syncs, FlushFails(i) PROVE CoveredInv'
  <2>1. mem' = mem /\ (flushFailed' \/ Flushed(RemoveAt(syncs, i), TRUE))
    BY <1>6 DEF FlushFails
  <2>2. RemoveAt(syncs, i) \in Seq(Syncs)
    BY <1>1, OthersTypes
  <2>3. CASE flushFailed'
    BY <2>3 DEF CoveredInv, Settled
  <2> QED BY <1>1, <2>1, <2>2, <2>3, FlushCovers
<1>7. CASE FlushStep
  BY <1>7, ReconcileFlushCovers, CommitFlushCovers DEF FlushStep
<1>8. CASE UNCHANGED vars \/ MirrorStep \/ MirrorFails \/ SetupFolderSaves
  BY <1>2, <1>8 DEF vars, MirrorStep, MirrorFails, SetupFolderSaves, MirrorCreate,
                    MirrorWrite, MirrorFile, EndMirror, syncVars, history
<1>9. ASSUME NEW f \in Files, ReadFromFolder(f) \/ ReadFails(f) PROVE CoveredInv'
  <2>1. setup \in [pc : {"wait", "read", "done"}, left : SUBSET Files]
    BY TypeParts DEF TypeInv
  <2>2. setup'.pc = "read"
    BY <1>9, <2>1 DEF ReadFromFolder, ReadFails
  <2> QED BY <1>4, <2>2
<1>10. CASE EndSetup \/ OmwSync
  <2>1. mem' = mem /\ Flush(syncs, mem)
    BY <1>10 DEF EndSetup, OmwSync
  <2> QED BY <1>3, <2>1
<1>11. ASSUME NEW f \in Files, SaveGame(f) PROVE CoveredInv'
  BY <1>3, <1>11 DEF SaveGame
<1>12. ASSUME NEW files \in SUBSET Files, Restore(files) PROVE CoveredInv'
  BY <1>3, <1>12 DEF Restore
<1>13. ASSUME NEW f \in Files, DeleteGame(f) PROVE CoveredInv'
  <2>1. /\ mem' = [mem EXCEPT ![f] = None]
        /\ UNCHANGED <<syncs, syncAgain, idb, page, setup, loadMarred, flushFailed>>
    BY <1>13 DEF DeleteGame, syncVars
  <2> SUFFICES ASSUME Settled, NEW g \in Present(mem')
               PROVE  syncAgain \/ Covered(syncs, mem', idb, g)
    BY <2>1 DEF CoveredInv, Settled, Present
  <2>2. g \in Files /\ mem'[g] = mem[g] /\ g \in Present(mem)
    BY <1>1, <2>1 DEF Present, Contents
  <2>3. Covered(syncs, mem, idb, g) => Covered(syncs, mem', idb, g)
    BY <2>2 DEF Covered, Lists, Puts
  <2> QED BY <2>2, <2>3 DEF CoveredInv
<1>14. ASSUME NEW f \in Files, PutInFolder(f) PROVE CoveredInv'
  <2>1. page' # "ready"
    BY <1>14 DEF PutInFolder
  <2> QED BY <1>4, <2>1
<1>15. CASE Close
  BY <1>4, <1>15 DEF Close
<1>16. ASSUME NEW srcLocal \in BOOLEAN, OpenPage(srcLocal) PROVE CoveredInv'
  BY <1>4, <1>16 DEF OpenPage
<1> QED BY <1>5, <1>6, <1>7, <1>8, <1>9, <1>10, <1>11, <1>12, <1>13, <1>14, <1>15, <1>16
        DEF Next, SetupStep, Failure, Game

LEMMA UnstoredInit == Init => UnstoredInv
<1> SUFFICES ASSUME Init PROVE UnstoredInv
  OBVIOUS
<1>1. DOMAIN syncs = {} /\ page = "closed" /\ now = 0 /\ mem = NoFiles /\ idb = NoFiles
  BY EmptySeq DEF Init
<1>2. OrderInv
  BY <1>1 DEF OrderInv, InOrder, AllErrored
<1>3. AgreeInv
  BY <1>1 DEF AgreeInv, Versions, PutsOf, NoFiles
<1>4. CoveredInv
  BY <1>1 DEF CoveredInv, Settled
<1>5. BoundInv
  BY DEF Init, BoundInv, Present, NoFiles, NoMirror
<1> QED BY <1>2, <1>3, <1>4, <1>5, TypesInit DEF UnstoredInv

LEMMA UnstoredNext == UnstoredInv /\ [Next]_vars => UnstoredInv'
BY TypesNext, OrderNext, AgreeNext, BoundNext, CoveredNext DEF UnstoredInv

(* While the game runs, a save that IndexedDB does not have is in a flush   *)
(* under way, or another flush follows: whatever the number of files, of    *)
(* flushes that overlap and of failures.                                    *)
THEOREM SavesAreOnTheirWay == Spec => []UnstoredSaveIsOnItsWay
BY UnstoredInit, UnstoredNext, UnstoredImplies, PTL DEF Spec

------------------------------------------------------------------------------
(* Stored saves are kept, unless the load was marred: what a flush stores   *)
(* is not older than what is there, what flushes store is in the order of   *)
(* the flushes and not newer than memory, and what a flush lists has every  *)
(* save that is stored, or about to be, and that was not deleted.           *)

IsStore(s) == ~s.populate /\ s.phase = "store"
IsList(s) == ~s.populate /\ s.phase = "list"
NotOlder(d, e) == d # None => d.mtime <= e.mtime
Owed(ss, d, f) == d[f] # None \/ \E i \in DOMAIN ss : IsStore(ss[i]) /\ f \in ss[i].left
OwedKept(ss, m, d, D) == \A f \in Files : Owed(ss, d, f) /\ m[f] = None => f \in D

StoreKept(s, m, d, D, p) ==
    IsStore(s) =>
        /\ \A f \in s.left : /\ s.put[f] # None /\ NotOlder(d[f], s.put[f])
                             /\ m[f] # None => s.put[f].mtime <= m[f].mtime
                             /\ p = "loading" => m[f] # None
        /\ ~s.partial => s.del \subseteq D
Before(s, t) ==
    IsStore(s) /\ IsStore(t) =>
        \A f \in s.left \cap t.left : s.put[f].mtime <= t.put[f].mtime
ListKept(s, ss, d, D) ==
    IsList(s) /\ ~s.partial =>
        \A f \in Files : Owed(ss, d, f) /\ s.local[f] = None => f \in D
LoadKept(s, m, d) ==
    s.populate =>
        /\ ~s.errored
        /\ s.phase = "list" => m = NoFiles /\ s.local = NoFiles
        /\ s.phase = "store" => /\ Present(d) \subseteq Present(m) \cup s.left
                                /\ Present(m) \cap s.left = {}

Kept(ss, m, d, D, p) ==
    /\ \A i \in DOMAIN ss : /\ StoreKept(ss[i], m, d, D, p)
                            /\ ListKept(ss[i], ss, d, D)
                            /\ LoadKept(ss[i], m, d)
    /\ \A i, k \in DOMAIN ss : i < k => Before(ss[i], ss[k])

KeptInv ==
    ~loadMarred =>
        /\ Kept(syncs, mem, idb, deleted, page)
        /\ \A f \in Present(mem) : NotOlder(idb[f], mem[f])
        /\ page = "ready" => OwedKept(syncs, mem, idb, deleted)
        /\ page = "loading" => Loads(syncs)

LEMMA RemovedKept ==
    ASSUME NEW ss \in Seq(Syncs), NEW i \in DOMAIN ss, NEW m, NEW d, NEW D, NEW p,
           Kept(ss, m, d, D, p)
    PROVE  /\ Kept(RemoveAt(ss, i), m, d, D, p)
           /\ \A f : Owed(RemoveAt(ss, i), d, f) => Owed(ss, d, f)
<1> DEFINE rest == RemoveAt(ss, i)
<1>1. i \in 1..Len(ss) /\ Len(ss) \in Nat /\ DOMAIN ss = 1..Len(ss)
  BY LenProperties
<1>2. /\ rest \in Seq(Syncs) /\ Len(rest) = Len(ss) - 1
      /\ \A k \in 1..Len(ss) - 1 : Old(i, k) \in 1..Len(ss) /\ rest[k] = ss[Old(i, k)]
  BY <1>1, ElementRemoved
<1> HIDE DEF rest
<1>3. DOMAIN rest = 1..Len(ss) - 1
  BY <1>2, LenProperties
<1>4. ASSUME NEW k \in DOMAIN rest
      PROVE  /\ Old(i, k) \in DOMAIN ss /\ rest[k] = ss[Old(i, k)]
             /\ \A j \in DOMAIN rest : k < j => Old(i, k) < Old(i, j)
  BY <1>1, <1>2, <1>3 DEF Old
<1>5. \A f : Owed(rest, d, f) => Owed(ss, d, f)
  BY <1>4 DEF Owed
<1>6. ASSUME NEW k \in DOMAIN rest
      PROVE  /\ StoreKept(rest[k], m, d, D, p) /\ LoadKept(rest[k], m, d)
             /\ ListKept(rest[k], rest, d, D)
  <2>1. Old(i, k) \in DOMAIN ss /\ rest[k] = ss[Old(i, k)]
    BY <1>4
  <2>2. StoreKept(rest[k], m, d, D, p) /\ LoadKept(rest[k], m, d)
        /\ ListKept(rest[k], ss, d, D)
    BY <2>1 DEF Kept
  <2> QED BY <1>5, <2>2 DEF ListKept
<1>7. ASSUME NEW k \in DOMAIN rest, NEW j \in DOMAIN rest, k < j
      PROVE  Before(rest[k], rest[j])
  <2>1. /\ Old(i, k) \in DOMAIN ss /\ rest[k] = ss[Old(i, k)] /\ Old(i, k) < Old(i, j)
        /\ Old(i, j) \in DOMAIN ss /\ rest[j] = ss[Old(i, j)]
    BY <1>4, <1>7
  <2> QED BY <2>1 DEF Kept
<1> QED BY <1>5, <1>6, <1>7 DEF Kept, rest

LEMMA AppendedKept ==
    ASSUME NEW ss \in Seq(Syncs), NEW e \in Syncs, NEW m, NEW d, NEW D, NEW p,
           Kept(ss, m, d, D, p), StoreKept(e, m, d, D, p), LoadKept(e, m, d),
           \A i \in DOMAIN ss : Before(ss[i], e),
           IsStore(e) => \A i \in DOMAIN ss : ~IsList(ss[i]),
           ListKept(e, ss, d, D)
    PROVE  /\ Kept(Append(ss, e), m, d, D, p)
           /\ \A f : Owed(Append(ss, e), d, f) =>
                       Owed(ss, d, f) \/ (IsStore(e) /\ f \in e.left)
<1> DEFINE more == Append(ss, e)
<1>1. /\ more \in Seq(Syncs) /\ Len(more) = Len(ss) + 1 /\ Len(ss) \in Nat
      /\ \A k \in 1..Len(ss) : more[k] = ss[k]
      /\ more[Len(ss) + 1] = e
  BY Appended
<1> HIDE DEF more
<1>2. DOMAIN more = 1..Len(ss) + 1 /\ DOMAIN ss = 1..Len(ss)
  BY <1>1, LenProperties
<1>3. ASSUME NEW k \in DOMAIN more
      PROVE  \/ k \in DOMAIN ss /\ more[k] = ss[k] /\ k < Len(ss) + 1
             \/ k = Len(ss) + 1 /\ more[k] = e
  BY <1>1, <1>2
<1>4. \A f : Owed(more, d, f) => Owed(ss, d, f) \/ (IsStore(e) /\ f \in e.left)
  BY <1>3 DEF Owed
<1>5. ASSUME NEW s, ListKept(s, ss, d, D), IsList(s) => ~IsStore(e)
      PROVE  ListKept(s, more, d, D)
  BY <1>4, <1>5 DEF ListKept
<1>6. ASSUME NEW k \in DOMAIN more
      PROVE  /\ StoreKept(more[k], m, d, D, p) /\ LoadKept(more[k], m, d)
             /\ ListKept(more[k], more, d, D)
  <2>1. CASE k \in DOMAIN ss /\ more[k] = ss[k]
    BY <1>5, <2>1 DEF Kept
  <2>2. CASE more[k] = e
    BY <1>5, <2>2 DEF IsList, IsStore
  <2> QED BY <1>3, <2>1, <2>2
<1>7. ASSUME NEW k \in DOMAIN more, NEW j \in DOMAIN more, k < j
      PROVE  Before(more[k], more[j])
  <2>1. k \in DOMAIN ss /\ more[k] = ss[k]
    BY <1>1, <1>2, <1>3, <1>7
  <2> QED BY <1>3, <1>7, <2>1 DEF Kept
<1> QED BY <1>4, <1>6, <1>7 DEF Kept, more

(* A flush that lists a memory with all that is owed, or while a load runs. *)
LEMMA NewFlushKept ==
    ASSUME NEW ss \in Seq(Syncs), NEW m \in Contents, NEW d, NEW D, NEW p,
           Kept(ss, m, d, D, p), OwedKept(ss, m, d, D) \/ Loads(ss)
    PROVE  /\ Kept(Append(ss, NewFlush(ss, m)), m, d, D, p)
           /\ \A f : Owed(Append(ss, NewFlush(ss, m)), d, f) => Owed(ss, d, f)
           /\ Loads(ss) => Loads(Append(ss, NewFlush(ss, m)))
<1> DEFINE e == NewFlush(ss, m)
<1>1. /\ e \in Syncs /\ ~e.populate /\ e.phase = "list" /\ e.local = Stamps(m)
      /\ e.partial = Loads(ss)
  BY NewFlushTypes
<1> HIDE DEF e
<1>2. ~IsStore(e)
  BY <1>1 DEF IsStore
<1>3. ListKept(e, ss, d, D)
  BY <1>1, StampTypes DEF ListKept, OwedKept
<1>4. /\ Kept(Append(ss, e), m, d, D, p)
      /\ \A f : Owed(Append(ss, e), d, f) => Owed(ss, d, f)
  BY <1>1, <1>2, <1>3, AppendedKept DEF StoreKept, LoadKept, Before
<1>5. Loads(ss) => Loads(Append(ss, e))
  <2>1. /\ Append(ss, e) \in Seq(Syncs) /\ Len(Append(ss, e)) = Len(ss) + 1 /\ Len(ss) \in Nat
        /\ \A k \in 1..Len(ss) : Append(ss, e)[k] = ss[k]
    BY <1>1, Appended
  <2>2. \A k \in DOMAIN ss : k \in DOMAIN Append(ss, e) /\ Append(ss, e)[k] = ss[k]
    BY <2>1, LenProperties
  <2> QED BY <2>2 DEF Loads
<1> QED BY <1>4, <1>5 DEF e

(* What is left of a step when it may have asked for a flush.               *)
LEMMA FlushKept ==
    ASSUME NEW ss \in Seq(Syncs), mem' \in Contents, page' \in {"ready", "loading"},
           Extends(ss, mem'), Kept(ss, mem', idb', deleted', page'),
           \A f \in Present(mem') : NotOlder(idb'[f], mem'[f]),
           page' = "ready" => OwedKept(ss, mem', idb', deleted'),
           page' = "loading" => Loads(ss)
    PROVE  KeptInv'
<1>1. CASE syncs' = ss
  BY <1>1 DEF KeptInv, Present
<1>2. CASE syncs' = Append(ss, NewFlush(ss, mem'))
  <2>1. /\ Kept(syncs', mem', idb', deleted', page')
        /\ \A f : Owed(syncs', idb', f) => Owed(ss, idb', f)
        /\ Loads(ss) => Loads(syncs')
    BY <1>2, NewFlushKept
  <2>2. page' = "ready" => OwedKept(syncs', mem', idb', deleted')
    BY <2>1 DEF OwedKept
  <2> QED BY <2>1, <2>2 DEF KeptInv, Present
<1> QED BY <1>1, <1>2 DEF Extends

(* What a flush stores, all of it or a part.                                *)
LEMMA StoredKept ==
    ASSUME SyncTypes, NEW i \in DOMAIN syncs, IsStore(syncs[i]), i = 1, NEW D,
           NEW p, Kept(syncs, mem, idb, D, p), Loads(syncs) => p = "loading",
           \A f \in Present(mem) : NotOlder(idb[f], mem[f]),
           NEW done \in SUBSET (syncs[i].left \cup syncs[i].del)
    PROVE  /\ Kept(syncs, mem, Stored(syncs[i], done), D, p)
           /\ \A f \in Present(mem) : NotOlder(Stored(syncs[i], done)[f], mem[f])
           /\ \A f \in Files : Owed(syncs, Stored(syncs[i], done), f) => Owed(syncs, idb, f)
<1> DEFINE d == Stored(syncs[i], done)
<1>1. syncs[i] \in Syncs /\ idb \in Contents /\ mem \in Contents
  BY OthersTypes DEF SyncTypes
<1>2. \A f \in Files : d[f] = IF f \notin done THEN idb[f]
                              ELSE IF f \in syncs[i].left THEN syncs[i].put[f] ELSE None
  BY <1>1, StoredTypes
<1> HIDE DEF d
<1>3. \A f \in Files : \/ d[f] = idb[f] \/ d[f] = None
                       \/ f \in syncs[i].left /\ d[f] = syncs[i].put[f]
  BY <1>2
<1>4. \A f \in Files : Owed(syncs, d, f) => Owed(syncs, idb, f)
  BY <1>3 DEF Owed
<1>5. \A k \in DOMAIN syncs : k # i => i < k
  BY OthersTypes
<1>6. ASSUME NEW k \in DOMAIN syncs
      PROVE  StoreKept(syncs[k], mem, d, D, p)
  <2>1. StoreKept(syncs[k], mem, idb, D, p) /\ syncs[k] \in Syncs
    BY OthersTypes DEF Kept
  <2>2. ASSUME IsStore(syncs[k]), NEW f \in syncs[k].left
        PROVE  NotOlder(d[f], syncs[k].put[f])
    <3>1. f \in Files /\ NotOlder(idb[f], syncs[k].put[f])
      BY <2>1, <2>2 DEF StoreKept, Syncs
    <3>2. CASE f \in syncs[i].left /\ d[f] = syncs[i].put[f]
      <4>1. CASE k = i
        <5>1. syncs[k].put[f] \in Entry /\ syncs[k].put[f].mtime \in Nat
          BY <2>1, <2>2, <3>1 DEF StoreKept, Syncs, Contents, Entry
        <5> QED BY <3>2, <4>1, <5>1 DEF NotOlder
      <4>2. CASE k # i
        <5>1. Before(syncs[i], syncs[k])
          BY <1>5, <4>2 DEF Kept
        <5> QED BY <2>2, <3>2, <5>1 DEF Before, NotOlder
      <4> QED BY <4>1, <4>2
    <3> QED BY <1>3, <3>1, <3>2 DEF NotOlder
  <2> QED BY <2>1, <2>2 DEF StoreKept
<1>7. ASSUME NEW k \in DOMAIN syncs
      PROVE  ListKept(syncs[k], syncs, d, D)
  BY <1>4 DEF Kept, ListKept
<1>8. ASSUME NEW k \in DOMAIN syncs
      PROVE  LoadKept(syncs[k], mem, d)
  <2> SUFFICES ASSUME syncs[k].populate, syncs[k].phase = "store", NEW f \in Present(d)
               PROVE  f \in Present(mem) \cup syncs[k].left
    BY DEF Kept, LoadKept
  <2>1. p = "loading"
    BY DEF Loads
  <2>2. f \in Files /\ d[f] # None
    BY DEF Present
  <2>3. CASE f \in syncs[i].left
    <3>1. StoreKept(syncs[i], mem, idb, D, p)
      BY DEF Kept
    <3> QED BY <2>1, <2>2, <2>3, <3>1 DEF StoreKept, Present
  <2>4. CASE d[f] = idb[f]
    <3>1. LoadKept(syncs[k], mem, idb) /\ f \in Present(idb)
      BY <2>2, <2>4 DEF Kept, Present
    <3> QED BY <3>1 DEF LoadKept
  <2> QED BY <1>3, <2>2, <2>3, <2>4
<1>9. ASSUME NEW f \in Present(mem)
      PROVE  NotOlder(d[f], mem[f])
  <2>1. f \in Files /\ mem[f] # None
    BY DEF Present
  <2>2. StoreKept(syncs[i], mem, idb, D, p)
    BY DEF Kept
  <2> QED BY <1>3, <2>1, <2>2 DEF StoreKept, NotOlder
<1> QED BY <1>4, <1>6, <1>7, <1>8, <1>9 DEF Kept, d

LEMMA FlushStepKept ==
    ASSUME TypeInv, OrderInv, KeptInv, NEW i \in DOMAIN syncs,
           ReconcileFlush(i) \/ CommitFlush(i) \/ FlushFails(i)
    PROVE  KeptInv'
<1> DEFINE others == RemoveAt(syncs, i)
<1>1. SyncTypes /\ syncs[i] \in Syncs /\ (i = 1 => Tail(syncs) = others)
      /\ others \in Seq(Syncs) /\ page \in {"ready", "loading"} /\ mem \in Contents
      /\ syncs \in Seq(Syncs)
      /\ syncing \in BOOLEAN /\ syncAgain \in BOOLEAN /\ flushFailed \in BOOLEAN
  BY OthersTypes, TypeParts, SyncsOpen DEF TypeInv, SyncTypes
<1>2. UNCHANGED <<mem, page, loadMarred, deleted>> /\ ~syncs[i].populate
  BY DEF ReconcileFlush, CommitFlush, FlushFails, Flushes
<1> SUFFICES ASSUME ~loadMarred PROVE KeptInv'
  BY <1>2 DEF KeptInv
<1>3. /\ Kept(syncs, mem, idb, deleted, page)
      /\ \A f \in Present(mem) : NotOlder(idb[f], mem[f])
      /\ page = "ready" => OwedKept(syncs, mem, idb, deleted)
      /\ page = "loading" => Loads(syncs)
      /\ Loads(syncs) => page = "loading"
  BY <1>1 DEF KeptInv, OrderInv
<1>4. Loads(syncs) => Loads(others)
  <2>1. i \in 1..Len(syncs) /\ Len(syncs) \in Nat /\ DOMAIN syncs = 1..Len(syncs)
        /\ DOMAIN others = 1..Len(others) /\ Len(others) = Len(syncs) - 1
        /\ \A k \in 1..Len(syncs) - 1 : others[k] = syncs[Old(i, k)]
    BY <1>1, ElementRemoved, LenProperties
  <2> HIDE DEF others
  <2>2. ASSUME NEW k \in DOMAIN syncs, k # i PROVE \E j \in DOMAIN others : others[j] = syncs[k]
    <3>1. CASE k < i
      BY <2>1, <2>2, <3>1 DEF Old
    <3>2. CASE k > i
      <4>1. k - 1 \in DOMAIN others /\ Old(i, k - 1) = k
        BY <2>1, <2>2, <3>2 DEF Old
      <4> QED BY <2>1, <4>1
    <3> QED BY <2>1, <2>2, <3>1, <3>2
  <2> QED BY <1>2, <2>2 DEF Loads
<1> HIDE DEF others
<1>5. ASSUME NEW ss \in Seq(Syncs), syncs' = ss \/ Flushed(ss, TRUE) \/ Flushed(ss, FALSE),
             Kept(ss, mem, idb', deleted, page),
             \A f \in Present(mem) : NotOlder(idb'[f], mem[f]),
             page = "ready" => OwedKept(ss, mem, idb', deleted),
             Loads(syncs) => Loads(ss)
      PROVE  KeptInv'
  <2>1. Extends(ss, mem')
    BY <1>1, <1>2, <1>5, FlushTypes DEF Extends
  <2> QED BY <1>1, <1>2, <1>3, <1>5, <2>1, FlushKept
<1>6. CASE ReconcileFlush(i)
  <2> DEFINE local  == syncs[i].local
             create == {f \in Files : local[f] # None /\ local[f] # Stamp(idb[f])}
             del    == {f \in Present(idb) : local[f] = None}
             lost   == create \ Present(mem)
             e      == [syncs[i] EXCEPT !.phase = "store", !.local = NoFiles,
                          !.errored = (lost # {}), !.left = create \ lost,
                          !.put = mem, !.del = del]
             more   == Append(others, e)
  <2>1. /\ e \in Syncs /\ IsStore(e) /\ e.left \subseteq Present(mem) /\ e.put = mem
        /\ e.del = del /\ ~e.populate /\ e.partial = syncs[i].partial
    BY <1>1, <1>2, NoFilesTypes DEF Syncs, SyncTypes, Present, IsStore
  <2>2. /\ CanList(i) /\ idb' = idb
        /\ \/ Flushed(others, FALSE)
           \/ syncs' = more
           \/ Flushed(more, FALSE)
    BY <1>6 DEF ReconcileFlush, others
  <2> HIDE DEF e
  <2>3. /\ Kept(others, mem, idb, deleted, page)
        /\ \A f : Owed(others, idb, f) => Owed(syncs, idb, f)
    BY <1>1, <1>3, RemovedKept DEF others
  <2>4. page = "ready" => OwedKept(others, mem, idb, deleted)
    BY <1>3, <2>3 DEF OwedKept
  <2>5. StoreKept(e, mem, idb, deleted, page)
    <3>1. ASSUME NEW f \in e.left
          PROVE  /\ e.put[f] # None /\ NotOlder(idb[f], e.put[f])
                 /\ mem[f] # None /\ e.put[f].mtime <= mem[f].mtime
      <4>1. f \in Present(mem) /\ f \in Files /\ mem[f] # None
        BY <2>1, <3>1 DEF Present
      <4>2. mem[f].mtime \in Nat
        BY <1>1, <4>1, StampTypes
      <4> QED BY <1>3, <2>1, <4>1, <4>2
    <3>2. ~e.partial => e.del \subseteq deleted
      <4>1. IsList(syncs[i]) /\ ListKept(syncs[i], syncs, idb, deleted)
        BY <1>2, <1>3, <2>2 DEF IsList, CanList, Kept
      <4> QED BY <2>1, <4>1 DEF ListKept, Present, Owed
    <3> QED BY <3>1, <3>2 DEF StoreKept
  <2>6. \A k \in DOMAIN others : ~IsList(others[k]) /\ others[k] \in Syncs
    <3>1. ~syncs[i].errored
      BY <1>2, <2>2 DEF CanList, OrderInv, InOrder
    <3>2. InOrder(others) /\ AllErrored(others)
      BY <1>1, <1>2, <3>1, RemovedInOrder DEF OrderInv, others
    <3>3. \A k \in DOMAIN others : others[k] \in Syncs
      BY <1>1, ElementOfSeq, LenProperties
    <3> QED BY <3>2, <3>3 DEF InOrder, AllErrored, IsList
  <2>7. ASSUME NEW k \in DOMAIN others PROVE Before(others[k], e)
    <3>1. StoreKept(others[k], mem, idb, deleted, page)
      BY <2>3 DEF Kept
    <3> QED BY <2>1, <3>1 DEF StoreKept, Before, Present
  <2>8. /\ Kept(more, mem, idb, deleted, page)
        /\ \A f : Owed(more, idb, f) => Owed(others, idb, f) \/ f \in e.left
    <3>1. LoadKept(e, mem, idb) /\ ListKept(e, others, idb, deleted)
      BY <2>1 DEF LoadKept, ListKept, IsList, IsStore
    <3> QED BY <1>1, <2>1, <2>3, <2>5, <2>6, <2>7, <3>1, AppendedKept
  <2>9. page = "ready" => OwedKept(more, mem, idb, deleted)
    BY <2>1, <2>4, <2>8 DEF OwedKept, Present
  <2>10. more \in Seq(Syncs) /\ (Loads(others) => Loads(more))
    <3>1. /\ more \in Seq(Syncs) /\ Len(more) = Len(others) + 1 /\ Len(others) \in Nat
          /\ \A k \in 1..Len(others) : more[k] = others[k]
      BY <1>1, <2>1, Appended
    <3> HIDE DEF more
    <3>2. \A k \in DOMAIN others : k \in DOMAIN more /\ more[k] = others[k]
      BY <1>1, <3>1, LenProperties
    <3> QED BY <3>1, <3>2 DEF Loads
  <2> HIDE DEF more
  <2> QED BY <1>1, <1>3, <1>4, <1>5, <2>2, <2>3, <2>4, <2>8, <2>9, <2>10
<1>7. CASE CommitFlush(i) \/ FlushFails(i)
  <2>1. syncs' = others \/ Flushed(others, TRUE) \/ Flushed(others, FALSE)
    BY <1>1, <1>7 DEF CommitFlush, FlushFails, CanStore, others
  <2>2. \/ idb' = idb
        \/ CanStore(i) /\ \E done \in SUBSET (syncs[i].left \cup syncs[i].del) :
                            idb' = Stored(syncs[i], done)
    BY <1>7 DEF CommitFlush, FlushFails
  <2>3. /\ Kept(syncs, mem, idb', deleted, page)
        /\ \A f \in Present(mem) : NotOlder(idb'[f], mem[f])
        /\ \A f \in Files : Owed(syncs, idb', f) => Owed(syncs, idb, f)
    <3>1. CASE CanStore(i)
      <4>1. IsStore(syncs[i]) /\ i = 1
        BY <1>2, <3>1 DEF CanStore, IsStore
      <4> QED BY <1>1, <1>3, <2>2, <4>1, StoredKept
    <3> QED BY <1>3, <2>2, <3>1
  <2>4. /\ Kept(others, mem, idb', deleted, page)
        /\ \A f : Owed(others, idb', f) => Owed(syncs, idb', f)
    BY <1>1, <2>3, RemovedKept DEF others
  <2>5. page = "ready" => OwedKept(others, mem, idb', deleted)
    BY <1>3, <2>3, <2>4 DEF OwedKept
  <2> QED BY <1>1, <1>4, <1>5, <2>1, <2>3, <2>4, <2>5
<1> QED BY <1>6, <1>7

(* What is kept while a page loads is kept when it is ready.                *)
LEMMA ReadyKept ==
    ASSUME NEW ss, NEW m, NEW d, NEW D, NEW p, Kept(ss, m, d, D, p)
    PROVE  Kept(ss, m, d, D, "ready")
BY DEF Kept, StoreKept

LEMMA LoadStepKept ==
    ASSUME TypeInv, OrderInv, KeptInv, NEW i \in DOMAIN syncs,
           \/ ReconcileLoad(i) \/ EndLoad(i) \/ LoadFails(i)
           \/ \E f \in Files : LoadEntry(i, f) \/ EntryIsGone(i, f)
    PROVE  KeptInv'
<1> DEFINE others == RemoveAt(syncs, i)
<1>1. SyncTypes /\ syncs[i] \in Syncs /\ (i = 1 => Tail(syncs) = others)
      /\ others \in Seq(Syncs) /\ page \in {"ready", "loading"} /\ mem \in Contents
      /\ syncs \in Seq(Syncs) /\ idb \in Contents
      /\ syncing \in BOOLEAN /\ syncAgain \in BOOLEAN /\ flushFailed \in BOOLEAN
  BY OthersTypes, TypeParts, SyncsOpen DEF TypeInv, SyncTypes
<1>2. syncs[i].populate
  BY DEF ReconcileLoad, EndLoad, LoadFails, LoadEntry, EntryIsGone, EntryFails, Populates
<1>3. CASE LoadFails(i) \/ \E f \in Files : EntryIsGone(i, f)
  BY <1>3 DEF LoadFails, EntryIsGone, KeptInv
<1> SUFFICES ASSUME ReconcileLoad(i) \/ EndLoad(i) \/ \E f \in Files : LoadEntry(i, f),
                    ~loadMarred
             PROVE  KeptInv'
  BY <1>3 DEF KeptInv, ReconcileLoad, EndLoad, LoadEntry, history
<1>4. /\ Kept(syncs, mem, idb, deleted, page) /\ page = "loading"
      /\ \A f \in Present(mem) : NotOlder(idb[f], mem[f])
  BY <1>1, <1>2 DEF KeptInv, OrderInv, Loads
<1>5. LoadKept(syncs[i], mem, idb) /\ ~syncs[i].errored
  BY <1>2, <1>4 DEF Kept, LoadKept
<1>6. /\ Kept(others, mem, idb, deleted, page)
      /\ \A f : Owed(others, idb, f) => Owed(syncs, idb, f)
  BY <1>1, <1>4, RemovedKept
<1> HIDE DEF others
<1>7. ASSUME Loaded(others), UNCHANGED <<mem, idb, deleted, loadMarred>>,
             Present(idb) \subseteq Present(mem)
      PROVE  KeptInv'
  <2>1. ASSUME NEW f \in Files, Owed(syncs, idb, f) PROVE mem[f] # None
    <3>1. CASE idb[f] # None
      BY <1>7, <3>1 DEF Present
    <3>2. ASSUME NEW k \in DOMAIN syncs, IsStore(syncs[k]), f \in syncs[k].left
          PROVE  mem[f] # None
      BY <1>4, <3>2 DEF Kept, StoreKept
    <3> QED BY <2>1, <3>1, <3>2 DEF Owed
  <2>2. OwedKept(others, mem, idb, deleted)
    BY <1>6, <2>1 DEF OwedKept
  <2>3. Kept(others, mem, idb, deleted, "ready")
    BY <1>6, ReadyKept
  <2>4. page' = "ready" /\ Extends(others, mem')
    BY <1>1, <1>7, FlushTypes DEF Loaded, Extends
  <2> QED BY <1>1, <1>4, <1>7, <2>2, <2>3, <2>4, FlushKept
<1>8. CASE ReconcileLoad(i)
  <2> DEFINE create == {f \in Present(idb) : Stamp(idb[f]) # syncs[i].local[f]}
             e == [syncs[i] EXCEPT !.phase = "store", !.left = create]
  <2>1. /\ syncs[i].phase = "list" /\ UNCHANGED <<mem, idb, deleted, loadMarred>>
        /\ \/ create = {} /\ Loaded(others)
           \/ syncs' = Append(others, e) /\ page' = page
    BY <1>8 DEF ReconcileLoad, CanList, others
  <2>2. mem = NoFiles /\ syncs[i].local = NoFiles
    BY <1>2, <1>5, <2>1 DEF LoadKept
  <2>3. create = Present(idb)
    BY <1>1, <2>2, StampTypes DEF NoFiles, Present
  <2>4. Present(mem) = {}
    BY <2>2 DEF Present, NoFiles
  <2>5. e \in Syncs /\ e.populate /\ e.phase = "store" /\ e.left = create /\ ~e.errored
    BY <1>1, <1>2, <1>5, <2>3 DEF Syncs, Present
  <2> HIDE DEF e, create
  <2>6. CASE create = {} /\ Loaded(others)
    BY <1>7, <2>1, <2>3, <2>6
  <2>7. CASE syncs' = Append(others, e) /\ page' = page
    <3>1. /\ StoreKept(e, mem, idb, deleted, page) /\ LoadKept(e, mem, idb)
          /\ \A k \in DOMAIN others : Before(others[k], e)
          /\ ~IsStore(e) /\ ListKept(e, others, idb, deleted)
      BY <2>3, <2>4, <2>5 DEF StoreKept, LoadKept, Before, ListKept, IsStore, IsList
    <3>2. Kept(Append(others, e), mem, idb, deleted, page)
      BY <1>1, <1>6, <2>5, <3>1, AppendedKept
    <3>3. Loads(Append(others, e))
      <4>1. /\ Append(others, e) \in Seq(Syncs) /\ Len(others) \in Nat
            /\ Len(Append(others, e)) = Len(others) + 1 /\ Append(others, e)[Len(others) + 1] = e
        BY <1>1, <2>5, Appended
      <4>2. Len(others) + 1 \in DOMAIN Append(others, e)
        BY <4>1, LenProperties
      <4> QED BY <2>5, <4>1, <4>2 DEF Loads
    <3> QED BY <1>4, <2>1, <2>7, <3>2, <3>3 DEF KeptInv, Present
  <2> QED BY <2>1, <2>6, <2>7
<1>9. CASE EndLoad(i)
  <2>1. /\ syncs[i].phase = "store" /\ syncs[i].left = {} /\ Loaded(others)
        /\ UNCHANGED <<mem, idb, deleted, loadMarred>>
    BY <1>1, <1>5, <1>9 DEF EndLoad, CanStore
  <2>2. Present(idb) \subseteq Present(mem)
    BY <1>2, <1>5, <2>1 DEF LoadKept
  <2> QED BY <1>7, <2>1, <2>2
<1>10. ASSUME NEW f \in Files, LoadEntry(i, f)
       PROVE  KeptInv'
  <2> DEFINE e == [syncs[i] EXCEPT !.left = @ \ {f}]
  <2>1. /\ syncs[i].phase = "store" /\ f \in syncs[i].left /\ idb[f] # None
        /\ mem' = [mem EXCEPT ![f] = idb[f]] /\ syncs' = [syncs EXCEPT ![i] = e]
        /\ UNCHANGED <<idb, deleted, loadMarred, page>>
    BY <1>10 DEF LoadEntry, CanStore, history
  <2>2. /\ e \in Syncs /\ e.populate /\ e.phase = "store" /\ e.left = syncs[i].left \ {f}
        /\ ~e.errored
    BY <1>1, <1>2, <1>5, <2>1 DEF Syncs
  <2> HIDE DEF e
  <2>3. /\ DOMAIN syncs' = DOMAIN syncs
        /\ \A k \in DOMAIN syncs : syncs'[k] = IF k = i THEN e ELSE syncs[k]
    BY <1>1, <2>1
  <2>4. mem[f] = None /\ (\A g \in Files : mem'[g] = IF g = f THEN idb[f] ELSE mem[g])
    BY <1>1, <1>2, <1>5, <2>1 DEF LoadKept, Present, Contents
  <2>5. \A g : Owed(syncs', idb, g) => Owed(syncs, idb, g)
    BY <2>2, <2>3 DEF Owed, IsStore
  <2>6. ASSUME NEW k \in DOMAIN syncs
        PROVE  /\ StoreKept(syncs'[k], mem', idb, deleted, page)
               /\ ListKept(syncs'[k], syncs', idb, deleted)
               /\ LoadKept(syncs'[k], mem', idb)
    <3>1. CASE k = i
      <4>1. ~IsStore(e) /\ ~IsList(e) /\ syncs'[k] = e
        BY <2>2, <2>3, <3>1 DEF IsStore, IsList
      <4>2. Present(mem') = Present(mem) \cup {f}
        BY <1>10, <2>1, <2>4 DEF Present
      <4>3. LoadKept(e, mem', idb)
        BY <1>2, <1>5, <2>1, <2>2, <4>2 DEF LoadKept
      <4> QED BY <4>1, <4>3 DEF StoreKept, ListKept
    <3>2. CASE k # i
      <4>1. syncs'[k] = syncs[k] /\ ~syncs[k].populate /\ syncs[k] \in Syncs
        BY <1>1, <1>2, <2>3, <3>2, OthersTypes DEF OrderInv, InOrder
      <4>2. StoreKept(syncs[k], mem, idb, deleted, "loading")
            /\ ListKept(syncs[k], syncs, idb, deleted)
        BY <1>4 DEF Kept
      <4>3. StoreKept(syncs[k], mem', idb, deleted, page)
        BY <1>4, <2>4, <4>1, <4>2 DEF StoreKept, Syncs
      <4>4. ListKept(syncs[k], syncs', idb, deleted)
        BY <2>5, <4>2 DEF ListKept
      <4> QED BY <4>1, <4>3, <4>4 DEF LoadKept
    <3> QED BY <3>1, <3>2
  <2>7. ASSUME NEW k \in DOMAIN syncs, NEW j \in DOMAIN syncs, k < j
        PROVE  Before(syncs'[k], syncs'[j])
    BY <1>4, <2>2, <2>3, <2>7 DEF Kept, Before, IsStore
  <2>8. Kept(syncs', mem', idb, deleted, page)
    BY <2>3, <2>6, <2>7 DEF Kept
  <2>9. ASSUME NEW g \in Files, mem'[g] # None PROVE NotOlder(idb[g], mem'[g])
    <3>1. CASE g = f
      <4>1. idb[f].mtime \in Nat
        BY <1>1, <2>1, StampTypes
      <4> QED BY <2>4, <3>1, <4>1 DEF NotOlder
    <3> QED BY <1>4, <2>4, <2>9, <3>1 DEF Present
  <2>10. Loads(syncs')
    BY <2>2, <2>3 DEF Loads
  <2> QED BY <1>4, <2>1, <2>8, <2>9, <2>10 DEF KeptInv, Present
<1> QED BY <1>8, <1>9, <1>10

(* Files that are written or deleted on a page that is ready.               *)
LEMMA WrittenKept ==
    ASSUME TypeInv, AgreeInv, KeptInv, OrderInv, ~loadMarred, page = "ready",
           NEW files \in SUBSET Files, NEW bytes, \A f \in files : bytes[f] \in Nat
    PROVE  /\ Kept(syncs, Write(mem, files, bytes), idb, deleted, page)
           /\ \A f \in Present(Write(mem, files, bytes)) :
                NotOlder(idb[f], Write(mem, files, bytes)[f])
           /\ OwedKept(syncs, Write(mem, files, bytes), idb, deleted)
<1> DEFINE m == Write(mem, files, bytes)
<1>1. SyncTypes /\ mem \in Contents /\ now \in Nat
  BY TypeParts DEF TypeInv, SyncTypes
<1>2. /\ \A f \in Files : f \notin files => m[f] = mem[f]
      /\ \A f \in Files : f \in files => m[f] # None /\ m[f].mtime = now + 1
  BY <1>1, WriteTypes
<1> HIDE DEF m
<1>3. /\ Kept(syncs, mem, idb, deleted, page) /\ ~Loads(syncs)
      /\ \A f \in Present(mem) : NotOlder(idb[f], mem[f])
      /\ OwedKept(syncs, mem, idb, deleted)
  BY DEF KeptInv, OrderInv
<1>4. ASSUME NEW k \in DOMAIN syncs
      PROVE  /\ StoreKept(syncs[k], m, idb, deleted, page)
             /\ ListKept(syncs[k], syncs, idb, deleted) /\ LoadKept(syncs[k], m, idb)
  <2>1. StoreKept(syncs[k], mem, idb, deleted, page) /\ syncs[k] \in Syncs
        /\ ListKept(syncs[k], syncs, idb, deleted) /\ ~syncs[k].populate
    BY <1>1, <1>3, OthersTypes DEF Kept, Loads
  <2>2. ASSUME IsStore(syncs[k]), NEW f \in syncs[k].left, m[f] # None
        PROVE  syncs[k].put[f].mtime <= m[f].mtime
    <3>1. f \in Files /\ syncs[k].put[f] # None
      BY <2>1, <2>2 DEF StoreKept, Syncs
    <3>2. syncs[k].put[f] \in Versions(f) \ {None}
      BY <3>1 DEF Versions, PutsOf
    <3>3. syncs[k].put[f].mtime \in Nat /\ syncs[k].put[f].mtime <= now
      BY <1>1, <3>1, <3>2, VersionTypes DEF AgreeInv
    <3>4. CASE f \in files
      BY <1>1, <1>2, <3>1, <3>3, <3>4
    <3>5. CASE f \notin files
      BY <1>2, <2>1, <2>2, <3>1, <3>5 DEF StoreKept
    <3> QED BY <3>4, <3>5
  <2>3. StoreKept(syncs[k], m, idb, deleted, page)
    BY <2>1, <2>2 DEF StoreKept
  <2> QED BY <2>1, <2>3 DEF LoadKept
<1>5. ASSUME NEW f \in Present(m)
      PROVE  NotOlder(idb[f], m[f])
  <2>1. f \in Files /\ m[f] # None
    BY DEF Present
  <2>2. CASE f \in files /\ idb[f] # None
    <3>1. idb[f] \in Versions(f) \ {None}
      BY <2>2 DEF Versions
    <3>2. idb[f].mtime \in Nat /\ idb[f].mtime <= now
      BY <1>1, <2>1, <3>1, VersionTypes DEF AgreeInv
    <3> QED BY <1>1, <1>2, <2>1, <2>2, <3>2 DEF NotOlder
  <2>3. CASE f \notin files
    BY <1>2, <1>3, <2>1, <2>3 DEF Present
  <2> QED BY <2>2, <2>3 DEF NotOlder
<1>6. OwedKept(syncs, m, idb, deleted)
  BY <1>2, <1>3 DEF OwedKept
<1>7. Kept(syncs, m, idb, deleted, page)
  BY <1>3, <1>4 DEF Kept
<1> QED BY <1>5, <1>6, <1>7 DEF m

LEMMA KeptNext == TypeInv /\ OrderInv /\ AgreeInv /\ KeptInv /\ [Next]_vars => KeptInv'
<1> SUFFICES ASSUME TypeInv, OrderInv, AgreeInv, KeptInv, [Next]_vars PROVE KeptInv'
  OBVIOUS
<1>1. SyncTypes /\ syncs \in Seq(Syncs) /\ mem \in Contents /\ mem' \in Contents
      /\ now \in Nat /\ page \in {"closed", "loading", "ready"}
      /\ syncing \in BOOLEAN /\ syncAgain \in BOOLEAN /\ flushFailed \in BOOLEAN
  BY TypesNext, TypeParts DEF TypeInv, TypeOK, SyncTypes, Contents
<1>2. CASE FlushStep \/ LoadStep \/ \E i \in DOMAIN syncs : FlushFails(i) \/ LoadFails(i)
  BY <1>2, FlushStepKept, LoadStepKept DEF FlushStep, LoadStep
<1>3. CASE UNCHANGED <<syncs, mem, idb, page, deleted, loadMarred>>
  BY <1>3 DEF KeptInv, Present
<1>4. CASE \/ UNCHANGED vars \/ MirrorStep \/ MirrorFails \/ SetupFolderSaves
           \/ \E f \in Files : ReadFails(f) \/ PutInFolder(f)
  <2>1. UNCHANGED <<syncs, mem, idb, page, deleted, loadMarred>>
    BY <1>4 DEF vars, MirrorStep, MirrorFails, SetupFolderSaves, ReadFails, PutInFolder,
                MirrorCreate, MirrorWrite, MirrorFile, EndMirror, syncVars, history
  <2> QED BY <1>3, <2>1
<1>5. CASE EndSetup \/ OmwSync
  <2>1. UNCHANGED <<mem, idb, page, deleted, loadMarred>> /\ Flush(syncs, mem)
    BY <1>5 DEF EndSetup, OmwSync
  <2>2. page # "closed"
    BY <1>5 DEF EndSetup, OmwSync, TypeInv, ReadInv
  <2>3. Extends(syncs, mem')
    BY <1>1, <2>1, FlushTypes DEF Extends
  <2> SUFFICES ASSUME ~loadMarred PROVE KeptInv'
    BY <2>1 DEF KeptInv
  <2> QED BY <1>1, <2>1, <2>2, <2>3, FlushKept DEF KeptInv
<1>6. ASSUME NEW files \in SUBSET Files, NEW bytes, \A f \in files : bytes[f] \in Nat,
             mem' = Write(mem, files, bytes), page = "ready", ~loadMarred,
             UNCHANGED <<idb, page, deleted>>, syncs' = syncs \/ Flush(syncs, mem')
      PROVE  KeptInv'
  <2>1. /\ Kept(syncs, mem', idb, deleted, page)
        /\ \A f \in Present(mem') : NotOlder(idb[f], mem'[f])
        /\ OwedKept(syncs, mem', idb, deleted)
    BY <1>6, WrittenKept
  <2>2. Extends(syncs, mem')
    BY <1>1, <1>6, FlushTypes DEF Extends
  <2>3. page' = "ready" /\ idb' = idb /\ deleted' = deleted
    BY <1>6
  <2> QED BY <1>1, <1>6, <2>1, <2>2, <2>3, FlushKept
<1>7. ASSUME loadMarred' PROVE KeptInv'
  BY <1>7 DEF KeptInv
<1>8. ASSUME NEW f \in Files, ReadFromFolder(f) PROVE KeptInv'
  <2>1. /\ mem' = Write(mem, {f}, folder) /\ f \in setup.left /\ setup.pc = "read"
        /\ UNCHANGED <<idb, syncs, page, deleted, loadMarred>>
    BY <1>8 DEF ReadFromFolder, syncVars, history
  <2>2. folder[f] \in Nat /\ page = "ready"
    BY <2>1, TypeParts DEF TypeInv, ReadInv, Present
  <2>3. \A g \in {f} : folder[g] \in Nat
    BY <2>2
  <2> QED BY <1>6, <1>7, <2>1, <2>2, <2>3
<1>9. ASSUME NEW f \in Files, SaveGame(f) PROVE KeptInv'
  <2>1. /\ mem' = Write(mem, {f}, [g \in {f} |-> now + 1]) /\ page = "ready"
        /\ UNCHANGED <<idb, page, deleted, loadMarred>> /\ Flush(syncs, mem')
    BY <1>9 DEF SaveGame, EngineRuns
  <2>2. \A g \in {f} : [h \in {f} |-> now + 1][g] \in Nat
    BY <1>1
  <2> QED BY <1>6, <1>7, <2>1, <2>2
<1>10. ASSUME NEW files \in SUBSET Files, Restore(files) PROVE KeptInv'
  <2>1. /\ mem' = Write(mem, files, [g \in files |-> now + 1]) /\ page # "closed"
        /\ UNCHANGED <<idb, page, deleted>> /\ Flush(syncs, mem')
        /\ loadMarred' = (loadMarred \/ Loads(syncs))
    BY <1>10 DEF Restore
  <2>2. \A g \in files : [h \in files |-> now + 1][g] \in Nat
    BY <1>1
  <2>3. ~loadMarred' => ~loadMarred /\ page = "ready"
    BY <1>1, <2>1 DEF KeptInv
  <2> QED BY <1>6, <1>7, <2>1, <2>2, <2>3
<1>11. ASSUME NEW f \in Files, DeleteGame(f) PROVE KeptInv'
  <2>1. /\ mem' = [mem EXCEPT ![f] = None] /\ deleted' = deleted \cup {f} /\ page = "ready"
        /\ UNCHANGED <<syncs, idb, page, loadMarred>>
    BY <1>11 DEF DeleteGame, EngineRuns, syncVars
  <2> SUFFICES ASSUME ~loadMarred PROVE KeptInv'
    BY <2>1 DEF KeptInv
  <2>2. \A g \in Files : mem'[g] = IF g = f THEN None ELSE mem[g]
    BY <1>1, <2>1 DEF Contents
  <2>3. /\ Kept(syncs, mem, idb, deleted, page) /\ ~Loads(syncs)
        /\ \A g \in Present(mem) : NotOlder(idb[g], mem[g])
        /\ OwedKept(syncs, mem, idb, deleted)
    BY <2>1 DEF KeptInv, OrderInv
  <2>4. ASSUME NEW k \in DOMAIN syncs
        PROVE  /\ StoreKept(syncs[k], mem', idb, deleted', page)
               /\ ListKept(syncs[k], syncs, idb, deleted') /\ LoadKept(syncs[k], mem', idb)
    <3>1. StoreKept(syncs[k], mem, idb, deleted, page) /\ syncs[k] \in Syncs
          /\ ListKept(syncs[k], syncs, idb, deleted) /\ ~syncs[k].populate
      BY <1>1, <2>3, OthersTypes DEF Kept, Loads
    <3>2. StoreKept(syncs[k], mem', idb, deleted', page)
      BY <2>1, <2>2, <3>1 DEF StoreKept, Syncs
    <3>3. ListKept(syncs[k], syncs, idb, deleted')
      BY <2>1, <3>1 DEF ListKept
    <3> QED BY <3>1, <3>2, <3>3 DEF LoadKept
  <2>5. Kept(syncs, mem', idb, deleted', page)
    BY <2>3, <2>4 DEF Kept
  <2>6. OwedKept(syncs, mem', idb, deleted')
    BY <2>1, <2>2, <2>3 DEF OwedKept
  <2>7. \A g \in Present(mem') : NotOlder(idb[g], mem'[g])
    BY <2>2, <2>3 DEF Present
  <2> QED BY <2>1, <2>5, <2>6, <2>7 DEF KeptInv, Present
<1>12. CASE Close
  <2>1. mem' = NoFiles /\ DOMAIN syncs' = {} /\ page' = "closed"
    BY <1>12, EmptySeq DEF Close
  <2> QED BY <2>1 DEF KeptInv, Kept, Present, NoFiles
<1>13. ASSUME NEW srcLocal \in BOOLEAN, OpenPage(srcLocal) PROVE KeptInv'
  <2> DEFINE s == NewSync(TRUE, mem, FALSE)
  <2>1. /\ s.populate /\ s.phase = "list" /\ ~s.errored /\ s.local = Stamps(mem)
        /\ syncs' = <<s>> /\ page' = "loading" /\ mem = NoFiles
        /\ UNCHANGED <<mem, idb, deleted, loadMarred>>
    BY <1>1, <1>13, NewSyncTypes DEF OpenPage, TypeInv, ReadInv, history
  <2>2. s.local = NoFiles
    BY <2>1 DEF Stamps, Stamp, NoFiles
  <2> HIDE DEF s
  <2>3. DOMAIN syncs' = {1} /\ syncs'[1] = s
    BY <2>1
  <2>4. Kept(syncs', mem', idb', deleted', page')
    <3>1. /\ StoreKept(s, mem', idb', deleted', page') /\ LoadKept(s, mem', idb')
          /\ ListKept(s, syncs', idb', deleted')
      BY <2>1, <2>2 DEF StoreKept, LoadKept, ListKept, IsStore, IsList
    <3> QED BY <2>3, <3>1 DEF Kept
  <2>5. Present(mem') = {} /\ Loads(syncs')
    BY <2>1, <2>3 DEF Present, NoFiles, Loads
  <2> QED BY <2>1, <2>4, <2>5 DEF KeptInv, Present
<1> QED BY <1>2, <1>4, <1>5, <1>8, <1>9, <1>10, <1>11, <1>12, <1>13
       DEF Next, SetupStep, Failure, Game

StoredInv == TypeInv /\ OrderInv /\ AgreeInv /\ BoundInv /\ KeptInv

LEMMA StoredNext == StoredInv /\ [Next]_vars => StoredInv'
BY TypesNext, OrderNext, AgreeNext, BoundNext, KeptNext DEF StoredInv

LEMMA StoredInit == Init => StoredInv
<1> SUFFICES ASSUME Init PROVE StoredInv
  OBVIOUS
<1>1. DOMAIN syncs = {} /\ page = "closed" /\ mem = NoFiles
  BY EmptySeq DEF Init
<1>2. KeptInv
  BY <1>1 DEF KeptInv, Kept, Present, NoFiles
<1> QED BY <1>2, UnstoredInit DEF StoredInv, UnstoredInv

(* Only the steps of a flush change what is stored.                         *)
StorageKept ==
    \A f \in Present(idb) :
        idb'[f] # idb[f] =>
            \/ idb'[f] # None /\ idb'[f].mtime > idb[f].mtime
            \/ loadMarred
            \/ idb'[f] = None /\ (f \in deleted \/ syncs[1].partial)

LEMMA StepKeeps == StoredInv /\ [Next]_vars => StorageKept
<1> SUFFICES ASSUME StoredInv, [Next]_vars, idb' # idb, ~loadMarred, NEW f \in Present(idb),
                    idb'[f] # idb[f]
             PROVE  \/ idb'[f] # None /\ idb'[f].mtime > idb[f].mtime
                    \/ idb'[f] = None /\ (f \in deleted \/ syncs[1].partial)
  BY DEF StorageKept
<1>1. TypeInv /\ SyncTypes /\ f \in Files /\ idb[f] # None /\ AgreeInv
      /\ Kept(syncs, mem, idb, deleted, page)
  BY TypeParts DEF StoredInv, TypeInv, KeptInv, Present
<1>2. PICK i \in DOMAIN syncs, done \in SUBSET (syncs[1].left \cup syncs[1].del) :
        i = 1 /\ i \in Flushes /\ CanStore(i) /\ idb' = Stored(syncs[i], done)
  <2>1. \E i \in DOMAIN syncs : CommitFlush(i) \/ FlushFails(i)
    BY DEF Next, vars, FlushStep, LoadStep, SetupStep, MirrorStep, Failure, Game, OmwSync,
           Close, OpenPage, ReconcileFlush, ReconcileLoad, EndLoad, LoadEntry, EntryIsGone,
           SetupFolderSaves, EndSetup, ReadFromFolder, MirrorCreate, MirrorWrite, EndMirror,
           MirrorFile, LoadFails, MirrorFails, ReadFails, SaveGame, DeleteGame, PutInFolder,
           Restore
  <2>2. PICK i \in DOMAIN syncs : CommitFlush(i) \/ FlushFails(i)
    BY <2>1
  <2> QED BY <2>2 DEF CommitFlush, FlushFails, CanStore
<1> DEFINE s == syncs[1]
<1>3. IsStore(s) /\ s \in Syncs /\ StoreKept(s, mem, idb, deleted, page)
  BY <1>1, <1>2, OthersTypes DEF CanStore, Flushes, IsStore, Kept
<1>4. f \in done /\ idb'[f] = IF f \in s.left THEN s.put[f] ELSE None
  BY <1>1, <1>2, <1>3, StoredTypes
<1>5. CASE f \in s.left
  <2>1. s.put[f] # None /\ idb[f].mtime <= s.put[f].mtime
    BY <1>1, <1>3, <1>5 DEF StoreKept, NotOlder
  <2>2. idb[f] \in Versions(f) \ {None} /\ s.put[f] \in Versions(f) \ {None}
    BY <1>1, <1>2, <2>1 DEF Versions, PutsOf
  <2>3. idb[f].mtime \in Nat /\ s.put[f].mtime \in Nat /\ idb[f].mtime # s.put[f].mtime
    BY <1>1, <1>4, <1>5, <2>2, VersionTypes DEF AgreeInv
  <2> QED BY <1>4, <1>5, <2>1, <2>3
<1>6. CASE f \notin s.left
  <2>1. f \in s.del
    BY <1>2, <1>4, <1>6
  <2> QED BY <1>3, <1>4, <1>6, <2>1 DEF StoreKept
<1> QED BY <1>5, <1>6

(* A save that IndexedDB has is only replaced by a newer one, and only      *)
(* removed when the game deleted it, unless a load met an error or a flush  *)
(* was asked for before the load was over.                                  *)
THEOREM StorageIsSafe == Spec => StoredSavesAreKept
<1>1. StoredInv /\ [Next]_vars => [StorageKept]_vars
  BY StepKeeps
<1>2. [StorageKept]_vars =>
        [\A f \in Present(idb) :
          idb'[f] # idb[f] =>
              \/ idb'[f] # None /\ idb'[f].mtime > idb[f].mtime
              \/ loadMarred
              \/ idb'[f] = None /\ (f \in deleted \/ syncs[1].partial)]_vars
  BY DEF StorageKept
<1> QED BY <1>1, <1>2, StoredInit, StoredNext, PTL DEF Spec, StoredSavesAreKept

------------------------------------------------------------------------------
(* The folder wins. Files of the folder that were read are in memory, and   *)
(* stay there; nothing that is mirrored is missing from the names that the  *)
(* mirror reads, and what it writes is not older than what is there.        *)

MirroredInv ==
    /\ Present(folder) \subseteq LooseSaves
    /\ folderSaves => page = "ready"
    /\ Present(mirrored) \subseteq LooseSaves \cap Present(mem)
    /\ mirror.pc # "idle" =>
         folderSaves /\ Present(mirrored) \subseteq mirror.names \cup mirror.live
    /\ mirror.names \cup mirror.live \subseteq Present(mem)
    /\ mirror.pc \in {"create", "write"} => mirror.file \in mirror.live /\ mirror.data # None

FolderInv ==
    ~loadMarred /\ (setup.pc = "read" \/ folderSaves) =>
        /\ \A f \in Present(folder) \ (setup.left \cup unread) :
             mem[f] # None /\ folder[f] <= mem[f].data
        /\ mirror.pc \in {"create", "write"} =>
             /\ mirror.data <= mem[mirror.file].data
             /\ mirror.file \in Present(folder) \ unread =>
                  folder[mirror.file] <= mirror.data

FilesInv == TypeInv /\ OrderInv /\ AgreeInv /\ BoundInv /\ MirroredInv /\ FolderInv

MirrorTypes == [pc : {"idle", "scan", "create", "write"},
                names : SUBSET LooseSaves, live : SUBSET LooseSaves,
                file : Files \cup {None}, data : Nat \cup {None}, mtime : Nat \cup {None}]

LEMMA FilesTypes ==
    ASSUME TypeInv
    PROVE  /\ SyncTypes /\ mem \in Contents /\ idb \in Contents /\ now \in Nat
           /\ folder \in [Files -> Nat \cup {None}] /\ mirrored \in [Files -> Nat \cup {None}]
           /\ mirror \in MirrorTypes /\ unread \subseteq Files
           /\ setup \in [pc : {"wait", "read", "done"}, left : SUBSET Files]
           /\ LooseSaves \subseteq Files
           /\ \A f \in Files : mem[f] # None => mem[f].data \in Nat
BY TypeParts, StampTypes DEF TypeInv, SyncTypes, MirrorTypes, Files

(* Steps of the game and the syncs: memory only gains files, or replaces    *)
(* those of the folder by something newer.                                  *)
LEMMA MemoryStep ==
    ASSUME FilesInv, mem' \in Contents, UNCHANGED <<folder, mirror, mirrored, folderSaves>>,
           page = "ready" => page' = "ready", loadMarred => loadMarred',
           unread \subseteq unread', setup'.pc = "read" => setup.pc = "read",
           setup.left \subseteq setup'.left \cup unread',
           \A f \in LooseSaves : mem[f] # None => mem'[f] # None,
           ~loadMarred' /\ page = "ready" =>
             \A f \in LooseSaves : mem[f] # None => mem[f].data <= mem'[f].data
    PROVE  MirroredInv' /\ FolderInv'
<1>1. /\ folder \in [Files -> Nat \cup {None}] /\ mirror \in MirrorTypes
      /\ LooseSaves \subseteq Files /\ mirrored \in [Files -> Nat \cup {None}]
      /\ \A f \in Files : mem[f] # None => mem[f].data \in Nat
      /\ mirror.names \subseteq LooseSaves /\ mirror.live \subseteq LooseSaves
  BY FilesTypes DEF FilesInv, MirrorTypes
<1>2. \A f \in Files : mem'[f] # None => mem'[f].data \in Nat
  BY StampTypes
<1>3. MirroredInv'
  BY <1>1 DEF FilesInv, MirroredInv, Present
<1>4. FolderInv'
  <2> SUFFICES ASSUME ~loadMarred', setup.pc = "read" \/ folderSaves
               PROVE  /\ \A f \in Present(folder) \ (setup'.left \cup unread') :
                           mem'[f] # None /\ folder[f] <= mem'[f].data
                      /\ mirror.pc \in {"create", "write"} =>
                           /\ mirror.data <= mem'[mirror.file].data
                           /\ mirror.file \in Present(folder) \ unread' =>
                                folder[mirror.file] <= mirror.data
    BY DEF FolderInv, Present
  <2>1. page = "ready" /\ ~loadMarred
    BY DEF FilesInv, MirroredInv, TypeInv, ReadInv
  <2>2. ASSUME NEW f \in Present(folder) \ (setup'.left \cup unread')
        PROVE  mem'[f] # None /\ folder[f] <= mem'[f].data
    <3>1. f \in Present(folder) \ (setup.left \cup unread) /\ f \in LooseSaves
      BY DEF FilesInv, MirroredInv
    <3>2. f \in Files /\ folder[f] \in Nat /\ mem[f] # None /\ folder[f] <= mem[f].data
      BY <1>1, <2>1, <3>1 DEF FilesInv, FolderInv, Present
    <3> QED BY <1>1, <1>2, <2>1, <3>1, <3>2
  <2>3. ASSUME mirror.pc \in {"create", "write"}
        PROVE  /\ mirror.data <= mem'[mirror.file].data
               /\ mirror.file \in Present(folder) \ unread' =>
                    folder[mirror.file] <= mirror.data
    <3>1. /\ mirror.file \in LooseSaves /\ mirror.file \in Files
          /\ mem[mirror.file] # None /\ mirror.data \in Nat
      BY <1>1, <2>3 DEF FilesInv, MirroredInv, MirrorTypes, Present
    <3>2. /\ mirror.data <= mem[mirror.file].data
          /\ mirror.file \in Present(folder) \ unread => folder[mirror.file] <= mirror.data
      BY <2>1, <2>3 DEF FilesInv, FolderInv
    <3> QED BY <1>1, <1>2, <2>1, <3>1, <3>2
  <2> QED BY <2>2, <2>3
<1> QED BY <1>3, <1>4

LEMMA SetupStepFolder ==
    ASSUME FilesInv, mem' \in Contents, SetupStep \/ \E f \in Files : ReadFails(f)
    PROVE  MirroredInv' /\ FolderInv'
<1>1. /\ folder \in [Files -> Nat \cup {None}] /\ mirrored \in [Files -> Nat \cup {None}]
      /\ mirror \in MirrorTypes /\ mem \in Contents
      /\ setup \in [pc : {"wait", "read", "done"}, left : SUBSET Files]
      /\ \A f \in Files : mem[f] # None => mem[f].data \in Nat
      /\ now \in Nat /\ MirroredInv /\ FolderInv /\ TypeInv
  BY FilesTypes DEF FilesInv
<1>2. CASE SetupFolderSaves
  <2>1. /\ UNCHANGED <<mem, folder, page, loadMarred, unread, mirror, mirrored, folderSaves>>
        /\ setup'.pc = "read" => setup'.left = Present(folder)
        /\ mirror.pc = "idle" /\ ~folderSaves
    BY <1>1, <1>2 DEF SetupFolderSaves, mirrorVars, history, NoSetup, Present, TypeInv, ReadInv
  <2> QED BY <1>1, <2>1 DEF MirroredInv, FolderInv, Present
<1>3. ASSUME NEW f \in Files, ReadFails(f) PROVE MirroredInv' /\ FolderInv'
  <2>1. /\ UNCHANGED <<mem, folder, page, loadMarred, mirror, mirrored, folderSaves>>
        /\ unread' = unread \cup {f} /\ setup' = [setup EXCEPT !.left = @ \ {f}]
    BY <1>3 DEF ReadFails, mirrorVars
  <2>2. setup'.pc = setup.pc /\ setup'.left = setup.left \ {f}
    BY <1>1, <2>1
  <2>3. \A g \in LooseSaves : mem[g] # None => mem[g].data <= mem'[g].data
    BY <1>1, <2>1 DEF Files
  <2> QED BY <2>1, <2>2, <2>3, MemoryStep
<1>4. CASE EndSetup
  <2>1. /\ UNCHANGED <<mem, folder, page, loadMarred, unread, mirror, mirrored>>
        /\ folderSaves' /\ setup' = NoSetup /\ setup.pc = "read" /\ setup.left = {}
        /\ mirror.pc = "idle" /\ page = "ready"
    BY <1>1, <1>4 DEF EndSetup, TypeInv, ReadInv
  <2> QED BY <1>1, <2>1 DEF MirroredInv, FolderInv, Present, NoSetup
<1>5. ASSUME NEW f \in Files, ReadFromFolder(f) PROVE MirroredInv' /\ FolderInv'
  <2>1. /\ mem' = Write(mem, {f}, folder) /\ mirrored' = [mirrored EXCEPT ![f] = now + 1]
        /\ setup.pc = "read" /\ f \in setup.left /\ setup' = [setup EXCEPT !.left = @ \ {f}]
        /\ UNCHANGED <<folder, page, loadMarred, unread, mirror, folderSaves>>
    BY <1>5 DEF ReadFromFolder, history
  <2>2. /\ f \in Present(folder) /\ f \in LooseSaves /\ mirror.pc = "idle" /\ ~folderSaves
        /\ page = "ready" /\ folder[f] \in Nat
    BY <1>1, <2>1 DEF TypeInv, ReadInv, MirroredInv, Present
  <2>3. /\ \A g \in Files : g # f => mem'[g] = mem[g] /\ mirrored'[g] = mirrored[g]
        /\ mem'[f] # None /\ mem'[f].data = folder[f]
    BY <1>1, <2>1, <2>2, WriteTypes
  <2>4. setup'.pc = "read" /\ setup'.left = setup.left \ {f}
    BY <1>1, <2>1
  <2>5. MirroredInv'
    <3>1. mirror.names \cup mirror.live \subseteq Files
      BY <1>1 DEF MirrorTypes, Files
    <3>2. Present(mem) \cup {f} \subseteq Present(mem')
      BY <2>3 DEF Present
    <3>3. Present(mirrored') \subseteq Present(mirrored) \cup {f}
      BY <2>3 DEF Present
    <3> QED BY <1>1, <2>1, <2>2, <3>1, <3>2, <3>3 DEF MirroredInv, Present
  <2>6. ASSUME ~loadMarred, NEW g \in Present(folder) \ (setup'.left \cup unread)
        PROVE  mem'[g] # None /\ folder[g] <= mem'[g].data
    <3>1. CASE g = f
      BY <2>2, <2>3, <3>1
    <3>2. CASE g # f
      BY <1>1, <2>1, <2>3, <2>4, <2>6, <3>2 DEF FolderInv, Present
    <3> QED BY <3>1, <3>2
  <2>7. FolderInv'
    BY <2>1, <2>2, <2>6 DEF FolderInv, Present
  <2> QED BY <2>5, <2>7
<1> QED BY <1>2, <1>3, <1>4, <1>5 DEF SetupStep

(* Steps of the mirror; none takes a file away from the folder.             *)
LEMMA MirrorStepFolder ==
    ASSUME FilesInv, MirrorStep \/ MirrorFails
    PROVE  /\ MirroredInv' /\ FolderInv'
           /\ ~loadMarred =>
                \A f \in Present(folder) \ unread : folder'[f] # None /\ folder'[f] >= folder[f]
<1>1. /\ folder \in [Files -> Nat \cup {None}] /\ mirrored \in [Files -> Nat \cup {None}]
      /\ mirror \in MirrorTypes /\ LooseSaves \subseteq Files
      /\ \A f \in Files : mem[f] # None => mem[f].data \in Nat
      /\ MirroredInv /\ FolderInv /\ TypeInv
  BY FilesTypes DEF FilesInv
<1>2. mirror.pc # "idle" /\ UNCHANGED <<mem, page, setup, loadMarred, unread, folderSaves>>
  BY DEF MirrorStep, MirrorFails, MirrorCreate, MirrorWrite, EndMirror, MirrorFile, history
<1>3. setup.pc = "done" /\ setup.left = {} /\ page # "closed"
  BY <1>1, <1>2 DEF TypeInv, ReadInv
<1>4. ASSUME folder' = folder
      PROVE  \A f \in Present(folder) \ unread : folder'[f] # None /\ folder'[f] >= folder[f]
  BY <1>1, <1>4 DEF Present
<1>5. CASE MirrorFails
  <2>1. UNCHANGED <<folder, mirrored>> /\ mirror' = MirrorIdle
    BY <1>5 DEF MirrorFails
  <2>2. /\ mirror'.pc = "scan" /\ mirror'.names = mirror.names /\ mirror'.live = mirror.live
    BY <1>1, <2>1, MirrorParts
  <2> QED BY <1>1, <1>2, <1>4, <2>1, <2>2 DEF MirroredInv, FolderInv, Present
<1>6. CASE MirrorCreate
  <2>1. /\ mirror.pc = "create" /\ mirror' = [mirror EXCEPT !.pc = "write"]
        /\ folder' = [folder EXCEPT ![mirror.file] = IF @ = None THEN EmptyFile ELSE @]
        /\ mirrored' = mirrored
    BY <1>6 DEF MirrorCreate
  <2>2. /\ mirror'.pc = "write" /\ mirror'.names = mirror.names /\ mirror'.live = mirror.live
        /\ mirror'.file = mirror.file /\ mirror'.data = mirror.data
    BY <1>1, <2>1 DEF MirrorTypes
  <2>3. /\ mirror.file \in LooseSaves /\ mirror.file \in Files /\ mem[mirror.file] # None
        /\ mirror.data \in Nat
    BY <1>1, <2>1 DEF MirroredInv, MirrorTypes, Present
  <2>4. \A f \in Files : folder'[f] = IF f = mirror.file /\ folder[f] = None THEN 0
                                      ELSE folder[f]
    BY <1>1, <2>1 DEF EmptyFile
  <2>5. MirroredInv'
    BY <1>1, <1>2, <2>1, <2>2, <2>3, <2>4 DEF MirroredInv, Present
  <2>6. FolderInv'
    BY <1>1, <1>2, <2>1, <2>2, <2>3, <2>4 DEF FolderInv, Present
  <2> QED BY <1>1, <2>4, <2>5, <2>6 DEF Present
<1>7. CASE MirrorWrite
  <2>1. /\ mirror.pc = "write" /\ mirror' = MirrorIdle
        /\ folder' = [folder EXCEPT ![mirror.file] = mirror.data]
        /\ mirrored' = [mirrored EXCEPT ![mirror.file] = mirror.mtime]
    BY <1>7 DEF MirrorWrite
  <2>2. /\ mirror'.pc = "scan" /\ mirror'.names = mirror.names /\ mirror'.live = mirror.live
    BY <1>1, <2>1, MirrorParts
  <2>3. /\ mirror.file \in LooseSaves /\ mirror.file \in Files /\ mem[mirror.file] # None
        /\ mirror.file \in mirror.live /\ mirror.data \in Nat /\ mirror.pc # "idle"
    BY <1>1, <2>1 DEF MirroredInv, MirrorTypes, Present
  <2>4. \A f \in Files : folder'[f] = IF f = mirror.file THEN mirror.data ELSE folder[f]
    BY <1>1, <2>1
  <2>5. \A f \in Files : f # mirror.file => mirrored'[f] = mirrored[f]
    BY <1>1, <2>1
  <2>6. MirroredInv'
    BY <1>1, <1>2, <2>1, <2>2, <2>3, <2>4, <2>5 DEF MirroredInv, Present
  <2>7. FolderInv'
    BY <1>1, <1>2, <2>1, <2>2, <2>3, <2>4 DEF FolderInv, Present
  <2>8. ~loadMarred =>
          \A f \in Present(folder) \ unread : folder'[f] # None /\ folder'[f] >= folder[f]
    <3>1. folderSaves
      BY <1>1, <1>2 DEF MirroredInv
    <3> QED BY <1>1, <2>1, <2>3, <2>4, <3>1, NoneAssumption DEF FolderInv, Present
  <2> QED BY <2>6, <2>7, <2>8
<1>8. CASE EndMirror
  <2>1. /\ mirror.pc = "scan" /\ mirror.names = {}
        /\ folder' = [f \in Files |-> IF f \in Present(mirrored) \ mirror.live THEN None
                                      ELSE folder[f]]
        /\ mirrored' = [f \in Files |-> IF f \in Present(mirrored) \ mirror.live THEN None
                                        ELSE mirrored[f]]
        /\ mirror' \in {NewMirror, NoMirror}
    BY <1>8 DEF EndMirror
  <2>2. Present(mirrored) \ mirror.live = {}
    BY <1>1, <2>1 DEF MirroredInv
  <2>3. folder' = folder /\ mirrored' = mirrored
    BY <1>1, <2>1, <2>2
  <2>4. \/ mirror'.pc = "scan" /\ mirror'.live = {} /\ mirror'.names = LooseSaves \cap Present(mem)
        \/ mirror'.pc = "idle" /\ mirror'.live = {} /\ mirror'.names = {}
    BY <1>1, <2>1, MirrorParts DEF NoMirror
  <2>5. MirroredInv'
    BY <1>1, <1>2, <2>3, <2>4 DEF MirroredInv, Present
  <2>6. FolderInv'
    BY <1>1, <1>2, <2>3, <2>4 DEF FolderInv, Present
  <2> QED BY <1>4, <2>3, <2>5, <2>6
<1>9. ASSUME NEW f \in Files, MirrorFile(f)
      PROVE  MirroredInv' /\ FolderInv' /\ folder' = folder
  <2> DEFINE seen == [mirror EXCEPT !.names = @ \ {f}, !.live = @ \cup {f}]
  <2>1. /\ mirror.pc = "scan" /\ f \in mirror.names /\ mem[f] # None
        /\ \/ mirror' = seen
           \/ mirror' = [seen EXCEPT !.pc = "create", !.file = f,
                                  !.data = mem[f].data, !.mtime = mem[f].mtime]
        /\ UNCHANGED <<folder, mirrored>>
    BY <1>9 DEF MirrorFile
  <2>2. seen \in MirrorTypes /\ f \in LooseSaves
        /\ seen.pc = "scan" /\ seen.names = mirror.names \ {f} /\ seen.live = mirror.live \cup {f}
    BY <1>1, <2>1 DEF MirrorTypes
  <2> HIDE DEF seen
  <2>3. /\ mirror'.names = mirror.names \ {f} /\ mirror'.live = mirror.live \cup {f}
        /\ \/ mirror'.pc = "scan"
           \/ mirror'.pc = "create" /\ mirror'.file = f /\ mirror'.data = mem[f].data
    BY <2>1, <2>2 DEF MirrorTypes
  <2>4. mem[f].data \in Nat
    BY <1>1, <2>1
  <2>5. MirroredInv'
    BY <1>1, <1>2, <2>1, <2>2, <2>3, <2>4, NoneAssumption DEF MirroredInv, Present
  <2>6. FolderInv'
    BY <1>1, <1>2, <1>3, <2>1, <2>3, <2>4 DEF FolderInv, Present
  <2> QED BY <2>1, <2>5, <2>6
<1> QED BY <1>4, <1>5, <1>6, <1>7, <1>8, <1>9 DEF MirrorStep

LEMMA PageStepFolder ==
    ASSUME FilesInv, OmwSync \/ Close \/ \E f \in Files : PutInFolder(f)
    PROVE  MirroredInv' /\ FolderInv'
<1>1. /\ folder \in [Files -> Nat \cup {None}] /\ mirror \in MirrorTypes
      /\ LooseSaves \subseteq Files /\ MirroredInv /\ FolderInv /\ TypeInv
  BY FilesTypes DEF FilesInv
<1>2. CASE OmwSync
  <2>1. /\ UNCHANGED <<mem, folder, page, setup, loadMarred, unread, folderSaves, mirrored>>
        /\ mirror' = mirror \/ (folderSaves /\ mirror' = NewMirror)
    BY <1>2 DEF OmwSync, StartMirror
  <2>2. CASE mirror' = mirror
    BY <1>1, <2>1, <2>2 DEF MirroredInv, FolderInv, Present
  <2>3. CASE folderSaves /\ mirror' = NewMirror
    <3>1. /\ mirror'.pc = "scan" /\ mirror'.live = {}
          /\ mirror'.names = LooseSaves \cap Present(mem)
      BY <1>1, <2>3, MirrorParts
    <3> QED BY <1>1, <2>1, <2>3, <3>1 DEF MirroredInv, FolderInv, Present
  <2> QED BY <2>1, <2>2, <2>3
<1>3. CASE Close
  <2>1. /\ folder' = folder /\ mirrored' = NoFiles /\ mirror' = NoMirror /\ ~folderSaves'
        /\ setup'.pc = "done"
    BY <1>3 DEF Close, NoSetup
  <2>2. mirror'.pc = "idle" /\ mirror'.names = {} /\ mirror'.live = {}
    BY <2>1 DEF NoMirror
  <2> QED BY <1>1, <2>1, <2>2 DEF MirroredInv, FolderInv, Present, NoFiles
<1>4. ASSUME NEW f \in Files, PutInFolder(f) PROVE MirroredInv' /\ FolderInv'
  <2>1. /\ f \in LooseSaves /\ folder' = [folder EXCEPT ![f] = now + 1] /\ page = "closed"
        /\ UNCHANGED <<mem, page, setup, mirrored, mirror, folderSaves>>
    BY <1>4 DEF PutInFolder, mirrorVars
  <2>2. ~folderSaves /\ mirror.pc = "idle" /\ setup.pc = "done"
    BY <1>1, <2>1 DEF TypeInv, ReadInv
  <2>3. Present(folder') \subseteq Present(folder) \cup {f}
    BY <1>1, <2>1 DEF Present
  <2> QED BY <1>1, <2>1, <2>2, <2>3 DEF MirroredInv, FolderInv, Present
<1> QED BY <1>2, <1>3, <1>4

LEMMA FilesNext == FilesInv /\ [Next]_vars => FilesInv'
<1> SUFFICES ASSUME FilesInv, [Next]_vars PROVE MirroredInv' /\ FolderInv'
  BY TypesNext, OrderNext, AgreeNext, BoundNext DEF FilesInv
<1>1. /\ mem \in Contents /\ idb \in Contents /\ LooseSaves \subseteq Files /\ now \in Nat
      /\ \A f \in Files : mem[f] # None => mem[f].data \in Nat
      /\ TypeInv /\ syncs \in Seq(Syncs)
  BY FilesTypes DEF FilesInv, SyncTypes
<1>2. mem' \in Contents
  BY <1>1, TypesNext DEF TypeInv, TypeOK, Contents
<1>3. CASE SetupStep \/ MirrorStep \/ MirrorFails \/ OmwSync \/ Close
           \/ \E f \in Files : ReadFails(f) \/ PutInFolder(f)
  BY <1>2, <1>3, SetupStepFolder, MirrorStepFolder, PageStepFolder
<1>4. ASSUME UNCHANGED <<folder, mirror, mirrored, folderSaves, unread, setup>>,
             page = "ready" => page' = "ready", loadMarred => loadMarred',
             \A f \in LooseSaves : mem'[f] = mem[f]
      PROVE  MirroredInv' /\ FolderInv'
  <2>1. \A f \in LooseSaves : mem[f] # None => mem[f].data <= mem'[f].data
    BY <1>1, <1>4
  <2> QED BY <1>2, <1>4, <2>1, MemoryStep
<1>5. CASE UNCHANGED vars
  BY <1>4, <1>5 DEF vars, mirrorVars, history
<1>6. ASSUME NEW i \in DOMAIN syncs, ReconcileFlush(i) \/ CommitFlush(i)
      PROVE  MirroredInv' /\ FolderInv'
  <2>1. UNCHANGED <<mem, folder, mirrorVars, unread, setup, page, loadMarred>>
    BY <1>6 DEF ReconcileFlush, CommitFlush, history
  <2> QED BY <1>4, <2>1 DEF mirrorVars
<1>7. ASSUME NEW i \in DOMAIN syncs, FlushFails(i) PROVE MirroredInv' /\ FolderInv'
  BY <1>4, <1>7 DEF FlushFails, mirrorVars
<1>8. ASSUME NEW i \in DOMAIN syncs,
             \/ ReconcileLoad(i) \/ EndLoad(i) \/ LoadFails(i)
             \/ \E f \in Files : EntryIsGone(i, f)
      PROVE  MirroredInv' /\ FolderInv'
  <2>1. /\ UNCHANGED <<mem, folder, mirrorVars, unread, setup>> /\ (loadMarred => loadMarred')
    BY <1>8 DEF ReconcileLoad, EndLoad, LoadFails, EntryIsGone
  <2>2. page = "ready" => page' = "ready"
    BY <1>8 DEF ReconcileLoad, EndLoad, LoadFails, EntryIsGone, EntryFails, Loaded
  <2> QED BY <1>4, <2>1, <2>2 DEF mirrorVars
<1>9. ASSUME NEW i \in DOMAIN syncs, NEW f \in Files, LoadEntry(i, f)
      PROVE  MirroredInv' /\ FolderInv'
  <2>1. /\ mem' = [mem EXCEPT ![f] = idb[f]] /\ idb[f] # None
        /\ UNCHANGED <<folder, mirror, mirrored, folderSaves, unread, setup, page, loadMarred>>
        /\ syncs[i].populate
    BY <1>9 DEF LoadEntry, mirrorVars, history, Populates
  <2>2. page = "ready" => loadMarred
    BY <2>1 DEF FilesInv, OrderInv, Loads
  <2>3. \A g \in LooseSaves : mem[g] # None => mem'[g] # None
    BY <1>1, <2>1 DEF Contents
  <2> QED BY <1>2, <2>1, <2>2, <2>3, MemoryStep
<1>10. ASSUME NEW f \in GameSaves, SaveGame(f) \/ DeleteGame(f)
       PROVE  MirroredInv' /\ FolderInv'
  <2>1. f \notin LooseSaves /\ f \in Files
    BY FilesAssumption DEF Files
  <2>2. \A g \in Files : g # f => mem'[g] = mem[g]
    <3>1. ASSUME SaveGame(f), NEW g \in Files, g # f PROVE mem'[g] = mem[g]
      <4>1. mem' = Write(mem, {f}, [h \in {f} |-> now + 1])
        BY <3>1 DEF SaveGame
      <4> QED BY <3>1, <4>1 DEF Write
    <3>2. ASSUME DeleteGame(f), NEW g \in Files, g # f PROVE mem'[g] = mem[g]
      BY <1>1, <3>2 DEF DeleteGame, Contents
    <3> QED BY <1>10, <3>1, <3>2
  <2>3. UNCHANGED <<folder, mirror, mirrored, folderSaves, unread, setup, page, loadMarred>>
    BY <1>10 DEF SaveGame, DeleteGame, mirrorVars
  <2> QED BY <1>1, <1>4, <2>1, <2>2, <2>3
<1>11. ASSUME NEW files \in SUBSET Files, Restore(files)
       PROVE  MirroredInv' /\ FolderInv'
  <2>1. /\ mem' = Write(mem, files, [f \in files |-> now + 1])
        /\ UNCHANGED <<folder, mirror, mirrored, folderSaves, unread, setup, page>>
        /\ (loadMarred => loadMarred')
    BY <1>11 DEF Restore, mirrorVars
  <2>2. \A g \in files : [f \in files |-> now + 1][g] \in Nat
    BY <1>1
  <2>3. \A f \in Files : IF f \in files THEN mem'[f] # None /\ mem'[f].data = now + 1
                         ELSE mem'[f] = mem[f]
    BY <1>1, <2>1, <2>2, WriteTypes
  <2>4. \A f \in Files : mem[f] # None => mem[f].data <= now
    BY DEF FilesInv, AgreeInv, Versions
  <2>5. \A f \in LooseSaves : mem[f] # None => mem'[f] # None /\ mem[f].data <= mem'[f].data
    BY <1>1, <2>3, <2>4
  <2> QED BY <1>2, <2>1, <2>5, MemoryStep
<1>12. ASSUME NEW srcLocal \in BOOLEAN, OpenPage(srcLocal) PROVE MirroredInv' /\ FolderInv'
  <2>1. /\ UNCHANGED <<mem, folder, mirror, mirrored, folderSaves, unread, loadMarred>>
        /\ page = "closed" /\ setup'.pc # "read"
    BY <1>12 DEF OpenPage, mirrorVars, history, NoSetup
  <2>2. setup.left = {} /\ ~folderSaves
    BY <1>1, <2>1 DEF TypeInv, ReadInv
  <2>3. \A f \in LooseSaves : mem[f] # None => mem[f].data <= mem'[f].data
    BY <1>1, <2>1
  <2> QED BY <1>2, <2>1, <2>2, <2>3, MemoryStep
<1> QED BY <1>3, <1>5, <1>6, <1>7, <1>8, <1>9, <1>10, <1>11, <1>12
        DEF Next, FlushStep, LoadStep, Failure, Game, SaveGame, DeleteGame

LEMMA FilesInit == Init => FilesInv
<1> SUFFICES ASSUME Init PROVE FilesInv
  OBVIOUS
<1>1. /\ folder = NoFiles /\ mirrored = NoFiles /\ mirror = NoMirror /\ ~folderSaves
      /\ setup.pc = "done"
  BY DEF Init, NoSetup
<1>2. mirror.pc = "idle" /\ mirror.names = {} /\ mirror.live = {}
  BY <1>1 DEF NoMirror
<1>3. MirroredInv /\ FolderInv
  BY <1>1, <1>2 DEF MirroredInv, FolderInv, Present, NoFiles
<1> QED BY <1>3, UnstoredInit DEF FilesInv, UnstoredInv

FolderKept ==
    \A f \in Present(folder) :
        folder'[f] # folder[f] =>
            \/ folder'[f] # None /\ folder'[f] > folder[f]
            \/ f \in unread \/ loadMarred

LEMMA StepKeepsFolder == FilesInv /\ [Next]_vars => FolderKept
<1> SUFFICES ASSUME FilesInv, [Next]_vars, folder' # folder, NEW f \in Present(folder),
                    folder'[f] # folder[f], f \notin unread, ~loadMarred
             PROVE  folder'[f] # None /\ folder'[f] > folder[f]
  BY DEF FolderKept
<1>1. folder \in [Files -> Nat \cup {None}] /\ f \in Files /\ folder[f] \in Nat /\ now \in Nat
      /\ folder' \in [Files -> Nat \cup {None}] /\ TypeInv /\ BoundInv
  BY FilesTypes, TypesNext DEF FilesInv, Present, TypeInv, TypeOK
<1>2. CASE MirrorStep
  <2>1. folder'[f] # None /\ folder'[f] >= folder[f]
    BY <1>2, MirrorStepFolder
  <2> QED BY <1>1, <2>1
<1>3. ASSUME NEW g \in Files, PutInFolder(g)
      PROVE  folder'[f] # None /\ folder'[f] > folder[f]
  <2>1. folder' = [folder EXCEPT ![g] = now + 1]
    BY <1>3 DEF PutInFolder
  <2>2. folder'[f] = now + 1 /\ folder[f] <= now
    BY <1>1, <2>1 DEF BoundInv
  <2> QED BY <1>1, <2>2, NoneAssumption
<1> QED BY <1>2, <1>3, FolderChanges DEF MirrorChanges, MirrorStep, MirrorFails, OmwSync, Close

(* A file of the folder is only replaced by a newer one, unless it could    *)
(* not be read or the load met an error.                                    *)
THEOREM FolderIsSafe == Spec => FolderIsAuthoritative
<1>1. FilesInv /\ [Next]_vars => [FolderKept]_vars
  BY StepKeepsFolder
<1>2. [FolderKept]_vars =>
        [\A f \in Present(folder) :
          folder'[f] # folder[f] =>
              \/ folder'[f] # None /\ folder'[f] > folder[f]
              \/ f \in unread \/ loadMarred]_vars
  BY DEF FolderKept
<1> QED BY <1>1, <1>2, FilesInit, FilesNext, PTL DEF Spec, FolderIsAuthoritative

-----------------------------------------------------------------------------
(* Streaming: arithmetic of chunks                                         *)

LEMMA MinOfTwo ==
    ASSUME NEW a \in Int, NEW b \in Int
    PROVE  Min({a, b}) = IF a <= b THEN a ELSE b
<1> DEFINE m == IF a <= b THEN a ELSE b
<1>1. m \in {a, b} /\ \A y \in {a, b} : m <= y
  OBVIOUS
<1>2. ASSUME NEW x \in {a, b}, \A y \in {a, b} : x <= y
      PROVE  x = m
  BY <1>2
<1> QED BY <1>1, <1>2 DEF Min

(* A position lies in the chunk that begins at the multiple below it.      *)
LEMMA ChunkOfPosition ==
    ASSUME NEW pos \in Nat
    PROVE  /\ (pos \div CHUNK) * CHUNK \in Nat
           /\ (pos \div CHUNK) * CHUNK <= pos
           /\ pos < (pos \div CHUNK) * CHUNK + CHUNK
<1> CHUNK \in Nat \ {0}
  BY StreamAssumption
<1> DEFINE q == pos \div CHUNK
           r == pos % CHUNK
<1>1. q \in Nat /\ r \in 0..CHUNK - 1 /\ pos = CHUNK * q + r
  BY SMT
<1> HIDE DEF q, r
<1>2. q * CHUNK = CHUNK * q /\ q * CHUNK \in Nat
  BY <1>1, SMT
<1> QED BY <1>1, <1>2 DEF q

-----------------------------------------------------------------------------
(* The state                                                               *)

Bytes == {NoByte} \cup {Byte(s, i) : s \in Sources, i \in Nat}
Keys == {key \in [source : Sources, start : Nat] : key.start < SizeOf[key.source]}
Entries == [key : Keys, bytes : Seq(Bytes), late : BOOLEAN]
Tails == [gen : Nat, key : Keys, written : 0..CHUNK,
          pc : {"data", "length", "fail", "signal"}]
Reads == [pc : {"idle", "loop", "poll", "length", "copy", "take", "returned"},
          source : Sources \cup {NoRead.source}, position : Nat, length : Nat,
          buffer : Seq(Bytes), chunk : Seq(Bytes), n : 0..CHUNK, late : BOOLEAN]

Types ==
    /\ cache \in Seq(Entries)
    /\ generation \in Nat
    /\ requests \subseteq [gen : Nat, key : Keys]
    /\ ctrl \in [gen : Nat, length : -1..CHUNK]
    /\ data \in [1..CHUNK -> Bytes]
    /\ tail # NoTail => tail \in Tails
    /\ main \in Reads
    /\ late \in BOOLEAN

(* A chunk has at least one byte, and these bytes.                         *)
LEMMA ContentOfChunk ==
    ASSUME NEW key \in Keys
    PROVE  /\ EndOf(key) = IF key.start + CHUNK <= SizeOf[key.source]
                           THEN key.start + CHUNK ELSE SizeOf[key.source]
           /\ Content(key) \in Seq(Bytes)
           /\ Len(Content(key)) = EndOf(key) - key.start
           /\ Len(Content(key)) \in 1..CHUNK
           /\ \A i \in 1..Len(Content(key)) :
                Content(key)[i] = Byte(key.source, key.start + i - 1)
<1>1. /\ key.source \in Sources /\ key.start \in Nat
      /\ SizeOf[key.source] \in Nat /\ CHUNK \in Nat \ {0}
      /\ key.start < SizeOf[key.source]
  BY StreamAssumption DEF Keys
<1>2. EndOf(key) = IF key.start + CHUNK <= SizeOf[key.source]
                   THEN key.start + CHUNK ELSE SizeOf[key.source]
  BY <1>1, MinOfTwo DEF EndOf
<1> DEFINE n == EndOf(key) - key.start
<1>3. n \in 1..CHUNK
  BY <1>1, <1>2
<1> HIDE DEF n
<1>4. \A i \in 1..n : Byte(key.source, key.start + i - 1) \in Bytes
  BY <1>1, <1>3 DEF Bytes
<1>5. Content(key) = [i \in 1..n |-> Byte(key.source, key.start + i - 1)]
  BY DEF Content, n
<1>6. Content(key) \in Seq(Bytes) /\ Len(Content(key)) = n
  BY <1>3, <1>4, <1>5
<1> QED BY <1>2, <1>3, <1>5, <1>6 DEF n

(* A thread of its own answers a request at most once.                     *)
Generations ==
    /\ \A r \in requests : r.gen <= generation
    /\ \A r1, r2 \in requests : r1.gen = r2.gen => r1 = r2
    /\ tail # NoTail => tail.gen <= generation /\ \A r \in requests : r.gen # tail.gen
    /\ ctrl.gen <= generation
    /\ \A r \in requests : r.gen # ctrl.gen
    /\ tail # NoTail => tail.gen # ctrl.gen

(* What the worker does for the request that read() waits for.             *)
TailInv ==
    tail # NoTail =>
        /\ tail.pc = "data" => tail.written < Len(Content(tail.key))
        /\ tail.pc = "length" => tail.written = Len(Content(tail.key))

AskedInv ==
    IsWaiting =>
        /\ \A r \in requests : r.gen = generation => r.key = WantedKey
        /\ tail # NoTail /\ tail.gen = generation => tail.key = WantedKey

DataHolds(n) == \A i \in 1..n : data[i] = Content(WantedKey)[i]

AnswerWritten ==
    \/ ctrl.length = -1
    \/ ctrl.length = Len(Content(WantedKey)) /\ DataHolds(ctrl.length)

(* As long as no other answer is written during the request.               *)
AnswerInv ==
    IsWaiting /\ ~late =>
        /\ tail # NoTail /\ tail.gen = generation =>
             /\ DataHolds(tail.written)
             /\ tail.pc = "signal" => AnswerWritten
        /\ ctrl.gen = generation => AnswerWritten
        /\ main.pc \in {"length", "copy"} => ctrl.gen = generation
        /\ main.pc = "copy" => main.n = ctrl.length

(* The copy of the answer, and what was read so far.                       *)
CopyInv ==
    main.pc = "copy" =>
        /\ Len(main.chunk) <= main.n
        /\ ~late => \A i \in 1..Len(main.chunk) : main.chunk[i] = Content(WantedKey)[i]

BufferInv ==
    main.pc # "idle" =>
        /\ main.source \in Sources
        /\ main.position <= SizeOf[main.source]
        /\ Len(main.buffer) <= main.length
        /\ ~main.late =>
             /\ Pos <= SizeOf[main.source]
             /\ \A i \in 1..Len(main.buffer) :
                  main.buffer[i] = Byte(main.source, main.position + i - 1)
        /\ IsWaiting \/ main.pc = "take" => ~IsThrough
        /\ main.pc = "take" /\ ~main.late => main.chunk = Content(WantedKey)
        /\ main.pc = "returned" /\ ~main.late => IsThrough

CacheInv == \A i \in DOMAIN cache : cache[i].late \/ cache[i].bytes = Content(cache[i].key)

StreamInv ==
    /\ Types /\ Generations /\ TailInv /\ AskedInv
    /\ AnswerInv /\ CopyInv /\ BufferInv /\ CacheInv

-----------------------------------------------------------------------------
(* Where the next byte comes from                                          *)

LEMMA WantedChunk ==
    ASSUME Types, BufferInv, main.pc # "idle"
    PROVE  /\ Pos \in Nat /\ Within \in 0..CHUNK - 1 /\ Pos = WantedKey.start + Within
           /\ WantedKey.source = main.source
           /\ ~IsThrough => WantedKey \in Keys
<1>1. main.source \in Sources /\ main.position \in Nat /\ Len(main.buffer) \in Nat
      /\ main.length \in Nat /\ SizeOf[main.source] \in Nat /\ CHUNK \in Nat \ {0}
  BY StreamAssumption DEF Types, BufferInv, Reads
<1>2. Pos \in Nat
  BY <1>1 DEF Pos
<1> DEFINE start == (Pos \div CHUNK) * CHUNK
<1>3. start \in Nat /\ start <= Pos /\ Pos < start + CHUNK
  BY <1>2, ChunkOfPosition
<1>4. WantedKey = [source |-> main.source, start |-> start]
  BY DEF WantedKey, Key
<1> HIDE DEF start
<1>5. Within = Pos - start /\ WantedKey.start = start /\ WantedKey.source = main.source
  BY <1>4 DEF Within
<1>6. ~IsThrough => Pos < SizeOf[main.source]
  BY <1>1, <1>2 DEF IsThrough
<1> QED BY <1>1, <1>2, <1>3, <1>4, <1>5, <1>6 DEF Keys

LEMMA SameRead ==
    ASSUME main'.source = main.source, main'.position = main.position,
           main'.buffer = main.buffer, main'.length = main.length
    PROVE  WantedKey' = WantedKey /\ Pos' = Pos /\ IsThrough' = IsThrough
  BY DEF WantedKey, Key, Pos, IsThrough

LEMMA NoReadIsIdle ==
    NoRead \in Reads /\ NoRead.pc = "idle" /\ NoRead.buffer = <<>> /\ NoRead.late = FALSE
<1> DEFINE s == NoRead.source
<1>1. NoRead = [pc |-> "idle", source |-> s, position |-> 0, length |-> 0,
                buffer |-> <<>>, chunk |-> <<>>, n |-> 0, late |-> FALSE]
  BY DEF NoRead
<1> HIDE DEF s
<1>2. <<>> \in Seq(Bytes) /\ 0 \in 0..CHUNK /\ s \in Sources \cup {NoRead.source}
  BY StreamAssumption DEF s
<1> QED BY <1>1, <1>2 DEF Reads

LEMMA CachedEntry ==
    ASSUME Types, IsCached(WantedKey)
    PROVE  /\ EntryOf(WantedKey) \in Entries /\ EntryOf(WantedKey).key = WantedKey
           /\ \E i \in DOMAIN cache : EntryOf(WantedKey) = cache[i]
<1>1. \E e \in ToSet(cache) : e.key = WantedKey
  BY DEF IsCached, ToSet
<1>2. EntryOf(WantedKey) \in ToSet(cache) /\ EntryOf(WantedKey).key = WantedKey
  BY <1>1 DEF EntryOf
<1> QED BY <1>2, ElementOfSeq DEF ToSet, Types

(* What RemoveAt leaves, without Old.                                      *)
LEMMA ElementLeft ==
    ASSUME NEW S, NEW s \in Seq(S), NEW k \in 1..Len(s)
    PROVE  /\ RemoveAt(s, k) \in Seq(S) /\ Len(RemoveAt(s, k)) = Len(s) - 1
           /\ \A i \in 1..Len(s) - 1 :
                RemoveAt(s, k)[i] = IF i < k THEN s[i] ELSE s[i + 1]
<1>1. ASSUME NEW i \in 1..Len(s) - 1
      PROVE  RemoveAt(s, k)[i] = IF i < k THEN s[i] ELSE s[i + 1]
  <2>1. RemoveAt(s, k)[i] = s[Old(k, i)]
    BY ElementRemoved
  <2> QED BY <2>1 DEF Old
<1> QED BY <1>1, ElementRemoved

LEMMA RestOfCache ==
    ASSUME Types, IsCached(WantedKey)
    PROVE  /\ Without(WantedKey) \in Seq(Entries)
           /\ \A i \in DOMAIN Without(WantedKey) :
                \E j \in DOMAIN cache : Without(WantedKey)[i] = cache[j]
<1> DEFINE k == CHOOSE i \in DOMAIN cache : cache[i].key = WantedKey
<1>1. /\ k \in 1..Len(cache) /\ cache \in Seq(Entries) /\ Len(cache) \in Nat
      /\ DOMAIN cache = 1..Len(cache)
  BY DEF IsCached, Types
<1>2. Without(WantedKey) = RemoveAt(cache, k)
  BY DEF Without
<1> HIDE DEF k
<1>3. /\ RemoveAt(cache, k) \in Seq(Entries) /\ DOMAIN RemoveAt(cache, k) = 1..Len(cache) - 1
      /\ \A i \in 1..Len(cache) - 1 :
           RemoveAt(cache, k)[i] = cache[i] \/ RemoveAt(cache, k)[i] = cache[i + 1]
  BY <1>1, ElementLeft, LenProperties
<1>4. \A i \in 1..Len(cache) - 1 : i \in 1..Len(cache) /\ i + 1 \in 1..Len(cache)
  BY <1>1
<1> QED BY <1>1, <1>2, <1>3, <1>4

-----------------------------------------------------------------------------
(* Each action keeps the types                                             *)

LEMMA StreamTypesInit == StreamInit => Types
<1> SUFFICES ASSUME StreamInit PROVE Types
  OBVIOUS
<1>1. cache \in Seq(Entries) /\ requests = {} /\ generation = 0 /\ late = FALSE
  BY DEF StreamInit
<1>2. ctrl \in [gen : Nat, length : -1..CHUNK] /\ data \in [1..CHUNK -> Bytes]
  BY StreamAssumption DEF StreamInit, Bytes
<1> QED BY <1>1, <1>2, NoReadIsIdle DEF Types, StreamInit

LEMMA MainTypes ==
    ASSUME Types, BufferInv,
           BeginRead \/ EndRead \/ Return \/ Request \/ SeeAnswer \/ Timeout \/ ReadLength
    PROVE  Types'
<1>1. CASE BeginRead
  <2>1. PICK s \in Sources, length \in 1..MaxLength : \E position \in 0..SizeOf[s] :
          main' = [NoRead EXCEPT !.pc = "loop", !.source = s, !.position = position,
                                 !.length = length]
    BY <1>1 DEF BeginRead
  <2>2. PICK position \in 0..SizeOf[s] :
          main' = [NoRead EXCEPT !.pc = "loop", !.source = s, !.position = position,
                                 !.length = length]
    BY <2>1
  <2>3. position \in Nat /\ length \in Nat
    BY StreamAssumption
  <2>4. main' \in Reads
    BY <2>2, <2>3, NoReadIsIdle DEF Reads
  <2> QED BY <1>1, <2>4 DEF BeginRead, Types
<1>2. CASE EndRead \/ SeeAnswer
  <2>1. main' = [main EXCEPT !.pc = "returned"] \/ main' = [main EXCEPT !.pc = "length"]
    BY <1>2 DEF EndRead, SeeAnswer, Goto
  <2>2. main' \in Reads
    BY <2>1 DEF Types, Reads
  <2> QED BY <1>2, <2>2 DEF EndRead, SeeAnswer, Types
<1>3. CASE Return \/ Timeout
  <2>1. main' \in Reads /\ late' \in BOOLEAN
    BY <1>3, NoReadIsIdle DEF Return, Timeout, Throw, Types
  <2> QED BY <1>3, <2>1 DEF Return, Timeout, Types
<1>4. CASE Request
  <2>1. WantedKey \in Keys /\ generation + 1 \in Nat
    BY <1>4, WantedChunk DEF Request, Types
  <2>2. requests' \subseteq [gen : Nat, key : Keys]
    BY <1>4, <2>1 DEF Request, Types
  <2>3. main' \in Reads
    BY <1>4 DEF Request, Goto, Types, Reads
  <2> QED BY <1>4, <2>1, <2>2, <2>3 DEF Request, Types
<1>5. CASE ReadLength
  <2>1. CASE ctrl.length < 0
    <3>1. main' \in Reads /\ late' \in BOOLEAN
      BY <1>5, <2>1, NoReadIsIdle DEF ReadLength, Throw
    <3> QED BY <1>5, <3>1 DEF ReadLength, Types
  <2>2. CASE ~(ctrl.length < 0)
    <3>1. ctrl.length \in 0..CHUNK /\ <<>> \in Seq(Bytes)
      BY <2>2, StreamAssumption DEF Types
    <3>2. main' = [main EXCEPT !.pc = "copy", !.n = ctrl.length, !.chunk = <<>>]
          /\ late' = late
      BY <1>5, <2>2 DEF ReadLength
    <3>3. main' \in Reads
      BY <3>1, <3>2 DEF Types, Reads
    <3> QED BY <1>5, <3>2, <3>3 DEF ReadLength, Types
  <2> QED BY <2>1, <2>2
<1> QED BY <1>1, <1>2, <1>3, <1>4, <1>5

(* GetChunk of an entry                                                    *)
LEMMA GetChunkTypes ==
    ASSUME Types, NEW e \in Entries, GetChunk(e)
    PROVE  main' \in Reads
<1>1. e.bytes \in Seq(Bytes) /\ (main.late \/ e.late) \in BOOLEAN
  BY DEF Entries, Types, Reads
<1>2. main' = [main EXCEPT !.pc = "take", !.chunk = e.bytes, !.late = main.late \/ e.late]
  BY DEF GetChunk, Types, Reads
<1> QED BY <1>1, <1>2 DEF Types, Reads

LEMMA HitTypes ==
    ASSUME Types, BufferInv, Hit
    PROVE  Types'
<1>1. EntryOf(WantedKey) \in Entries /\ Without(WantedKey) \in Seq(Entries)
  BY CachedEntry, RestOfCache DEF Hit
<1>2. cache' \in Seq(Entries)
  BY <1>1, AppendProperties DEF Hit
<1>3. main' \in Reads
  BY <1>1, GetChunkTypes DEF Hit
<1> QED BY <1>2, <1>3 DEF Hit, Types

LEMMA CopyByteTypes ==
    ASSUME Types, CopyByte
    PROVE  Types'
<1>1. main.chunk \in Seq(Bytes) /\ main.n \in 0..CHUNK /\ Len(main.chunk) \in Nat
      /\ CHUNK \in Nat
  BY StreamAssumption DEF Types, Reads
<1>2. data[Len(main.chunk) + 1] \in Bytes
  BY <1>1 DEF CopyByte, Types
<1>3. Append(main.chunk, data[Len(main.chunk) + 1]) \in Seq(Bytes)
  BY <1>1, <1>2, AppendProperties
<1>4. main' = [main EXCEPT !.chunk = Append(main.chunk, data[Len(main.chunk) + 1])]
  BY DEF CopyByte, Types, Reads
<1>5. main' \in Reads
  BY <1>3, <1>4 DEF Types, Reads
<1> QED BY <1>5 DEF CopyByte, Types

PutEntry == [key |-> WantedKey, bytes |-> main.chunk, late |-> late]

LEMMA PutChunkEntry ==
    ASSUME Types, BufferInv, PutChunk
    PROVE  /\ PutEntry \in Entries /\ GetChunk(PutEntry)
           /\ cache' \in Seq(Entries)
           /\ \A i \in DOMAIN cache' :
                cache'[i] = PutEntry \/ \E j \in DOMAIN cache : cache'[i] = cache[j]
<1>1. PutEntry \in Entries
  BY WantedChunk DEF PutChunk, BufferInv, IsWaiting, PutEntry, Entries, Types, Reads
<1> DEFINE put == Append(cache, PutEntry)
<1>2. /\ put \in Seq(Entries) /\ Len(put) = Len(cache) + 1
      /\ \A i \in 1..Len(cache) : put[i] = cache[i]
      /\ put[Len(cache) + 1] = PutEntry
      /\ Len(cache) \in Nat /\ DOMAIN cache = 1..Len(cache)
  BY <1>1, AppendProperties DEF Types
<1> DEFINE rest == Tail(put)
<1>3. cache' = IF Len(put) > LRU_MAX THEN rest ELSE put
  BY DEF PutChunk, PutEntry
<1> HIDE DEF put, rest
<1>4. /\ rest \in Seq(Entries) /\ Len(rest) = Len(cache)
      /\ \A i \in 1..Len(cache) : rest[i] = put[i + 1]
  <2>1. put # <<>> /\ Len(put) - 1 = Len(cache)
    BY <1>2
  <2>2. /\ rest \in Seq(Entries) /\ Len(rest) = Len(put) - 1
        /\ \A i \in 1..Len(rest) : rest[i] = put[i + 1]
    BY <1>2, <2>1, HeadTailProperties DEF rest
  <2> QED BY <2>1, <2>2
<1>5. \A i \in 1..Len(cache) + 1 :
        put[i] = PutEntry \/ \E j \in DOMAIN cache : put[i] = cache[j]
  <2> TAKE i \in 1..Len(cache) + 1
  <2>1. CASE i = Len(cache) + 1
    BY <1>2, <2>1
  <2>2. CASE i # Len(cache) + 1
    <3>1. i \in DOMAIN cache
      BY <1>2, <2>2
    <3> QED BY <1>2, <3>1
  <2> QED BY <2>1, <2>2
<1>6. GetChunk(PutEntry)
  BY DEF PutChunk, PutEntry, GetChunk
<1>7. CASE cache' = put
  <2>1. DOMAIN cache' = 1..Len(cache) + 1
    BY <1>2, <1>7, LenProperties
  <2> QED BY <1>1, <1>2, <1>5, <1>6, <1>7, <2>1
<1>8. CASE cache' = rest
  <2>1. \A i \in 1..Len(cache) : i + 1 \in 1..Len(cache) + 1
    BY <1>2
  <2>2. DOMAIN cache' = 1..Len(cache)
    BY <1>4, <1>8, LenProperties
  <2> QED BY <1>1, <1>4, <1>5, <1>6, <1>8, <2>1, <2>2
<1> QED BY <1>3, <1>7, <1>8

LEMMA PutChunkTypes ==
    ASSUME Types, BufferInv, PutChunk
    PROVE  Types'
<1>1. cache' \in Seq(Entries) /\ main' \in Reads
  BY PutChunkEntry, GetChunkTypes
<1> QED BY <1>1 DEF PutChunk, Types

LEMMA TakeBytesTypes ==
    ASSUME Types, BufferInv, TakeBytes
    PROVE  /\ Types'
           /\ Len(main.chunk) > Within =>
                \E n \in Nat \ {0} :
                  /\ n = IF main.length - Len(main.buffer) <= Len(main.chunk) - Within
                         THEN main.length - Len(main.buffer) ELSE Len(main.chunk) - Within
                  /\ main'.pc = "loop" /\ main'.late = main.late
                  /\ Len(main'.buffer) = Len(main.buffer) + n
                  /\ \A i \in 1..Len(main.buffer) : main'.buffer[i] = main.buffer[i]
                  /\ \A i \in 1..n :
                       main'.buffer[Len(main.buffer) + i] = main.chunk[Within + i]
                  /\ main'.source = main.source /\ main'.position = main.position
                  /\ main'.length = main.length
<1>1. /\ Within \in Nat /\ ~IsThrough
      /\ main.chunk \in Seq(Bytes) /\ main.buffer \in Seq(Bytes) /\ main.length \in Nat
      /\ Len(main.chunk) \in Nat /\ Len(main.buffer) \in Nat
  <2>1. main.pc # "idle" /\ ~IsThrough
    BY DEF TakeBytes, BufferInv
  <2>2. Within \in 0..CHUNK - 1
    BY <2>1, WantedChunk
  <2>3. /\ main.chunk \in Seq(Bytes) /\ main.buffer \in Seq(Bytes) /\ main.length \in Nat
        /\ CHUNK \in Nat
    BY StreamAssumption DEF Types, Reads
  <2> QED BY <2>1, <2>2, <2>3, LenProperties
<1>2. main.length - Len(main.buffer) \in Nat \ {0}
  BY <1>1 DEF IsThrough
<1>3. CASE Len(main.chunk) <= Within
  <2>1. main' \in Reads
    BY <1>3 DEF TakeBytes, Goto, Types, Reads
  <2> QED BY <1>1, <1>3, <2>1 DEF TakeBytes, Types
<1>4. CASE ~(Len(main.chunk) <= Within)
  <2> DEFINE asked == main.length - Len(main.buffer)
             rest == Len(main.chunk) - Within
             n == IF asked <= rest THEN asked ELSE rest
             part == SubSeq(main.chunk, Within + 1, Within + n)
             buffer == main.buffer \o part
  <2>1. /\ n \in Nat \ {0} /\ Within + 1 <= Within + n + 1 /\ Within + n <= Len(main.chunk)
        /\ Within + n - (Within + 1) + 1 = n
    <3>1. asked \in Nat \ {0} /\ rest \in Nat \ {0} /\ Len(main.chunk) = Within + rest
          /\ Within \in Nat
      BY <1>1, <1>2, <1>4
    <3> HIDE DEF asked, rest
    <3>2. n \in Nat \ {0} /\ n <= rest
      BY <3>1
    <3> HIDE DEF n
    <3> QED BY <3>1, <3>2
  <2>2. n = Min({main.length - Len(main.buffer), Len(main.chunk) - Within})
    BY <1>1, MinOfTwo
  <2>3. main' = [main EXCEPT !.pc = "loop", !.chunk = <<>>, !.n = 0, !.buffer = buffer]
    BY <1>4, <2>2 DEF TakeBytes, Types, Reads
  <2> HIDE DEF n
  <2>4. /\ part \in Seq(Bytes) /\ Len(part) = n
        /\ \A i \in 1..n : part[i] = main.chunk[Within + i]
    <3> DEFINE a == Within + 1
               b == Within + n
    <3>1. a \in Nat \ {0} /\ b \in Nat /\ a <= b + 1 /\ b <= Len(main.chunk)
      BY <1>1, <2>1
    <3>2. part = SubSeq(main.chunk, a, b)
      OBVIOUS
    <3> HIDE DEF a, b, part
    <3>3. /\ part \in Seq(Bytes) /\ Len(part) = b - a + 1
          /\ \A i \in 1..b - a + 1 : part[i] = main.chunk[a + i - 1]
      BY <1>1, <3>1, <3>2, PartOfSeq
    <3>4. b - a + 1 = n /\ \A i \in 1..n : a + i - 1 = Within + i
      BY <1>1, <2>1 DEF a, b
    <3> QED BY <3>3, <3>4
  <2> HIDE DEF part
  <2>5. /\ buffer \in Seq(Bytes) /\ Len(buffer) = Len(main.buffer) + n
        /\ \A i \in 1..Len(main.buffer) + n :
             buffer[i] = IF i <= Len(main.buffer) THEN main.buffer[i]
                         ELSE part[i - Len(main.buffer)]
    BY <1>1, <2>4, ConcatProperties
  <2> HIDE DEF buffer
  <2>6. \A i \in 1..Len(main.buffer) : buffer[i] = main.buffer[i]
    <3> TAKE i \in 1..Len(main.buffer)
    <3>1. i \in 1..Len(main.buffer) + n /\ i <= Len(main.buffer)
      BY <1>1, <2>1
    <3> QED BY <2>5, <3>1
  <2>7. \A i \in 1..n : buffer[Len(main.buffer) + i] = main.chunk[Within + i]
    <3> TAKE i \in 1..n
    <3>1. /\ Len(main.buffer) + i \in 1..Len(main.buffer) + n
          /\ ~(Len(main.buffer) + i <= Len(main.buffer))
          /\ Len(main.buffer) + i - Len(main.buffer) = i
      BY <1>1, <2>1
    <3>2. buffer[Len(main.buffer) + i] = part[i]
      BY <2>5, <3>1
    <3> QED BY <2>4, <3>2
  <2>8. 0 \in 0..CHUNK /\ <<>> \in Seq(Bytes)
    BY StreamAssumption
  <2>9. /\ main' \in Reads /\ main'.pc = "loop" /\ main'.late = main.late
        /\ main'.buffer = buffer /\ main'.source = main.source
        /\ main'.position = main.position /\ main'.length = main.length
    BY <2>3, <2>5, <2>8 DEF Types, Reads
  <2>10. Types'
    BY <2>9 DEF TakeBytes, Types
  <2> QED BY <2>1, <2>5, <2>6, <2>7, <2>9, <2>10 DEF n
<1> QED BY <1>3, <1>4

LEMMA WorkerTypes ==
    ASSUME Types, TailInv, WorkerStep
    PROVE  Types'
<1>1. CASE BeginAnswer
  <2>1. PICK r \in requests, failed \in BOOLEAN :
          /\ tail' = [gen |-> r.gen, key |-> r.key, written |-> 0,
                      pc |-> IF failed THEN "fail" ELSE "data"]
          /\ requests' = requests \ {r}
    BY <1>1 DEF BeginAnswer
  <2>2. r.gen \in Nat /\ r.key \in Keys /\ 0 \in 0..CHUNK
    BY StreamAssumption DEF Types
  <2>3. tail' \in Tails
    BY <2>1, <2>2 DEF Tails
  <2> QED BY <1>1, <2>1, <2>3 DEF BeginAnswer, Types
<1>2. CASE WriteByte
  <2>1. tail \in Tails /\ tail.written < Len(Content(tail.key))
    BY <1>2 DEF WriteByte, Types, TailInv
  <2> DEFINE i == tail.written + 1
             bytes == Content(tail.key)
  <2>2. bytes \in Seq(Bytes) /\ Len(bytes) \in 1..CHUNK
    BY <2>1, ContentOfChunk DEF Tails
  <2>3. i \in 1..Len(bytes) /\ i \in 1..CHUNK
    BY <2>1, <2>2, StreamAssumption DEF Tails
  <2>4. bytes[i] \in Bytes
    BY <2>2, <2>3, ElementOfSeq
  <2>5. /\ data' = [data EXCEPT ![i] = bytes[i]]
        /\ tail' = [tail EXCEPT !.written = i,
                                !.pc = IF i = Len(bytes) THEN "length" ELSE tail.pc]
    BY <1>2, <2>1 DEF WriteByte, Tails
  <2> HIDE DEF i, bytes
  <2>6. data' \in [1..CHUNK -> Bytes] /\ tail' \in Tails
    <3>1. data' \in [1..CHUNK -> Bytes]
      BY <2>3, <2>4, <2>5 DEF Types
    <3>2. i \in 0..CHUNK /\ (IF i = Len(bytes) THEN "length" ELSE tail.pc)
                             \in {"data", "length", "fail", "signal"}
      BY <2>1, <2>3 DEF Tails
    <3>3. tail' \in Tails
      BY <2>1, <2>5, <3>2 DEF Tails
    <3> QED BY <3>1, <3>3
  <2>7. late' \in BOOLEAN
    BY <1>2 DEF WriteByte, Interferes, Types
  <2> QED BY <1>2, <2>6, <2>7 DEF WriteByte, Types
<1>3. CASE WriteLength
  <2>1. tail \in Tails /\ -1 \in -1..CHUNK /\ tail.written \in -1..CHUNK
    BY <1>3, StreamAssumption DEF WriteLength, Types, Tails
  <2>2. ctrl' \in [gen : Nat, length : -1..CHUNK] /\ tail' \in Tails
    BY <1>3, <2>1 DEF WriteLength, Types, Tails
  <2>3. late' \in BOOLEAN
    BY <1>3 DEF WriteLength, Interferes, Types
  <2> QED BY <1>3, <2>2, <2>3 DEF WriteLength, Types
<1>4. CASE Signal
  <2>1. ctrl' \in [gen : Nat, length : -1..CHUNK]
    BY <1>4 DEF Signal, Types, Tails
  <2>2. late' \in BOOLEAN
    BY <1>4 DEF Signal, Interferes, Types
  <2> QED BY <1>4, <2>1, <2>2 DEF Signal, Types
<1> QED BY <1>1, <1>2, <1>3, <1>4 DEF WorkerStep

LEMMA StreamTypesNext ==
    ASSUME Types, BufferInv, TailInv, [StreamNext]_streamVars
    PROVE  Types'
<1>1. CASE UNCHANGED streamVars
  BY <1>1 DEF streamVars, Types
<1> QED BY <1>1, MainTypes, HitTypes, CopyByteTypes, PutChunkTypes, TakeBytesTypes,
           WorkerTypes DEF StreamNext, MainStep

-----------------------------------------------------------------------------
(* The buffer is filled with the bytes of the file                         *)

(* Where only the program counter moves, or nothing.                       *)
LEMMA SameBuffer ==
    ASSUME BufferInv,
           main'.source = main.source, main'.position = main.position,
           main'.buffer = main.buffer, main'.length = main.length,
           main'.late = main.late,
           main.pc # "idle",
           IsWaiting' \/ main'.pc = "take" => ~IsThrough,
           main'.pc = "take" /\ ~main.late => main'.chunk = Content(WantedKey),
           main'.pc = "returned" /\ ~main.late => IsThrough
    PROVE  BufferInv'
<1>1. WantedKey' = WantedKey /\ Pos' = Pos /\ IsThrough' = IsThrough
  BY SameRead
<1>2. Content(WantedKey)' = Content(WantedKey)
  BY <1>1 DEF Content, EndOf, Byte
<1> QED BY <1>1, <1>2 DEF BufferInv, Byte

LEMMA BufferUnchanged ==
    ASSUME BufferInv, UNCHANGED main
    PROVE  BufferInv'
<1>1. CASE main.pc = "idle"
  BY <1>1 DEF BufferInv
<1>2. CASE main.pc # "idle"
  BY <1>2, SameBuffer DEF BufferInv, IsWaiting
<1> QED BY <1>1, <1>2

LEMMA BufferKept ==
    ASSUME Types, BufferInv,
           \/ BeginRead \/ EndRead \/ Return \/ Request \/ SeeAnswer \/ Timeout
           \/ ReadLength \/ CopyByte
    PROVE  BufferInv'
<1>1. CASE BeginRead
  <2>1. PICK s \in Sources, length \in 1..MaxLength : \E position \in 0..SizeOf[s] :
          main' = [NoRead EXCEPT !.pc = "loop", !.source = s, !.position = position,
                                 !.length = length]
    BY <1>1 DEF BeginRead
  <2>2. PICK position \in 0..SizeOf[s] :
          main' = [NoRead EXCEPT !.pc = "loop", !.source = s, !.position = position,
                                 !.length = length]
    BY <2>1
  <2>3. position \in Nat /\ position <= SizeOf[s] /\ length \in Nat
    BY StreamAssumption
  <2>4. /\ main'.pc = "loop" /\ main'.source = s /\ main'.position = position
        /\ main'.length = length /\ main'.buffer = <<>>
    BY <2>2, NoReadIsIdle DEF Reads
  <2>5. Pos' = position
    BY <2>3, <2>4 DEF Pos
  <2> QED BY <2>3, <2>4, <2>5 DEF BufferInv, IsWaiting
<1>2. CASE Return \/ Timeout \/ (ReadLength /\ ctrl.length < 0)
  <2>1. main' = NoRead
    BY <1>2 DEF Return, Timeout, ReadLength, Throw
  <2> QED BY <2>1, NoReadIsIdle DEF BufferInv
<1>3. CASE EndRead \/ Request \/ SeeAnswer
  <2>1. /\ main.pc # "idle" /\ main'.pc \in {"returned", "poll", "length"}
        /\ main'.pc = "returned" => IsThrough
        /\ main'.pc \in {"poll", "length"} => ~IsThrough
    BY <1>3 DEF EndRead, Request, SeeAnswer, Goto, Types, Reads, BufferInv, IsWaiting
  <2>2. /\ main'.source = main.source /\ main'.position = main.position
        /\ main'.buffer = main.buffer /\ main'.length = main.length
        /\ main'.late = main.late
    BY <1>3 DEF EndRead, Request, SeeAnswer, Goto, Types, Reads
  <2> QED BY <2>1, <2>2, SameBuffer DEF IsWaiting
<1>4. CASE CopyByte \/ (ReadLength /\ ~(ctrl.length < 0))
  <2>1. main.pc # "idle" /\ main'.pc = "copy" /\ ~IsThrough
    BY <1>4 DEF CopyByte, ReadLength, Types, Reads, BufferInv, IsWaiting
  <2>2. /\ main'.source = main.source /\ main'.position = main.position
        /\ main'.buffer = main.buffer /\ main'.length = main.length
        /\ main'.late = main.late
    BY <1>4 DEF CopyByte, ReadLength, Types, Reads
  <2> QED BY <2>1, <2>2, SameBuffer DEF IsWaiting
<1> QED BY <1>1, <1>2, <1>3, <1>4

(* A chunk that was got is the one that was wanted.                        *)
LEMMA GotChunk ==
    ASSUME Types, BufferInv, main.pc # "idle", ~IsThrough,
           NEW e \in Entries, GetChunk(e), e.late \/ e.bytes = Content(WantedKey)
    PROVE  BufferInv'
<1>1. /\ main'.pc = "take" /\ main'.late = (main.late \/ e.late)
      /\ main'.chunk = e.bytes
      /\ main'.source = main.source /\ main'.position = main.position
      /\ main'.buffer = main.buffer /\ main'.length = main.length
  BY DEF GetChunk, Types, Reads
<1>2. WantedKey' = WantedKey /\ Pos' = Pos /\ IsThrough' = IsThrough
  BY <1>1, SameRead
<1>3. Content(WantedKey)' = Content(WantedKey)
  BY <1>2 DEF Content, EndOf, Byte
<1>4. ~main'.late => ~main.late /\ main'.chunk = Content(WantedKey)
  BY <1>1 DEF Types, Reads, Entries
<1> QED BY <1>1, <1>2, <1>3, <1>4 DEF BufferInv, IsWaiting, Byte

(* An answer that no other was written over is the chunk.                  *)
LEMMA CopiedChunk ==
    ASSUME Types, BufferInv, AnswerInv, CopyInv, PutChunk, ~late
    PROVE  main.chunk = Content(WantedKey)
<1>1. /\ main.pc = "copy" /\ IsWaiting /\ ~IsThrough /\ Len(main.chunk) = main.n
      /\ main.n \in Nat /\ main.chunk \in Seq(Bytes)
  BY StreamAssumption DEF PutChunk, IsWaiting, BufferInv, Types, Reads
<1>2. AnswerWritten /\ main.n = ctrl.length
  BY <1>1 DEF AnswerInv
<1>3. Len(main.chunk) = Len(Content(WantedKey))
  BY <1>1, <1>2 DEF AnswerWritten
<1>4. \A i \in 1..Len(main.chunk) : main.chunk[i] = Content(WantedKey)[i]
  BY <1>1 DEF CopyInv
<1>5. Content(WantedKey) \in Seq(Bytes)
  BY <1>1, WantedChunk, ContentOfChunk
<1> QED BY <1>1, <1>3, <1>4, <1>5, SeqEqual

LEMMA TakeBytesKeepsBuffer ==
    ASSUME Types, BufferInv, TakeBytes
    PROVE  BufferInv'
<1>1. /\ main.pc = "take" /\ ~IsThrough /\ main.source \in Sources
      /\ main.position \in Nat /\ main.length \in Nat
      /\ Len(main.buffer) \in Nat /\ Len(main.buffer) <= main.length
      /\ Pos = main.position + Len(main.buffer)
      /\ SizeOf[main.source] \in Nat /\ CHUNK \in Nat
  BY StreamAssumption DEF TakeBytes, BufferInv, Types, Reads, Pos
<1>2. /\ Pos \in Nat /\ Within \in 0..CHUNK - 1 /\ Pos = WantedKey.start + Within
      /\ WantedKey.source = main.source /\ WantedKey \in Keys
  BY <1>1, WantedChunk
<1>3. WantedKey.start \in Nat /\ Pos < SizeOf[main.source]
  BY <1>1, <1>2 DEF Keys, IsThrough
<1>4. ~main.late =>
        /\ main.chunk = Content(WantedKey)
        /\ Len(main.chunk) \in Nat /\ Len(main.chunk) > Within
        /\ Pos + (Len(main.chunk) - Within) <= SizeOf[main.source]
        /\ \A i \in 1..Len(main.chunk) :
             main.chunk[i] = Byte(main.source, WantedKey.start + i - 1)
  <2> SUFFICES ASSUME ~main.late
               PROVE  /\ main.chunk = Content(WantedKey)
                      /\ Len(main.chunk) \in Nat /\ Len(main.chunk) > Within
                      /\ Pos + (Len(main.chunk) - Within) <= SizeOf[main.source]
                      /\ \A i \in 1..Len(main.chunk) :
                           main.chunk[i] = Byte(main.source, WantedKey.start + i - 1)
    OBVIOUS
  <2>1. main.chunk = Content(WantedKey)
    BY <1>1 DEF BufferInv
  <2>2. /\ Len(main.chunk) = EndOf(WantedKey) - WantedKey.start
        /\ Len(main.chunk) \in 1..CHUNK
        /\ EndOf(WantedKey) = IF WantedKey.start + CHUNK <= SizeOf[main.source]
                              THEN WantedKey.start + CHUNK ELSE SizeOf[main.source]
        /\ \A i \in 1..Len(main.chunk) :
             main.chunk[i] = Byte(main.source, WantedKey.start + i - 1)
    BY <1>2, <2>1, ContentOfChunk
  <2> QED BY <1>1, <1>2, <1>3, <2>1, <2>2
<1>5. CASE Len(main.chunk) <= Within
  <2>1. main.late
    BY <1>2, <1>4, <1>5 DEF Types, Reads
  <2>2. /\ main'.pc = "returned" /\ main'.late = main.late
        /\ main'.source = main.source /\ main'.position = main.position
        /\ main'.buffer = main.buffer /\ main'.length = main.length
    BY <1>5 DEF TakeBytes, Goto, Types, Reads
  <2> QED BY <1>1, <2>1, <2>2, SameBuffer DEF IsWaiting
<1>6. CASE ~(Len(main.chunk) <= Within)
  <2>1. Len(main.chunk) > Within /\ Len(main.chunk) \in Nat
    BY <1>2, <1>6 DEF Types, Reads
  <2>2. PICK n \in Nat \ {0} :
          /\ n = IF main.length - Len(main.buffer) <= Len(main.chunk) - Within
                 THEN main.length - Len(main.buffer) ELSE Len(main.chunk) - Within
          /\ main'.pc = "loop" /\ main'.late = main.late
          /\ Len(main'.buffer) = Len(main.buffer) + n
          /\ \A i \in 1..Len(main.buffer) : main'.buffer[i] = main.buffer[i]
          /\ \A i \in 1..n : main'.buffer[Len(main.buffer) + i] = main.chunk[Within + i]
          /\ main'.source = main.source /\ main'.position = main.position
          /\ main'.length = main.length
    BY <2>1, TakeBytesTypes
  <2>3. /\ Len(main'.buffer) <= main'.length /\ n \in Nat \ {0}
        /\ n <= Len(main.chunk) - Within
    <3> DEFINE asked == main.length - Len(main.buffer)
               rest == Len(main.chunk) - Within
    <3>1. asked \in Int /\ rest \in Int
      BY <1>1, <1>2, <2>1
    <3>2. n = (IF asked <= rest THEN asked ELSE rest)
          /\ Len(main'.buffer) = Len(main.buffer) + n /\ main'.length = main.length
          /\ n \in Nat \ {0}
      BY <2>2
    <3> HIDE DEF asked, rest
    <3>3. n <= asked /\ n <= rest
      BY <3>1, <3>2
    <3> QED BY <1>1, <1>2, <2>1, <3>2, <3>3 DEF asked, rest
  <2>4. Pos' = Pos + n
    BY <1>1, <2>2 DEF Pos
  <2>5. ASSUME ~main.late
        PROVE  Pos' <= SizeOf[main.source]
    <3>1. Pos + (Len(main.chunk) - Within) <= SizeOf[main.source]
      BY <1>4, <2>5
    <3> DEFINE rest == Len(main.chunk) - Within
    <3>2. /\ Pos \in Nat /\ n \in Nat /\ n <= rest /\ rest \in Int
          /\ SizeOf[main.source] \in Nat
      BY <1>1, <1>2, <2>1, <2>3
    <3>3. Pos + rest <= SizeOf[main.source]
      BY <3>1
    <3> HIDE DEF rest
    <3>4. Pos + n <= SizeOf[main.source]
      BY <3>2, <3>3
    <3> QED BY <2>4, <3>4
  <2>6. ASSUME ~main.late, NEW i \in 1..Len(main'.buffer)
        PROVE  main'.buffer[i] = Byte(main.source, main.position + i - 1)
    <3>1. CASE i \in 1..Len(main.buffer)
      BY <1>1, <2>2, <2>6, <3>1 DEF BufferInv
    <3>2. CASE ~(i \in 1..Len(main.buffer))
      <4> DEFINE j == i - Len(main.buffer)
      <4>1. j \in 1..n /\ i = Len(main.buffer) + j
        BY <1>1, <2>2, <2>6, <3>2
      <4> HIDE DEF j
      <4>2. Within + j \in 1..Len(main.chunk)
            /\ WantedKey.start + (Within + j) - 1 = main.position + i - 1
        <5>1. Within + j \in 1..Len(main.chunk)
          BY <1>1, <1>2, <2>1, <2>3, <4>1
        <5> DEFINE position == main.position
                   have == Len(main.buffer)
                   start == WantedKey.start
                   within == Within
        <5>2. /\ position \in Nat /\ have \in Nat /\ start \in Nat /\ within \in Nat
              /\ j \in Nat /\ i = have + j /\ position + have = start + within
          BY <1>1, <1>2, <1>3, <4>1
        <5> HIDE DEF position, have, start, within
        <5>3. start + (within + j) - 1 = position + i - 1
          BY <5>2
        <5> QED BY <5>1, <5>3 DEF position, start, within
      <4>3. main'.buffer[i] = main.chunk[Within + j]
        BY <2>2, <4>1
      <4>4. main.chunk[Within + j] = Byte(main.source, WantedKey.start + (Within + j) - 1)
        BY <1>4, <2>6, <4>2
      <4> QED BY <4>2, <4>3, <4>4
    <3> QED BY <3>1, <3>2
  <2> QED BY <1>1, <2>2, <2>3, <2>5, <2>6 DEF BufferInv, IsWaiting, Byte
<1> QED BY <1>5, <1>6

LEMMA BufferNext ==
    ASSUME Types, BufferInv, CacheInv, AnswerInv, CopyInv, [StreamNext]_streamVars
    PROVE  BufferInv'
<1>1. CASE UNCHANGED streamVars \/ WorkerStep
  BY <1>1, BufferUnchanged DEF streamVars, WorkerStep, BeginAnswer, WriteByte, WriteLength,
                               Signal
<1>2. CASE Hit
  <2>1. EntryOf(WantedKey) \in Entries /\ EntryOf(WantedKey).key = WantedKey
    BY <1>2, CachedEntry DEF Hit
  <2>2. EntryOf(WantedKey).late \/ EntryOf(WantedKey).bytes = Content(WantedKey)
    BY <1>2, <2>1, CachedEntry DEF Hit, CacheInv
  <2> QED BY <1>2, <2>1, <2>2, GotChunk DEF Hit
<1>3. CASE PutChunk
  <2>1. PutEntry \in Entries /\ GetChunk(PutEntry)
    BY <1>3, PutChunkEntry
  <2>2. PutEntry.late \/ PutEntry.bytes = Content(WantedKey)
    BY <1>3, CopiedChunk DEF PutEntry
  <2>3. main.pc # "idle" /\ ~IsThrough
    BY <1>3 DEF PutChunk, BufferInv, IsWaiting
  <2> QED BY <2>1, <2>2, <2>3, GotChunk
<1> QED BY <1>1, <1>2, <1>3, BufferKept, TakeBytesKeepsBuffer DEF StreamNext, MainStep

-----------------------------------------------------------------------------
(* The cache holds what its keys say                                       *)

LEMMA CacheNext ==
    ASSUME Types, BufferInv, CacheInv, AnswerInv, CopyInv, [StreamNext]_streamVars
    PROVE  CacheInv'
<1> DEFINE Good(e) == e.late \/ e.bytes = Content(e.key)
<1>1. CASE UNCHANGED cache
  BY <1>1 DEF CacheInv
<1>2. CASE Hit
  <2> DEFINE e == EntryOf(WantedKey)
             rest == Without(WantedKey)
  <2>1. e \in Entries /\ Good(e)
    BY <1>2, CachedEntry DEF Hit, CacheInv
  <2>2. rest \in Seq(Entries) /\ \A i \in DOMAIN rest : Good(rest[i])
    BY <1>2, RestOfCache DEF Hit, CacheInv
  <2>3. cache' = Append(rest, e)
    BY <1>2 DEF Hit
  <2> HIDE DEF e, rest, Good
  <2>4. \A i \in DOMAIN cache' : cache'[i] = e \/ (i \in DOMAIN rest /\ cache'[i] = rest[i])
    BY <2>1, <2>2, <2>3, AppendProperties
  <2>5. \A i \in DOMAIN cache' : Good(cache'[i])
    BY <2>1, <2>2, <2>4
  <2> QED BY <2>5 DEF CacheInv, Good
<1>3. CASE PutChunk
  <2>1. \A i \in DOMAIN cache' :
          cache'[i] = PutEntry \/ \E j \in DOMAIN cache : cache'[i] = cache[j]
    BY <1>3, PutChunkEntry
  <2>2. Good(PutEntry)
    BY <1>3, CopiedChunk DEF PutEntry
  <2>3. \A j \in DOMAIN cache : Good(cache[j])
    BY DEF CacheInv
  <2> HIDE DEF Good
  <2>4. \A i \in DOMAIN cache' : Good(cache'[i])
    BY <2>1, <2>2, <2>3
  <2> QED BY <2>4 DEF CacheInv, Good
<1> QED
  BY <1>1, <1>2, <1>3
  DEF StreamNext, MainStep, WorkerStep, streamVars, BeginRead, EndRead, Return, Request,
      SeeAnswer,
      Timeout, ReadLength, CopyByte, TakeBytes, BeginAnswer, WriteByte, WriteLength, Signal

-----------------------------------------------------------------------------
(* Requests and their answers                                              *)

LEMMA TailTypes ==
    ASSUME Types, tail # NoTail
    PROVE  /\ tail.gen \in Nat /\ tail.key \in Keys /\ tail.written \in 0..CHUNK
           /\ Len(Content(tail.key)) \in 1..CHUNK
  BY ContentOfChunk DEF Types, Tails

LEMMA GenerationsNext ==
    ASSUME Types, Generations, [StreamNext]_streamVars
    PROVE  Generations'
<1>1. CASE UNCHANGED <<generation, requests, tail, ctrl>>
  BY <1>1 DEF Generations
<1>2. CASE Request
  <2>1. /\ generation' = generation + 1 /\ UNCHANGED <<ctrl, tail>>
        /\ requests' = requests \cup {[gen |-> generation + 1, key |-> WantedKey]}
    BY <1>2 DEF Request
  <2> DEFINE new == [gen |-> generation + 1, key |-> WantedKey]
  <2>2. /\ generation \in Nat /\ ctrl.gen \in Nat
        /\ tail # NoTail => tail.gen \in Nat
        /\ \A r \in requests : r.gen \in Nat /\ r.gen <= generation
    BY TailTypes DEF Types, Generations
  <2>3. new.gen = generation + 1 /\ requests' = requests \cup {new}
    BY <2>1
  <2> HIDE DEF new
  <2>4. \A r \in requests' : r.gen <= generation' /\ r.gen # ctrl'.gen
    BY <2>1, <2>2, <2>3 DEF Generations
  <2>5. \A r \in requests : r.gen # new.gen
    BY <2>2, <2>3
  <2>6. \A r1, r2 \in requests' : r1.gen = r2.gen => r1 = r2
    BY <2>3, <2>5 DEF Generations
  <2>7. tail' # NoTail => /\ tail'.gen <= generation' /\ tail'.gen # ctrl'.gen
                         /\ \A r \in requests' : r.gen # tail'.gen
    BY <2>1, <2>2, <2>3 DEF Generations
  <2>8. ctrl'.gen <= generation'
    BY <2>1, <2>2 DEF Generations
  <2> QED BY <2>4, <2>6, <2>7, <2>8 DEF Generations
<1>3. CASE BeginAnswer
  <2>1. PICK r \in requests :
          /\ tail'.gen = r.gen
          /\ requests' = requests \ {r}
    BY <1>3 DEF BeginAnswer
  <2> QED BY <1>3, <2>1 DEF BeginAnswer, Generations
<1>4. CASE WriteByte \/ WriteLength
  <2>1. tail # NoTail /\ tail'.gen = tail.gen /\ ctrl'.gen = ctrl.gen
    BY <1>4 DEF WriteByte, WriteLength, Types, Tails
  <2> QED BY <1>4, <2>1 DEF WriteByte, WriteLength, Generations
<1>5. CASE Signal
  <2>1. tail # NoTail /\ ctrl'.gen = tail.gen /\ tail' = NoTail
    BY <1>5 DEF Signal, Types
  <2> QED BY <1>5, <2>1 DEF Signal, Generations
<1> QED
  BY <1>1, <1>2, <1>3, <1>4, <1>5
  DEF StreamNext, MainStep, WorkerStep, streamVars, BeginRead, EndRead, Return, Hit, SeeAnswer,
      Timeout, ReadLength, CopyByte, PutChunk, TakeBytes

LEMMA TailNext ==
    ASSUME Types, TailInv, [StreamNext]_streamVars
    PROVE  TailInv'
<1>1. CASE UNCHANGED tail
  BY <1>1 DEF TailInv
<1>2. CASE BeginAnswer
  <2>1. PICK r \in requests, failed \in BOOLEAN :
          tail' = [gen |-> r.gen, key |-> r.key, written |-> 0,
                   pc |-> IF failed THEN "fail" ELSE "data"]
    BY <1>2 DEF BeginAnswer
  <2>2. Len(Content(r.key)) \in 1..CHUNK
    BY ContentOfChunk DEF Types
  <2> QED BY <2>1, <2>2, StreamAssumption DEF TailInv
<1>3. CASE WriteByte
  <2>1. /\ tail # NoTail /\ tail.written \in 0..CHUNK
        /\ tail.written < Len(Content(tail.key)) /\ Len(Content(tail.key)) \in 1..CHUNK
    BY <1>3, TailTypes DEF WriteByte, TailInv
  <2>2. /\ tail'.written = tail.written + 1 /\ tail'.key = tail.key
        /\ tail'.pc = IF tail.written + 1 = Len(Content(tail.key)) THEN "length" ELSE "data"
    BY <1>3, <2>1 DEF WriteByte, Types, Tails
  <2> QED BY <2>1, <2>2, StreamAssumption DEF TailInv
<1>4. CASE WriteLength \/ Signal
  <2>1. tail' = NoTail \/ tail'.pc = "signal"
    BY <1>4 DEF WriteLength, Signal, Types, Tails
  <2> QED BY <2>1 DEF TailInv
<1> QED
  BY <1>1, <1>2, <1>3, <1>4
  DEF StreamNext, MainStep, WorkerStep, streamVars, BeginRead, EndRead, Return, Hit,
      Request, SeeAnswer,
      Timeout, ReadLength, CopyByte, PutChunk, TakeBytes

(* These end a request, or are not in one.                                 *)
LEMMA NotWaiting ==
    ASSUME Types,
           \/ BeginRead \/ EndRead \/ Return \/ Hit \/ Timeout \/ PutChunk \/ TakeBytes
           \/ (ReadLength /\ ctrl.length < 0)
    PROVE  ~IsWaiting'
<1>1. CASE BeginRead
  <2>1. main'.pc = "loop"
    BY <1>1, NoReadIsIdle DEF BeginRead, Reads
  <2> QED BY <2>1 DEF IsWaiting
<1>2. CASE Return \/ Timeout \/ (ReadLength /\ ctrl.length < 0)
  BY <1>2, NoReadIsIdle DEF Return, Timeout, ReadLength, Throw, IsWaiting
<1>3. CASE EndRead \/ Hit \/ PutChunk \/ TakeBytes
  <2>1. main'.pc \in {"returned", "take", "loop"}
    BY <1>3 DEF EndRead, Hit, PutChunk, TakeBytes, Goto, GetChunk, Types, Reads
  <2> QED BY <2>1 DEF IsWaiting
<1> QED BY <1>1, <1>2, <1>3

(* These go on with the request.                                           *)
LEMMA StillWaiting ==
    ASSUME Types, SeeAnswer \/ CopyByte \/ (ReadLength /\ ~(ctrl.length < 0)) \/ WorkerStep
    PROVE  /\ IsWaiting' <=> IsWaiting
           /\ WantedKey' = WantedKey
           /\ Content(WantedKey)' = Content(WantedKey)
           /\ generation' = generation
<1>1. /\ main'.source = main.source /\ main'.position = main.position
      /\ main'.buffer = main.buffer /\ main'.length = main.length
      /\ IsWaiting' <=> IsWaiting
  <2>1. CASE SeeAnswer \/ CopyByte \/ (ReadLength /\ ~(ctrl.length < 0))
    BY <2>1 DEF SeeAnswer, CopyByte, ReadLength, Goto, Types, Reads, IsWaiting
  <2>2. CASE WorkerStep
    BY <2>2 DEF WorkerStep, BeginAnswer, WriteByte, WriteLength, Signal, IsWaiting
  <2> QED BY <2>1, <2>2
<1>2. WantedKey' = WantedKey
  BY <1>1, SameRead
<1>3. Content(WantedKey)' = Content(WantedKey)
  BY <1>2 DEF Content, EndOf, Byte
<1>4. generation' = generation
  BY DEF SeeAnswer, CopyByte, ReadLength, WorkerStep, BeginAnswer, WriteByte, WriteLength,
         Signal
<1> QED BY <1>1, <1>2, <1>3, <1>4

LEMMA RequestFresh ==
    ASSUME Types, Generations, Request
    PROVE  /\ WantedKey' = WantedKey /\ Content(WantedKey)' = Content(WantedKey)
           /\ main'.pc = "poll" /\ ~late'
           /\ ctrl'.gen # generation'
           /\ tail' # NoTail => tail'.gen # generation'
           /\ \A r \in requests' : r.gen = generation' => r.key = WantedKey
<1>1. /\ main'.source = main.source /\ main'.position = main.position
      /\ main'.buffer = main.buffer /\ main'.length = main.length /\ main'.pc = "poll"
  BY DEF Request, Goto, Types, Reads
<1>2. WantedKey' = WantedKey
  BY <1>1, SameRead
<1>3. Content(WantedKey)' = Content(WantedKey)
  BY <1>2 DEF Content, EndOf, Byte
<1>4. /\ generation' = generation + 1 /\ UNCHANGED <<ctrl, tail>> /\ ~late'
      /\ generation \in Nat
      /\ \A r \in requests' :
           r \in requests \/ r = [gen |-> generation + 1, key |-> WantedKey]
  BY DEF Request, Types
<1>5. /\ ctrl.gen \in Nat /\ ctrl.gen <= generation
      /\ tail # NoTail => tail.gen \in Nat /\ tail.gen <= generation
      /\ \A r \in requests : r.gen \in Nat /\ r.gen <= generation
  BY TailTypes DEF Types, Generations
<1> QED BY <1>1, <1>2, <1>3, <1>4, <1>5

LEMMA AskedNext ==
    ASSUME Types, Generations, AskedInv, [StreamNext]_streamVars
    PROVE  AskedInv'
<1>1. CASE UNCHANGED streamVars
  BY <1>1 DEF streamVars, AskedInv, IsWaiting, WantedKey, Key, Pos
<1>2. CASE \/ BeginRead \/ EndRead \/ Return \/ Hit \/ Timeout \/ PutChunk \/ TakeBytes
           \/ (ReadLength /\ ctrl.length < 0)
  BY <1>2, NotWaiting DEF AskedInv
<1>3. CASE Request
  BY <1>3, RequestFresh DEF AskedInv
<1>4. CASE \/ SeeAnswer \/ CopyByte \/ (ReadLength /\ ~(ctrl.length < 0))
           \/ WorkerStep
  <2> SUFFICES ASSUME IsWaiting
               PROVE  /\ \A r \in requests' : r.gen = generation => r.key = WantedKey
                      /\ tail' # NoTail /\ tail'.gen = generation => tail'.key = WantedKey
    BY <1>4, StillWaiting DEF AskedInv
  <2>1. CASE UNCHANGED <<requests, tail>>
    BY <2>1 DEF AskedInv
  <2>2. CASE BeginAnswer
    <3>1. PICK r \in requests :
            tail'.gen = r.gen /\ tail'.key = r.key /\ requests' = requests \ {r}
      BY <2>2 DEF BeginAnswer
    <3> QED BY <3>1 DEF AskedInv
  <2>3. CASE WriteByte \/ WriteLength
    <3>1. /\ tail # NoTail /\ tail'.gen = tail.gen /\ tail'.key = tail.key
          /\ requests' = requests
      BY <2>3 DEF WriteByte, WriteLength, Types, Tails
    <3> QED BY <3>1 DEF AskedInv
  <2>4. CASE Signal
    BY <2>4 DEF Signal, AskedInv
  <2> QED BY <1>4, <2>1, <2>2, <2>3, <2>4 DEF SeeAnswer, CopyByte, ReadLength, WorkerStep
<1> QED BY <1>1, <1>2, <1>3, <1>4 DEF StreamNext, MainStep

-----------------------------------------------------------------------------
(* The answer, as long as no other is written during the request           *)

LEMMA NothingChanges ==
    ASSUME UNCHANGED streamVars
    PROVE  WantedKey' = WantedKey /\ Content(WantedKey)' = Content(WantedKey)
<1>1. WantedKey' = WantedKey
  BY SameRead DEF streamVars
<1> QED BY <1>1 DEF Content, EndOf, Byte

LEMMA MainKeepsAnswer ==
    ASSUME Types, AnswerInv, SeeAnswer \/ CopyByte \/ (ReadLength /\ ~(ctrl.length < 0))
    PROVE  AnswerInv'
<1>1. /\ WantedKey' = WantedKey /\ Content(WantedKey)' = Content(WantedKey)
      /\ generation' = generation /\ (IsWaiting' <=> IsWaiting)
  BY StillWaiting
<1>2. UNCHANGED <<tail, ctrl, data, late>>
  BY DEF SeeAnswer, CopyByte, ReadLength
<1>3. /\ AnswerWritten' = AnswerWritten
      /\ (tail # NoTail => DataHolds(tail.written)' = DataHolds(tail.written))
  BY <1>1, <1>2 DEF AnswerWritten, DataHolds
<1>4. IsWaiting /\ ~late =>
        /\ main'.pc \in {"length", "copy"} => ctrl.gen = generation
        /\ main'.pc = "copy" => main'.n = ctrl.length
  BY DEF SeeAnswer, CopyByte, ReadLength, Goto, AnswerInv, IsWaiting, Types, Reads
<1> QED BY <1>1, <1>2, <1>3, <1>4 DEF AnswerInv

(* Only the answer that read() waits for can be written without being late.*)
LEMMA OwnAnswer ==
    ASSUME Types, Generations, AskedInv, AnswerInv,
           WriteByte \/ WriteLength \/ Signal, IsWaiting, ~late'
    PROVE  /\ ~late /\ tail # NoTail /\ tail.gen = generation /\ tail.key = WantedKey
           /\ ctrl.gen # generation /\ main.pc = "poll" /\ DataHolds(tail.written)
           /\ tail.pc = "signal" => AnswerWritten
<1>1. ~late /\ tail # NoTail /\ tail.gen = generation
  BY DEF WriteByte, WriteLength, Signal, Interferes, Types
<1>2. tail.key = WantedKey /\ ctrl.gen # generation
  BY <1>1 DEF AskedInv, Generations
<1> QED BY <1>1, <1>2 DEF AnswerInv, IsWaiting

LEMMA WorkerKeepsAnswer ==
    ASSUME Types, Generations, TailInv, AskedInv, AnswerInv, WorkerStep
    PROVE  AnswerInv'
<1> SUFFICES ASSUME IsWaiting, ~late'
             PROVE  AnswerInv'
  BY StillWaiting DEF AnswerInv
<1>1. /\ WantedKey' = WantedKey /\ Content(WantedKey)' = Content(WantedKey)
      /\ generation' = generation /\ main' = main
  BY StillWaiting DEF WorkerStep, BeginAnswer, WriteByte, WriteLength, Signal
<1>2. CASE BeginAnswer
  <2>1. tail'.written = 0 /\ tail'.pc # "signal" /\ UNCHANGED <<ctrl, data, late>>
    BY <1>2 DEF BeginAnswer
  <2>2. AnswerWritten' = AnswerWritten
    BY <1>1, <2>1 DEF AnswerWritten, DataHolds
  <2>3. DataHolds(tail.written)'
    BY <2>1 DEF DataHolds
  <2> QED BY <1>1, <2>1, <2>2, <2>3 DEF AnswerInv
<1>3. CASE WriteByte
  <2>1. /\ tail # NoTail /\ tail.gen = generation /\ tail.key = WantedKey
        /\ ctrl.gen # generation /\ main.pc = "poll" /\ DataHolds(tail.written)
    BY <1>3, OwnAnswer
  <2> DEFINE i == tail.written + 1
  <2>2. /\ data' = [data EXCEPT ![i] = Content(WantedKey)[i]]
        /\ tail'.written = i /\ tail'.pc # "signal" /\ ctrl' = ctrl
    BY <1>3, <2>1 DEF WriteByte, Types, Tails
  <2>3. tail.written \in Nat /\ i \in 1..CHUNK
    BY <1>3, <2>1, TailTypes, StreamAssumption DEF TailInv, WriteByte
  <2>4. \A j \in 1..i : data'[j] = Content(WantedKey)[j]
    <3> TAKE j \in 1..i
    <3>1. CASE j = i
      BY <2>2, <2>3, <3>1 DEF Types
    <3>2. CASE j # i
      <4>1. j \in 1..tail.written /\ j \in 1..CHUNK
        BY <2>3, <3>2, StreamAssumption
      <4> QED BY <2>1, <2>2, <2>3, <3>2, <4>1 DEF DataHolds, Types
    <3> QED BY <3>1, <3>2
  <2>5. DataHolds(tail.written)'
    BY <1>1, <2>2, <2>4 DEF DataHolds
  <2> QED BY <1>1, <2>1, <2>2, <2>5 DEF AnswerInv
<1>4. CASE WriteLength
  <2>1. /\ tail # NoTail /\ tail.gen = generation /\ tail.key = WantedKey
        /\ ctrl.gen # generation /\ main.pc = "poll" /\ DataHolds(tail.written)
    BY <1>4, OwnAnswer
  <2>2. /\ ctrl'.gen = ctrl.gen /\ tail'.written = tail.written /\ data' = data
        /\ \/ tail.pc = "fail" /\ ctrl'.length = -1
           \/ tail.pc = "length" /\ ctrl'.length = tail.written
    BY <1>4, <2>1 DEF WriteLength, Types, Tails
  <2>3. DataHolds(tail.written)'
    BY <1>1, <2>1, <2>2 DEF DataHolds
  <2>4. tail.pc = "length" => tail.written = Len(Content(WantedKey))
    BY <2>1 DEF TailInv
  <2>5. AnswerWritten'
    BY <1>1, <2>2, <2>3, <2>4 DEF AnswerWritten, DataHolds
  <2> QED BY <1>1, <2>1, <2>2, <2>3, <2>5 DEF AnswerInv
<1>5. CASE Signal
  <2>1. main.pc = "poll" /\ AnswerWritten
    BY <1>5, OwnAnswer DEF Signal
  <2>2. ctrl'.length = ctrl.length /\ data' = data /\ tail' = NoTail
    BY <1>5 DEF Signal, Types
  <2>3. AnswerWritten'
    BY <1>1, <2>1, <2>2 DEF AnswerWritten, DataHolds
  <2> QED BY <1>1, <2>1, <2>2, <2>3 DEF AnswerInv
<1> QED BY <1>2, <1>3, <1>4, <1>5 DEF WorkerStep

LEMMA AnswerNext ==
    ASSUME Types, Generations, TailInv, AskedInv, AnswerInv, [StreamNext]_streamVars
    PROVE  AnswerInv'
<1>1. CASE UNCHANGED streamVars
  BY <1>1, NothingChanges DEF streamVars, AnswerInv, AnswerWritten, DataHolds, IsWaiting
<1>2. CASE \/ BeginRead \/ EndRead \/ Return \/ Hit \/ Timeout \/ PutChunk \/ TakeBytes
           \/ (ReadLength /\ ctrl.length < 0)
  BY <1>2, NotWaiting DEF AnswerInv
<1>3. CASE Request
  BY <1>3, RequestFresh DEF AnswerInv
<1> QED BY <1>1, <1>2, <1>3, MainKeepsAnswer, WorkerKeepsAnswer DEF StreamNext, MainStep

LEMMA CopyNext ==
    ASSUME Types, AnswerInv, CopyInv, [StreamNext]_streamVars
    PROVE  CopyInv'
<1>1. CASE UNCHANGED streamVars
  BY <1>1, NothingChanges DEF streamVars, CopyInv
<1>2. CASE \/ BeginRead \/ EndRead \/ Return \/ Hit \/ Timeout \/ PutChunk \/ TakeBytes
           \/ (ReadLength /\ ctrl.length < 0)
  BY <1>2, NotWaiting DEF CopyInv, IsWaiting
<1>3. CASE Request \/ SeeAnswer
  <2>1. main'.pc # "copy"
    BY <1>3 DEF Request, SeeAnswer, Goto, Types, Reads
  <2> QED BY <2>1 DEF CopyInv
<1>4. CASE ReadLength /\ ~(ctrl.length < 0)
  <2>1. main'.chunk = <<>> /\ main'.n = ctrl.length
    BY <1>4 DEF ReadLength, Types, Reads
  <2>2. ctrl.length \in Nat /\ Len(<<>>) = 0
    BY <1>4, StreamAssumption DEF Types
  <2> QED BY <2>1, <2>2 DEF CopyInv
<1>5. CASE CopyByte
  <2> DEFINE l == Len(main.chunk)
  <2>1. /\ main.pc = "copy" /\ IsWaiting /\ l < main.n /\ l \in Nat /\ main.n \in 0..CHUNK
        /\ main.chunk \in Seq(Bytes) /\ data[l + 1] \in Bytes /\ CHUNK \in Nat
        /\ late' = late
    <3>1. /\ main.pc = "copy" /\ l < main.n /\ l \in Nat /\ main.n \in 0..CHUNK
          /\ main.chunk \in Seq(Bytes) /\ CHUNK \in Nat /\ late' = late
      BY <1>5, StreamAssumption DEF CopyByte, Types, Reads
    <3>2. l + 1 \in 1..CHUNK
      BY <3>1
    <3> QED BY <3>1, <3>2 DEF IsWaiting, Types
  <2>2. /\ WantedKey' = WantedKey /\ Content(WantedKey)' = Content(WantedKey)
    BY <1>5, StillWaiting
  <2>3. main'.chunk = Append(main.chunk, data[l + 1]) /\ main'.n = main.n
    BY <1>5 DEF CopyByte, Types, Reads
  <2> HIDE DEF l
  <2>4. /\ Len(main'.chunk) = Len(main.chunk) + 1
        /\ \A i \in 1..Len(main.chunk) : main'.chunk[i] = main.chunk[i]
        /\ main'.chunk[Len(main.chunk) + 1] = data[l + 1]
    BY <2>1, <2>3, AppendProperties
  <2>5. ~late => data[l + 1] = Content(WantedKey)[l + 1]
    <3> SUFFICES ASSUME ~late PROVE data[l + 1] = Content(WantedKey)[l + 1]
      OBVIOUS
    <3>1. AnswerWritten /\ main.n = ctrl.length
      BY <2>1 DEF AnswerInv
    <3>2. l + 1 \in 1..ctrl.length /\ ctrl.length # -1
      BY <2>1, <3>1
    <3> QED BY <3>1, <3>2 DEF AnswerWritten, DataHolds
  <2>6. ~late => \A i \in 1..l + 1 : main'.chunk[i] = Content(WantedKey)[i]
    <3> SUFFICES ASSUME ~late, NEW i \in 1..l + 1
                 PROVE  main'.chunk[i] = Content(WantedKey)[i]
      OBVIOUS
    <3>1. CASE i = l + 1
      BY <2>4, <2>5, <3>1 DEF l
    <3>2. CASE i # l + 1
      <4>1. i \in 1..l
        BY <2>1, <3>2
      <4> QED BY <2>1, <2>4, <4>1 DEF CopyInv, l
    <3> QED BY <3>1, <3>2
  <2>7. Len(main'.chunk) = l + 1 /\ l + 1 <= main'.n
    BY <2>1, <2>3, <2>4 DEF l
  <2> QED BY <2>1, <2>2, <2>6, <2>7 DEF CopyInv
<1>6. CASE WorkerStep
  <2>1. main' = main /\ (late => late')
    BY <1>6 DEF WorkerStep, BeginAnswer, WriteByte, WriteLength, Signal, Interferes, Types
  <2>2. WantedKey' = WantedKey /\ Content(WantedKey)' = Content(WantedKey)
    BY <1>6, StillWaiting
  <2> QED BY <2>1, <2>2 DEF CopyInv
<1> QED BY <1>1, <1>2, <1>3, <1>4, <1>5, <1>6 DEF StreamNext, MainStep

-----------------------------------------------------------------------------
LEMMA StreamInvInit == StreamInit => StreamInv
<1> SUFFICES ASSUME StreamInit PROVE StreamInv
  OBVIOUS
<1>1. Types
  BY StreamTypesInit
<1>2. /\ cache = <<>> /\ generation = 0 /\ requests = {} /\ ctrl.gen = 0
      /\ tail = NoTail /\ main.pc = "idle"
  BY NoReadIsIdle DEF StreamInit
<1> QED BY <1>1, <1>2 DEF StreamInv, Generations, TailInv, AskedInv, AnswerInv, CopyInv,
                         BufferInv, CacheInv, IsWaiting

LEMMA StreamInvNext == StreamInv /\ [StreamNext]_streamVars => StreamInv'
<1> SUFFICES ASSUME StreamInv, [StreamNext]_streamVars PROVE StreamInv'
  OBVIOUS
<1>1. /\ Types /\ Generations /\ TailInv /\ AskedInv
      /\ AnswerInv /\ CopyInv /\ BufferInv /\ CacheInv
  BY DEF StreamInv
<1>2. Types' /\ Generations' /\ TailInv' /\ AskedInv'
  BY <1>1, StreamTypesNext, GenerationsNext, TailNext, AskedNext
<1>3. AnswerInv' /\ CopyInv' /\ BufferInv' /\ CacheInv'
  BY <1>1, AnswerNext, CopyNext, BufferNext, CacheNext
<1> QED BY <1>2, <1>3 DEF StreamInv

(* A read that is over and had no late answer got all it can get.          *)
LEMMA ReturnedBuffer ==
    ASSUME Types, BufferInv, main.pc = "returned", ~main.late
    PROVE  main.buffer = [i \in 1..Min({main.length, SizeOf[main.source] - main.position})
                              |-> Byte(main.source, main.position + i - 1)]
<1> DEFINE n == Min({main.length, SizeOf[main.source] - main.position})
<1>1. /\ main.source \in Sources /\ main.position \in Nat /\ main.length \in Nat
      /\ SizeOf[main.source] \in Nat
      /\ main.buffer \in Seq(Bytes) /\ Len(main.buffer) \in Nat
      /\ Len(main.buffer) <= main.length
      /\ Pos = main.position + Len(main.buffer) /\ Pos <= SizeOf[main.source]
      /\ Len(main.buffer) >= main.length \/ Pos >= SizeOf[main.source]
      /\ \A i \in 1..Len(main.buffer) :
           main.buffer[i] = Byte(main.source, main.position + i - 1)
  BY StreamAssumption DEF BufferInv, Types, Reads, Pos, IsThrough
<1>2. n = Len(main.buffer)
  <2> DEFINE left == SizeOf[main.source] - main.position
  <2>1. left \in Int
    BY <1>1
  <2>2. main.length \in Int
    BY <1>1
  <2> HIDE DEF left
  <2>3. Min({main.length, left}) = IF main.length <= left THEN main.length ELSE left
    BY <2>1, <2>2, MinOfTwo
  <2>4. n = IF main.length <= left THEN main.length ELSE left
    BY <2>3 DEF left
  <2> HIDE DEF n
  <2>5. /\ Len(main.buffer) <= main.length /\ Len(main.buffer) <= left
        /\ Len(main.buffer) >= main.length \/ Len(main.buffer) >= left
    BY <1>1 DEF left
  <2> QED BY <1>1, <2>1, <2>4, <2>5
<1> HIDE DEF n
<1>3. main.buffer = [i \in 1..Len(main.buffer) |-> Byte(main.source, main.position + i - 1)]
  <2>1. main.buffer \in [1..Len(main.buffer) -> Bytes]
    BY <1>1, LenProperties
  <2> QED BY <1>1, <2>1
<1> QED BY <1>2, <1>3 DEF n

(* The bytes that fetchChunkSync puts in the cache, and that read()        *)
(* returns, are those of the file, unless an answer to an earlier request  *)
(* was written into the shared buffer while it waited.                     *)
THEOREM ReadsAreRight == StreamSpec => []ReadsReturnTheFileUnlessLate
<1>1. StreamInv => ReadsReturnTheFileUnlessLate
  BY ReturnedBuffer DEF StreamInv, CacheInv, ReadsReturnTheFileUnlessLate
<1> QED BY <1>1, StreamInvInit, StreamInvNext, PTL DEF StreamSpec

-----------------------------------------------------------------------------
(* The chunks used last                                                    *)

LruInv ==
    /\ uses \in Seq(Keys) /\ Len(uses) <= LRU_MAX /\ Len(cache) = Len(uses)
    /\ \A i \in 1..Len(uses) : cache[i].key = uses[i]
    /\ \A i, j \in 1..Len(uses) : uses[i] = uses[j] => i = j
    /\ IsWaiting => \A i \in 1..Len(uses) : uses[i] # WantedKey

Moved(s, k, e) == Append(RemoveAt(s, k), e)

LEMMA MovedToEnd ==
    ASSUME NEW S, NEW s \in Seq(S), NEW k \in 1..Len(s), NEW e \in S
    PROVE  /\ Moved(s, k, e) \in Seq(S) /\ Len(Moved(s, k, e)) = Len(s)
           /\ \A i \in 1..Len(s) : Moved(s, k, e)[i] =
                IF i = Len(s) THEN e ELSE IF i < k THEN s[i] ELSE s[i + 1]
<1>1. Len(s) \in Nat
  BY LenProperties
<1> DEFINE rest == RemoveAt(s, k)
<1>2. /\ rest \in Seq(S) /\ Len(rest) = Len(s) - 1
      /\ \A i \in 1..Len(s) - 1 : rest[i] = IF i < k THEN s[i] ELSE s[i + 1]
  BY ElementLeft
<1> HIDE DEF rest
<1>3. /\ Append(rest, e) \in Seq(S) /\ Len(Append(rest, e)) = Len(rest) + 1
      /\ \A i \in 1..Len(rest) : Append(rest, e)[i] = rest[i]
      /\ Append(rest, e)[Len(rest) + 1] = e
  BY <1>2, AppendProperties
<1>4. /\ Append(rest, e) \in Seq(S) /\ Len(Append(rest, e)) = Len(s)
      /\ \A i \in 1..Len(s) : Append(rest, e)[i] =
           IF i = Len(s) THEN e ELSE IF i < k THEN s[i] ELSE s[i + 1]
  BY <1>1, <1>2, <1>3
<1> QED BY <1>4 DEF rest, Moved

(* At most max stay, the last ones.                                        *)
LastOf(s, max) == IF Len(s) > max THEN Tail(s) ELSE s
Put(s, e, max) == LastOf(Append(s, e), max)

LEMMA PutAtEnd ==
    ASSUME NEW S, NEW s \in Seq(S), NEW e \in S, NEW max \in Nat \ {0}, Len(s) <= max
    PROVE  /\ Put(s, e, max) \in Seq(S)
           /\ Len(Put(s, e, max)) = IF Len(s) = max THEN max ELSE Len(s) + 1
           /\ \A i \in 1..Len(Put(s, e, max)) :
                Put(s, e, max)[i] = IF i = Len(Put(s, e, max)) THEN e
                                    ELSE IF Len(s) = max THEN s[i + 1] ELSE s[i]
<1> DEFINE all == Append(s, e)
           rest == Tail(all)
<1>1. Len(s) \in Nat
  BY LenProperties
<1>2. /\ all \in Seq(S) /\ Len(all) = Len(s) + 1 /\ all # <<>>
      /\ \A i \in 1..Len(s) : all[i] = s[i]
      /\ all[Len(s) + 1] = e
  BY <1>1, AppendProperties
<1> HIDE DEF all
<1>3. /\ rest \in Seq(S) /\ Len(rest) = Len(all) - 1
      /\ \A i \in 1..Len(rest) : rest[i] = all[i + 1]
  BY <1>2, HeadTailProperties
<1> HIDE DEF rest
<1>4. CASE Len(s) = max
  <2>1. LastOf(all, max) = rest
    BY <1>1, <1>2, <1>4 DEF LastOf, rest
  <2>2. /\ Len(rest) = max
        /\ \A i \in 1..max : rest[i] = IF i = max THEN e ELSE s[i + 1]
    BY <1>1, <1>2, <1>3, <1>4
  <2> QED BY <1>3, <1>4, <2>1, <2>2 DEF all, Put
<1>5. CASE Len(s) # max
  <2>1. LastOf(all, max) = all
    BY <1>1, <1>2, <1>5 DEF LastOf
  <2>2. \A i \in 1..Len(s) + 1 : all[i] = IF i = Len(s) + 1 THEN e ELSE s[i]
    BY <1>1, <1>2
  <2> QED BY <1>2, <1>5, <2>1, <2>2 DEF all, Put
<1> QED BY <1>4, <1>5

LEMMA HitUse ==
    ASSUME Types, LruInv, Hit
    PROVE  LruInv'
<1> DEFINE K == WantedKey
           k == CHOOSE i \in DOMAIN cache : cache[i].key = K
           j == CHOOSE i \in DOMAIN uses : uses[i] = K
           e == EntryOf(K)
           n == Len(uses)
<1>1. /\ n \in Nat /\ DOMAIN uses = 1..n /\ DOMAIN cache = 1..n
      /\ uses \in Seq(Keys) /\ cache \in Seq(Entries)
      /\ n <= LRU_MAX /\ LRU_MAX \in Nat \ {0} /\ Len(cache) = n
  BY StreamAssumption DEF LruInv, Types
<1>2. \A i \in 1..n : cache[i].key = uses[i]
  BY DEF LruInv
<1>3. \A i, l \in 1..n : uses[i] = uses[l] => i = l
  BY DEF LruInv
<1>4. k \in 1..n /\ cache[k].key = K
  BY <1>1 DEF Hit, IsCached
<1>5. j \in 1..n /\ uses[j] = K
  <2>1. \E i \in DOMAIN uses : uses[i] = K
    BY <1>1, <1>2, <1>4
  <2> QED BY <1>1, <2>1
<1>6. k = j /\ K \in ToSet(uses) /\ K \in Keys
  BY <1>1, <1>2, <1>3, <1>4, <1>5, ElementOfSeq DEF ToSet
<1>7. e \in Entries /\ e.key = K
  BY CachedEntry DEF Hit
<1>8. cache' = Moved(cache, j, e)
  BY <1>6 DEF Hit, Without, Moved
<1>9. uses' = LastOf(Moved(uses, j, K), LRU_MAX)
  BY <1>6 DEF Hit, Uses, LastOf, Moved
<1> HIDE DEF K, k, j, e
<1>10. /\ cache' \in Seq(Entries) /\ Len(cache') = Len(cache)
       /\ \A i \in 1..Len(cache) : cache'[i] =
            IF i = Len(cache) THEN e ELSE IF i < j THEN cache[i] ELSE cache[i + 1]
  <2>1. j \in 1..Len(cache) /\ e \in Entries /\ cache \in Seq(Entries)
    BY <1>1, <1>5, <1>7
  <2>2. /\ Moved(cache, j, e) \in Seq(Entries) /\ Len(Moved(cache, j, e)) = Len(cache)
        /\ \A i \in 1..Len(cache) : Moved(cache, j, e)[i] =
             IF i = Len(cache) THEN e ELSE IF i < j THEN cache[i] ELSE cache[i + 1]
    BY <2>1, MovedToEnd
  <2> QED BY <1>8, <2>2
<1>11. /\ uses' \in Seq(Keys) /\ Len(uses') = n
       /\ \A i \in 1..n : uses'[i] =
            IF i = n THEN K ELSE IF i < j THEN uses[i] ELSE uses[i + 1]
  <2> DEFINE moved == Moved(uses, j, K)
  <2>1. /\ moved \in Seq(Keys) /\ Len(moved) = n
        /\ \A i \in 1..n : moved[i] =
             IF i = n THEN K ELSE IF i < j THEN uses[i] ELSE uses[i + 1]
    <3>1. j \in 1..Len(uses) /\ K \in Keys /\ uses \in Seq(Keys)
      BY <1>1, <1>5, <1>6
    <3> QED BY <3>1, MovedToEnd
  <2>2. uses' = LastOf(moved, LRU_MAX)
    BY <1>9
  <2> HIDE DEF moved, n
  <2>3. uses' = moved
    BY <1>1, <2>1, <2>2 DEF LastOf
  <2> QED BY <2>1, <2>3
<1> HIDE DEF n
<1>12. \A i \in 1..n : cache'[i].key = uses'[i]
  <2> TAKE i \in 1..n
  <2>1. CASE i = n
    BY <1>1, <1>7, <1>10, <1>11, <2>1
  <2>2. CASE i # n
    <3>1. i + 1 \in 1..n
      BY <1>1, <2>2
    <3>2. cache[i].key = uses[i] /\ cache[i + 1].key = uses[i + 1]
      BY <1>2, <3>1
    <3>3. /\ cache'[i] = IF i < j THEN cache[i] ELSE cache[i + 1]
          /\ uses'[i] = IF i < j THEN uses[i] ELSE uses[i + 1]
      BY <1>1, <1>10, <1>11, <2>2
    <3> QED BY <3>2, <3>3
  <2> QED BY <2>1, <2>2
<1>13. \A i, l \in 1..n : uses'[i] = uses'[l] => i = l
  <2> DEFINE Was(i) == IF i = n THEN j ELSE IF i < j THEN i ELSE i + 1
  <2>1. \A i \in 1..n : Was(i) \in 1..n
    BY <1>1, <1>5
  <2>2. \A i \in 1..n : uses'[i] = uses[Was(i)]
    BY <1>5, <1>11
  <2>3. \A i, l \in 1..n : Was(i) = Was(l) => i = l
    BY <1>1, <1>5
  <2> HIDE DEF Was
  <2> QED BY <1>3, <2>1, <2>2, <2>3
<1>14. ~IsWaiting'
  BY NotWaiting
<1>15. Len(cache') = Len(uses') /\ Len(uses') = n
  BY <1>1, <1>10, <1>11
<1> QED BY <1>1, <1>11, <1>12, <1>13, <1>14, <1>15 DEF LruInv

LEMMA PutUse ==
    ASSUME Types, BufferInv, LruInv, PutChunk
    PROVE  LruInv'
<1> DEFINE K == WantedKey
           len == Len(uses)
           n == IF len = LRU_MAX THEN LRU_MAX ELSE len + 1
           Was(i) == IF len = LRU_MAX THEN i + 1 ELSE i
<1>1. /\ len \in Nat /\ Len(cache) = len /\ DOMAIN uses = 1..len
      /\ uses \in Seq(Keys) /\ cache \in Seq(Entries)
      /\ len <= LRU_MAX /\ LRU_MAX \in Nat \ {0}
  BY StreamAssumption DEF LruInv, Types
<1>2. \A i \in 1..len : cache[i].key = uses[i]
  BY DEF LruInv
<1>3. \A i, l \in 1..len : uses[i] = uses[l] => i = l
  BY DEF LruInv
<1>4. \A i \in 1..len : uses[i] # K
  BY DEF LruInv, PutChunk, IsWaiting
<1>5. PutEntry \in Entries /\ PutEntry.key = K
  BY PutChunkEntry DEF PutEntry
<1>6. K \in Keys /\ K \notin ToSet(uses)
  BY <1>1, <1>4, <1>5 DEF ToSet, Entries
<1>7. cache' = Put(cache, PutEntry, LRU_MAX)
  BY DEF PutChunk, PutEntry, LastOf, Put
<1>8. uses' = Put(uses, K, LRU_MAX)
  BY <1>6 DEF PutChunk, Uses, LastOf, Put
<1> HIDE DEF K
<1>9. /\ Len(cache') = n
      /\ \A i \in 1..n : cache'[i] = IF i = n THEN PutEntry ELSE cache[Was(i)]
  <2>1. PICK e \in Entries : e = PutEntry
    BY <1>5
  <2>2. PICK s \in Seq(Entries) : s = cache
    BY <1>1
  <2>3. PICK max \in Nat \ {0} : max = LRU_MAX
    BY <1>1
  <2>4. Len(s) <= max
    BY <1>1, <2>2, <2>3
  <2> DEFINE put == Put(s, e, max)
  <2>5. /\ Len(put) = IF Len(s) = max THEN max ELSE Len(s) + 1
        /\ \A i \in 1..Len(put) :
             put[i] = IF i = Len(put) THEN e ELSE IF Len(s) = max THEN s[i + 1] ELSE s[i]
    BY <2>4, PutAtEnd
  <2>6. cache' = put
    BY <1>7, <2>1, <2>2, <2>3
  <2> HIDE DEF put
  <2> QED BY <1>1, <2>1, <2>2, <2>3, <2>5, <2>6
<1>10. /\ uses' \in Seq(Keys) /\ Len(uses') = n
       /\ \A i \in 1..n : uses'[i] = IF i = n THEN K ELSE uses[Was(i)]
  <2>1. Len(uses) <= LRU_MAX /\ LRU_MAX \in Nat \ {0} /\ K \in Keys /\ uses \in Seq(Keys)
    BY <1>1, <1>6
  <2> DEFINE put == Put(uses, K, LRU_MAX)
  <2>2. /\ put \in Seq(Keys)
        /\ Len(put) = IF Len(uses) = LRU_MAX THEN LRU_MAX ELSE Len(uses) + 1
        /\ \A i \in 1..Len(put) :
             put[i] = IF i = Len(put) THEN K
                      ELSE IF Len(uses) = LRU_MAX THEN uses[i + 1] ELSE uses[i]
    BY <2>1, PutAtEnd
  <2> HIDE DEF put
  <2>3. uses' = put
    BY <1>8 DEF put
  <2> QED BY <2>2, <2>3
<1> HIDE DEF len
<1>11. n \in Nat /\ n <= LRU_MAX
  BY <1>1
<1>12. \A i \in 1..n : i # n => Was(i) \in 1..len
  BY <1>1
<1>13. \A i, l \in 1..n : i # n /\ l # n /\ Was(i) = Was(l) => i = l
  OBVIOUS
<1> HIDE DEF n, Was
<1>14. \A i \in 1..n : cache'[i].key = uses'[i]
  BY <1>2, <1>5, <1>9, <1>10, <1>12
<1>15. \A i, l \in 1..n : uses'[i] = uses'[l] => i = l
  BY <1>3, <1>4, <1>10, <1>12, <1>13
<1>16. ~IsWaiting'
  BY NotWaiting
<1> QED BY <1>9, <1>10, <1>11, <1>14, <1>15, <1>16 DEF LruInv

LEMMA LruNext ==
    ASSUME Types, BufferInv, LruInv, [StreamNext]_streamVars
    PROVE  LruInv'
<1> DEFINE Same == UNCHANGED <<cache, uses>>
<1>1. CASE Same /\ ~IsWaiting'
  BY <1>1 DEF LruInv
<1>2. CASE Same /\ WantedKey' = WantedKey /\ (IsWaiting' => IsWaiting)
  BY <1>2 DEF LruInv
<1>3. CASE Request
  <2>1. WantedKey' = WantedKey
    BY <1>3, SameRead DEF Request, Goto, Types, Reads
  <2>2. /\ \A i \in DOMAIN cache : cache[i].key # WantedKey
        /\ UNCHANGED <<cache, uses>> /\ DOMAIN cache = 1..Len(cache)
    BY <1>3 DEF Request, IsCached, Types
  <2> QED BY <2>1, <2>2 DEF LruInv
<1>4. CASE UNCHANGED streamVars
  <2>1. WantedKey' = WantedKey /\ IsWaiting' = IsWaiting /\ Same
    BY <1>4, SameRead DEF streamVars, IsWaiting
  <2> QED BY <1>2, <2>1
<1>5. CASE \/ BeginRead \/ EndRead \/ Return \/ Timeout \/ TakeBytes
           \/ (ReadLength /\ ctrl.length < 0)
  <2>1. Same
    BY <1>5 DEF BeginRead, EndRead, Return, Timeout, TakeBytes, ReadLength
  <2> QED BY <1>1, <1>5, <2>1, NotWaiting
<1>6. CASE SeeAnswer \/ CopyByte \/ (ReadLength /\ ~(ctrl.length < 0)) \/ WorkerStep
  <2>1. Same
    BY <1>6 DEF SeeAnswer, CopyByte, ReadLength, WorkerStep, BeginAnswer, WriteByte,
                WriteLength, Signal
  <2> QED BY <1>2, <1>6, <2>1, StillWaiting
<1> QED BY <1>3, <1>4, <1>5, <1>6, HitUse, PutUse DEF StreamNext, MainStep

(* The cache is the history of uses cut at LRU_MAX, for a cache of any     *)
(* size: a hit moves a chunk to the end, a request that timed out or       *)
(* failed changes nothing, and no chunk is in the cache twice.             *)
THEOREM CacheIsOfLastUses == StreamSpec => []CacheHoldsWhatWasUsedLast
<1>1. StreamInit => LruInv
  <2> SUFFICES ASSUME StreamInit PROVE LruInv
    OBVIOUS
  <2>1. ~IsWaiting
    BY NoReadIsIdle DEF StreamInit, IsWaiting
  <2> QED BY <2>1, StreamAssumption DEF StreamInit, LruInv
<1>2. StreamInv /\ LruInv /\ [StreamNext]_streamVars => LruInv'
  BY LruNext DEF StreamInv
<1>3. StreamInv /\ LruInv => CacheHoldsWhatWasUsedLast
  <2> SUFFICES ASSUME StreamInv, LruInv PROVE CacheHoldsWhatWasUsedLast
    OBVIOUS
  <2>1. /\ DOMAIN cache = 1..Len(uses) /\ uses \in Seq(Keys) /\ Len(uses) \in Nat
        /\ \A i \in 1..Len(uses) : cache[i].key = uses[i]
    BY DEF LruInv, StreamInv, Types
  <2>2. uses = [i \in 1..Len(uses) |-> uses[i]]
    BY <2>1
  <2> QED BY <2>1, <2>2 DEF CacheHoldsWhatWasUsedLast
<1> QED BY <1>1, <1>2, <1>3, StreamInvInit, StreamInvNext, PTL DEF StreamSpec
=============================================================================
