---------------------------- MODULE SavePersistence ----------------------------
(* Saves of the web build (play/index.html, MWState::StateManager): files   *)
(* in memory (mem), in IndexedDB (idb) by way of FS.syncfs, and in a folder *)
(* of the player's (folder). Everything between the three is asynchronous,  *)
(* and the page may close at any point.                                     *)
EXTENDS Naturals, Sequences, SequencesExt

CONSTANTS
    GameSaves,   \* saves of the game: saves/<character>/<name>.omwsave
    LooseSaves,  \* files right in the directory of saves
    None,
    MaxWrites, MaxSessions, MaxFailures   \* bounds

Files == GameSaves \cup LooseSaves

ASSUME FilesAssumption == GameSaves \cap LooseSaves = {}
ASSUME NoneAssumption == None \notin Nat /\ None \notin [data : Nat, mtime : Nat]
ASSUME BoundsAssumption ==
    MaxWrites \in Nat /\ MaxSessions \in Nat /\ MaxFailures \in Nat

VARIABLES
    mem,             \* MEMFS: what each file holds and when it was written
    idb,             \* IndexedDB, as committed
    folder,          \* openmw-web-saves: what each file holds
    page,            \* "closed", "loading" (FS.syncfs(true) runs) or "ready"
    syncs,           \* FS.syncfs under way, in the order of their transactions
    syncing, syncAgain,                  \* __omwSyncing, __omwSyncAgain
    setup,           \* where setupFolderSaves is; the engine starts after it
    folderSaves,     \* __folderSaves is set
    mirrored,        \* __mirrored
    mirror,          \* where mirrorSavesToFolder is
    mirrorAgain,     \* __mirrorAgain
    now, sessions, failures,             \* bounded counters
    loadMarred,      \* history: the load met an error, or a restored backup
    flushFailed,     \* history: the last flush failed, and none was asked since
    deleted,         \* history: saves deleted in the game since the page opened
    unread           \* history: files of the folder that could not be read

syncVars == <<syncs, syncing, syncAgain>>
mirrorVars == <<folderSaves, mirrored, mirror, mirrorAgain>>
history == <<loadMarred, flushFailed, deleted, unread>>
vars == <<mem, idb, folder, page, syncVars, setup, mirrorVars, now, sessions,
          failures, history>>

(* What a file holds is the number of the write that it comes from.         *)
EmptyFile == 0
Entry == [data : Nat, mtime : Nat]
Stamp(e) == IF e = None THEN None ELSE e.mtime
Stamps(m) == [f \in Files |-> Stamp(m[f])]
NoFiles == [f \in Files |-> None]
Present(m) == {f \in Files : m[f] # None}

NoSetup == [pc |-> "done", left |-> {}]
NoMirror == [pc |-> "idle", names |-> {}, live |-> {}, file |-> None,
             data |-> None, mtime |-> None]

TypeOK ==
    /\ mem \in [Files -> Entry \cup {None}]
    /\ idb \in [Files -> Entry \cup {None}]
    /\ folder \in [Files -> Nat \cup {None}]
    /\ page \in {"closed", "loading", "ready"}
    /\ syncs \in Seq([populate : BOOLEAN, phase : {"list", "store"},
                      partial : BOOLEAN, errored : BOOLEAN,
                      local : [Files -> Nat \cup {None}], left : SUBSET Files,
                      put : [Files -> Entry \cup {None}], del : SUBSET Files])
    /\ syncing \in BOOLEAN /\ syncAgain \in BOOLEAN
    /\ setup \in [pc : {"wait", "read", "done"}, left : SUBSET Files]
    /\ folderSaves \in BOOLEAN
    /\ mirrored \in [Files -> Nat \cup {None}]
    /\ mirror \in [pc : {"idle", "scan", "create", "write"},
                   names : SUBSET LooseSaves, live : SUBSET LooseSaves,
                   file : Files \cup {None},
                   data : Nat \cup {None}, mtime : Nat \cup {None}]
    /\ mirrorAgain \in BOOLEAN
    /\ now \in Nat /\ sessions \in 0..MaxSessions /\ failures \in 0..MaxFailures
    /\ loadMarred \in BOOLEAN /\ flushFailed \in BOOLEAN
    /\ deleted \subseteq Files /\ unread \subseteq Files

Init ==
    /\ mem = NoFiles /\ idb = NoFiles /\ folder = NoFiles
    /\ page = "closed" /\ syncs = <<>> /\ syncing = FALSE /\ syncAgain = FALSE
    /\ setup = NoSetup /\ folderSaves = FALSE /\ mirrored = NoFiles
    /\ mirror = NoMirror /\ mirrorAgain = FALSE
    /\ now = 0 /\ sessions = 0 /\ failures = 0
    /\ loadMarred = FALSE /\ flushFailed = FALSE /\ deleted = {} /\ unread = {}

Write(m, files, data) ==
    [f \in Files |-> IF f \in files THEN [data |-> data[f], mtime |-> now + 1]
                     ELSE m[f]]

------------------------------------------------------------------------------
(* FS.syncfs and IDBFS. A sync lists the local files at once, then the      *)
(* remote ones in a transaction; what differs is copied in a second one.    *)
(* Transactions run in the order in which they were made.                   *)

NewSync(populate, m, partial) ==
    [populate |-> populate, phase |-> "list", partial |-> partial,
     errored |-> FALSE, local |-> Stamps(m), left |-> {}, put |-> NoFiles,
     del |-> {}]

Loads(ss) == \E i \in DOMAIN ss : ss[i].populate
NewFlush(ss, m) == NewSync(FALSE, m, Loads(ss))

(* Deviation: a request made during a flush is dropped.                     *)
FlushOrDrop(ss, m) ==
    /\ flushFailed' = FALSE
    /\ \/ syncing /\ syncs' = ss /\ UNCHANGED <<syncing, syncAgain>>
       \/ /\ ~syncing /\ syncing' = TRUE /\ syncs' = Append(ss, NewFlush(ss, m))
          /\ UNCHANGED syncAgain

(* __omwSyncfs, with the syncs ss under way and m in memory.                *)
Flush(ss, m) ==
    /\ flushFailed' = FALSE
    /\ \/ /\ syncing /\ syncAgain' = TRUE /\ syncs' = ss /\ UNCHANGED syncing
       \/ /\ ~syncing /\ syncing' = TRUE /\ syncs' = Append(ss, NewFlush(ss, m))
          /\ UNCHANGED syncAgain

(* Deviation: the callback returns early on an error.                       *)
FlushedIfNoError(ss, failed) ==
    /\ syncAgain' = (failed /\ syncAgain)
    /\ syncing' = (failed \/ syncAgain)
    /\ syncs' = IF syncAgain /\ ~failed THEN Append(ss, NewFlush(ss, mem)) ELSE ss
    /\ flushFailed' = (failed \/ (~syncAgain /\ flushFailed))

(* Its callback, which takes no notice of an error.                         *)
Flushed(ss, failed) ==
    /\ syncAgain' = FALSE
    /\ syncing' = syncAgain
    /\ syncs' = IF syncAgain THEN Append(ss, NewFlush(ss, mem)) ELSE ss
    /\ flushFailed' = (~syncAgain /\ (failed \/ flushFailed))

(* The callback of the load: the engine may start, and the folder be read.  *)
Loaded(ss) == page' = "ready" /\ Flush(ss, mem)

CanList(i) == syncs[i].phase = "list" /\ \A k \in 1..(i - 1) : syncs[k].phase = "list"
CanStore(i) == syncs[i].phase = "store" /\ i = 1
Flushes == {i \in DOMAIN syncs : ~syncs[i].populate}
Populates == {i \in DOMAIN syncs : syncs[i].populate}

(* IDBFS.reconcile from memory to IndexedDB. A file that was deleted since  *)
(* it was listed is an error, and the callback does not wait for the rest.  *)
ReconcileFlush(i) ==
    LET local  == syncs[i].local
        create == {f \in Files : local[f] # None /\ local[f] # Stamp(idb[f])}
        del    == {f \in Present(idb) : local[f] = None}
        lost   == create \ Present(mem)
        others == RemoveAt(syncs, i)
        store  == [syncs[i] EXCEPT !.phase = "store", !.local = NoFiles,
                       !.errored = (lost # {}), !.left = create \ lost,
                       !.put = mem, !.del = del]
    IN  /\ i \in Flushes /\ CanList(i)
        /\ \/ create \cup del = {} /\ Flushed(others, FALSE)
           \/ /\ create \cup del # {} /\ lost = {}
              /\ syncs' = Append(others, store)
              /\ UNCHANGED <<syncing, syncAgain, flushFailed>>
           \/ lost # {} /\ Flushed(Append(others, store), FALSE)
        /\ UNCHANGED <<mem, idb, folder, page, setup, mirrorVars, now, sessions,
                       failures, loadMarred, deleted, unread>>

Stored(s, done) ==
    [f \in Files |-> IF f \notin done THEN idb[f]
                     ELSE IF f \in s.left THEN s.put[f] ELSE None]

CommitFlush(i) ==
    /\ i \in Flushes /\ CanStore(i)
    /\ idb' = Stored(syncs[i], syncs[i].left \cup syncs[i].del)
    /\ IF syncs[i].errored
       THEN syncs' = Tail(syncs) /\ UNCHANGED <<syncing, syncAgain, flushFailed>>
       ELSE Flushed(Tail(syncs), FALSE)
    /\ UNCHANGED <<mem, folder, page, setup, mirrorVars, now, sessions, failures,
                   loadMarred, deleted, unread>>

(* From IndexedDB to memory, where a new page has nothing to remove.        *)
ReconcileLoad(i) ==
    LET create == {f \in Present(idb) : Stamp(idb[f]) # syncs[i].local[f]}
        others == RemoveAt(syncs, i)
    IN  /\ i \in Populates /\ CanList(i)
        /\ \/ create = {} /\ Loaded(others)
           \/ /\ create # {}
              /\ syncs' = Append(others, [syncs[i] EXCEPT !.phase = "store",
                                              !.left = create])
              /\ UNCHANGED <<page, syncing, syncAgain, flushFailed>>
        /\ UNCHANGED <<mem, idb, folder, setup, mirrorVars, now, sessions,
                       failures, loadMarred, deleted, unread>>

LoadEntry(i, f) ==
    /\ i \in Populates /\ CanStore(i) /\ f \in syncs[i].left /\ idb[f] # None
    /\ mem' = [mem EXCEPT ![f] = idb[f]]
    /\ syncs' = [syncs EXCEPT ![i].left = @ \ {f}]
    /\ UNCHANGED <<idb, folder, page, syncing, syncAgain, setup, mirrorVars, now,
                   sessions, failures, history>>

(* Deviation: the callback does not wait for all entries.                   *)
EndLoadEarly(i) ==
    /\ i \in Populates /\ CanStore(i) /\ Loaded(Tail(syncs))
    /\ UNCHANGED <<mem, idb, folder, setup, mirrorVars, now, sessions, failures,
                   loadMarred, deleted, unread>>

EndLoad(i) ==
    /\ i \in Populates /\ CanStore(i) /\ syncs[i].left = {}
    /\ IF syncs[i].errored
       THEN syncs' = Tail(syncs) /\ UNCHANGED <<page, syncing, syncAgain, flushFailed>>
       ELSE Loaded(Tail(syncs))
    /\ UNCHANGED <<mem, idb, folder, setup, mirrorVars, now, sessions, failures,
                   loadMarred, deleted, unread>>

(* Requests fail and the rest of their transaction goes on, or all is undone.*)
FlushFails(i) ==
    /\ i \in Flushes /\ failures < MaxFailures /\ failures' = failures + 1
    /\ \/ CanList(i) /\ UNCHANGED idb
       \/ /\ CanStore(i)
          /\ \E done \in SUBSET (syncs[i].left \cup syncs[i].del) :
               idb' = Stored(syncs[i], done)
    /\ IF syncs[i].errored
       THEN /\ syncs' = RemoveAt(syncs, i) /\ flushFailed' = TRUE
            /\ UNCHANGED <<syncing, syncAgain>>
       ELSE Flushed(RemoveAt(syncs, i), TRUE)
    /\ UNCHANGED <<mem, folder, page, setup, mirrorVars, now, sessions, loadMarred,
                   deleted, unread>>

(* The load goes on after the first error, its callback does not wait.      *)
EntryFails(i, f) ==
    LET rest == [syncs EXCEPT ![i].left = @ \ {f}, ![i].errored = TRUE]
    IN  /\ i \in Populates /\ CanStore(i) /\ f \in syncs[i].left
        /\ IF syncs[i].errored
           THEN syncs' = rest /\ UNCHANGED <<page, syncing, syncAgain, flushFailed>>
           ELSE Loaded(rest)

(* An entry that a flush removed since it was listed.                       *)
EntryIsGone(i, f) ==
    /\ EntryFails(i, f) /\ idb[f] = None /\ loadMarred' = TRUE
    /\ UNCHANGED <<mem, idb, folder, setup, mirrorVars, now, sessions, failures,
                   deleted, unread>>

LoadFails(i) ==
    /\ failures < MaxFailures /\ failures' = failures + 1 /\ loadMarred' = TRUE
    /\ \/ i \in Populates /\ CanList(i) /\ Loaded(RemoveAt(syncs, i))
       \/ \E f \in Files : EntryFails(i, f)
    /\ UNCHANGED <<mem, idb, folder, setup, mirrorVars, now, sessions, deleted, unread>>

------------------------------------------------------------------------------
(* The folder.                                                              *)

(* Deviation: the folder is read without waiting for __idbfsReady.          *)
SetupAtOnce ==
    /\ setup.pc = "wait"
    /\ setup' = [pc |-> "read", left |-> {f \in Files : folder[f] # None}]
    /\ UNCHANGED <<mem, idb, folder, page, syncVars, mirrorVars, now, sessions,
                   failures, history>>

SetupFolderSaves ==
    /\ setup.pc = "wait" /\ page = "ready"
    /\ setup' \in {NoSetup, [pc |-> "read", left |-> {f \in Files : folder[f] # None}]}
    /\ UNCHANGED <<mem, idb, folder, page, syncVars, mirrorVars, now, sessions,
                   failures, history>>

(* Mirror in: the folder wins.                                              *)
ReadFromFolder(f) ==
    /\ setup.pc = "read" /\ f \in setup.left
    /\ mem' = Write(mem, {f}, folder) /\ now' = now + 1
    /\ mirrored' = [mirrored EXCEPT ![f] = now + 1]
    /\ setup' = [setup EXCEPT !.left = @ \ {f}]
    /\ UNCHANGED <<idb, folder, page, syncVars, folderSaves, mirror, mirrorAgain,
                   sessions, failures, history>>

ReadFails(f) ==
    /\ setup.pc = "read" /\ f \in setup.left
    /\ failures < MaxFailures /\ failures' = failures + 1
    /\ setup' = [setup EXCEPT !.left = @ \ {f}]
    /\ unread' = unread \cup {f}
    /\ UNCHANGED <<mem, idb, folder, page, syncVars, mirrorVars, now, sessions,
                   loadMarred, flushFailed, deleted>>

EndSetup ==
    /\ setup.pc = "read" /\ setup.left = {}
    /\ setup' = NoSetup /\ folderSaves' = TRUE /\ Flush(syncs, mem)
    /\ UNCHANGED <<mem, idb, folder, page, mirrored, mirror, mirrorAgain, now,
                   sessions, failures, loadMarred, deleted, unread>>

(* Mirror out: only names that end in .omwsave, and no subdirectory.        *)
NewMirror == [NoMirror EXCEPT !.pc = "scan", !.names = LooseSaves \cap Present(mem)]

StartMirror ==
    /\ UNCHANGED <<folderSaves, mirrored>>
    /\ \/ ~folderSaves /\ UNCHANGED <<mirror, mirrorAgain>>
       \/ folderSaves /\ mirror.pc # "idle" /\ mirrorAgain' = TRUE /\ UNCHANGED mirror
       \/ folderSaves /\ mirror.pc = "idle" /\ mirror' = NewMirror /\ UNCHANGED mirrorAgain

MirrorFile(f) ==
    /\ mirror.pc = "scan" /\ f \in mirror.names
    /\ LET seen == [mirror EXCEPT !.names = @ \ {f}, !.live = @ \cup {f}]
       IN  \/ /\ mem[f] # None /\ mirrored[f] = mem[f].mtime
              /\ mirror' = seen
           \/ /\ mem[f] # None /\ mirrored[f] # mem[f].mtime
              /\ mirror' = [seen EXCEPT !.pc = "create", !.file = f,
                               !.data = mem[f].data, !.mtime = mem[f].mtime]
    /\ UNCHANGED <<mem, idb, folder, page, syncVars, setup, folderSaves, mirrored,
                   mirrorAgain, now, sessions, failures, history>>

MirrorIdle == [mirror EXCEPT !.pc = "scan", !.file = None, !.data = None, !.mtime = None]

(* getFileHandle makes an empty file if there is none.                      *)
MirrorCreate ==
    /\ mirror.pc = "create"
    /\ folder' = [folder EXCEPT ![mirror.file] = IF @ = None THEN EmptyFile ELSE @]
    /\ mirror' = [mirror EXCEPT !.pc = "write"]
    /\ UNCHANGED <<mem, idb, page, syncVars, setup, folderSaves, mirrored,
                   mirrorAgain, now, sessions, failures, history>>

(* createWritable, write and close, which replaces the file.                *)
MirrorWrite ==
    /\ mirror.pc = "write"
    /\ folder' = [folder EXCEPT ![mirror.file] = mirror.data]
    /\ mirrored' = [mirrored EXCEPT ![mirror.file] = mirror.mtime]
    /\ mirror' = MirrorIdle
    /\ UNCHANGED <<mem, idb, page, syncVars, setup, folderSaves, mirrorAgain, now,
                   sessions, failures, history>>

MirrorFails ==
    /\ mirror.pc \in {"create", "write"}
    /\ failures < MaxFailures /\ failures' = failures + 1
    /\ mirror' = MirrorIdle
    /\ UNCHANGED <<mem, idb, folder, page, syncVars, setup, folderSaves, mirrored,
                   mirrorAgain, now, sessions, history>>

EndMirror ==
    LET gone == Present(mirrored) \ mirror.live
    IN  /\ mirror.pc = "scan" /\ mirror.names = {}
        /\ folder' = [f \in Files |-> IF f \in gone THEN None ELSE folder[f]]
        /\ mirrored' = [f \in Files |-> IF f \in gone THEN None ELSE mirrored[f]]
        /\ mirror' = IF mirrorAgain THEN NewMirror ELSE NoMirror
        /\ mirrorAgain' = FALSE
        /\ UNCHANGED <<mem, idb, page, syncVars, setup, folderSaves, now, sessions,
                       failures, history>>

------------------------------------------------------------------------------
(* The game, the player and the page.                                       *)

EngineRuns == page = "ready" /\ setup.pc = "done"

(* StateManager::saveGame flushes at once.                                  *)
SaveGame(f) ==
    /\ EngineRuns /\ f \in GameSaves /\ now < MaxWrites
    /\ mem' = Write(mem, {f}, [g \in {f} |-> now + 1]) /\ now' = now + 1
    /\ UNCHANGED <<loadMarred, deleted>> /\ Flush(syncs, mem')
    /\ UNCHANGED <<idb, folder, page, setup, mirrorVars, sessions, failures, unread>>

(* StateManager::deleteGame leaves the flush to the timer.                  *)
DeleteGame(f) ==
    /\ EngineRuns /\ f \in GameSaves /\ mem[f] # None
    /\ mem' = [mem EXCEPT ![f] = None]
    /\ deleted' = deleted \cup {f}
    /\ UNCHANGED <<idb, folder, page, syncVars, setup, mirrorVars, now, sessions,
                   failures, loadMarred, flushFailed, unread>>

(* The page's restore button, which is there at any time.                   *)
Restore(files) ==
    /\ page # "closed" /\ now < MaxWrites
    /\ mem' = Write(mem, files, [f \in files |-> now + 1]) /\ now' = now + 1
    /\ loadMarred' = (loadMarred \/ Loads(syncs))
    /\ Flush(syncs, mem')
    /\ UNCHANGED <<idb, folder, page, setup, mirrorVars, sessions, failures, deleted,
                   unread>>

(* The timer, visibilitychange and pagehide: window.__omwSync.              *)
OmwSync ==
    /\ page # "closed"
    /\ UNCHANGED loadMarred /\ Flush(syncs, mem) /\ StartMirror
    /\ UNCHANGED <<mem, idb, folder, page, setup, now, sessions, failures, deleted,
                   unread>>

OpenPage(srcLocal) ==
    /\ page = "closed" /\ sessions < MaxSessions /\ sessions' = sessions + 1
    /\ page' = "loading"
    /\ syncs' = <<NewSync(TRUE, mem, FALSE)>>
    /\ setup' = [NoSetup EXCEPT !.pc = IF srcLocal THEN "wait" ELSE "done"]
    /\ UNCHANGED <<mem, idb, folder, syncing, syncAgain, mirrorVars, now, failures,
                   history>>

(* The tab is closed or crashes, or the game is left (__omwOnQuit reloads).  *)
Close ==
    /\ page # "closed"
    /\ mem' = NoFiles /\ page' = "closed" /\ syncs' = <<>>
    /\ syncing' = FALSE /\ syncAgain' = FALSE /\ setup' = NoSetup
    /\ folderSaves' = FALSE /\ mirrored' = NoFiles
    /\ mirror' = NoMirror /\ mirrorAgain' = FALSE
    /\ loadMarred' = FALSE /\ flushFailed' = FALSE /\ deleted' = {} /\ unread' = {}
    /\ UNCHANGED <<idb, folder, now, sessions, failures>>

(* The player copies a save into the folder.                                *)
PutInFolder(f) ==
    /\ page = "closed" /\ f \in LooseSaves /\ now < MaxWrites
    /\ folder' = [folder EXCEPT ![f] = now + 1] /\ now' = now + 1
    /\ UNCHANGED <<mem, idb, page, syncVars, setup, mirrorVars, sessions, failures,
                   history>>

FlushStep == \E i \in DOMAIN syncs : ReconcileFlush(i) \/ CommitFlush(i)
LoadStep ==
    \E i \in DOMAIN syncs :
        ReconcileLoad(i) \/ EndLoad(i)
        \/ \E f \in Files : LoadEntry(i, f) \/ EntryIsGone(i, f)
SetupStep == SetupFolderSaves \/ EndSetup \/ \E f \in Files : ReadFromFolder(f)
MirrorStep == MirrorCreate \/ MirrorWrite \/ EndMirror \/ \E f \in Files : MirrorFile(f)
Failure ==
    \/ \E i \in DOMAIN syncs : FlushFails(i) \/ LoadFails(i)
    \/ MirrorFails \/ \E f \in Files : ReadFails(f)
Game ==
    \/ \E f \in Files : SaveGame(f) \/ DeleteGame(f) \/ PutInFolder(f)
    \/ \E files \in (SUBSET Files) \ {{}} : Restore(files)

Next ==
    \/ FlushStep \/ LoadStep \/ SetupStep \/ MirrorStep \/ Failure \/ Game
    \/ OmwSync \/ Close \/ \E srcLocal \in BOOLEAN : OpenPage(srcLocal)

Spec == Init /\ [][Next]_vars

(* Requests of the browser are answered, and the timer goes off, for as     *)
(* long as the page is there.                                               *)
FairSpec ==
    /\ Spec
    /\ WF_vars(FlushStep) /\ WF_vars(LoadStep) /\ WF_vars(SetupStep)
    /\ WF_vars(MirrorStep) /\ WF_vars(OmwSync)

------------------------------------------------------------------------------
(* A save that IndexedDB has is replaced by newer ones only, and removed    *)
(* only when the game deleted it: no flush works from a memory that does    *)
(* not have what was stored. In the code one may: a flush that is asked for *)
(* while the load still runs, or after a load that met an error (partial).  *)
StoredSavesAreKept ==
    [][\A f \in Present(idb) :
          idb'[f] # idb[f] =>
              \/ idb'[f] # None /\ idb'[f].mtime > idb[f].mtime
              \/ loadMarred
              \/ idb'[f] = None /\ (f \in deleted \/ syncs[1].partial)]_vars

(* While the game runs, a save that IndexedDB does not have is in a flush   *)
(* under way, or one follows: no request made during a flush is dropped.    *)
UnstoredSaveIsOnItsWay ==
    EngineRuns /\ ~loadMarred /\ ~flushFailed =>
        \A f \in Present(mem) :
            \/ idb[f] = mem[f]
            \/ syncAgain
            \/ \E i \in Flushes :
                 \/ syncs[i].phase = "list" /\ syncs[i].local[f] = mem[f].mtime
                 \/ f \in syncs[i].left /\ syncs[i].put[f] = mem[f]

(* The folder is the authoritative copy: a file there is only overwritten   *)
(* by something newer, except when it could not be read or the load failed. *)
FolderIsAuthoritative ==
    [][\A f \in Present(folder) :
          folder'[f] # folder[f] =>
              \/ folder'[f] # None /\ folder'[f] > folder[f]
              \/ f \in unread \/ loadMarred]_vars

(* If the page stays, IndexedDB comes to hold what memory does, failures    *)
(* and deleted saves included.                                              *)
StorageCatchesUp == <>[](page = "ready") => <>[](idb = mem)
=============================================================================
