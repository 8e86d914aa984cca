------------------------------- MODULE StreamFS -------------------------------
(***************************************************************************)
(* StreamFS (play/streamfs.js): files of the web build whose bytes are     *)
(* fetched in chunks by a Web Worker while the engine's read() polls a     *)
(* shared buffer, and kept in a cache of the chunks used last.             *)
(*                                                                         *)
(* A byte stands for a part of a chunk.  The worker handles a request up   *)
(* to its last await and then, in one go, writes the answer; requests are  *)
(* answered in any order, or never.  Both sides see each other's writes    *)
(* one by one.  Answers with other bytes than asked for are left out.      *)
(***************************************************************************)
EXTENDS Integers, Sequences, SequencesExt, FiniteSetsExt

CONSTANTS
    Sources,        \* mounted URLs and handles of local files
    SizeOf,         \* in bytes, as given to mount and mountLocal
    CHUNK,          \* bytes of a chunk
    LRU_MAX,        \* chunks in the cache
    MaxLength,      \* bound: bytes of one read
    MaxGeneration,  \* bound: requests
    NoByte, NoTail

ASSUME StreamAssumption ==
    /\ SizeOf \in [Sources -> Nat \ {0}]
    /\ {CHUNK, LRU_MAX, MaxLength} \subseteq Nat \ {0} /\ MaxGeneration \in Nat

VARIABLES
    cache,          \* sequence of [key, bytes, late], oldest first
    generation,
    requests,       \* what was posted to the worker and not answered
    ctrl,           \* [gen, length], shared
    data,           \* CHUNK bytes, shared
    tail,           \* the answer that the worker is writing, or NoTail
    main,           \* where read() is
    late,           \* history: another answer was written during this request
    uses            \* history: the keys that were read, last one last

streamVars == <<cache, generation, requests, ctrl, data, tail, main, late, uses>>

Byte(s, i) == <<s, i>>
Key(s, cs) == [source |-> s, start |-> cs]
EndOf(key) == Min({key.start + CHUNK, SizeOf[key.source]})
Content(key) == [i \in 1..EndOf(key) - key.start |-> Byte(key.source, key.start + i - 1)]

(* done counts from position; late: a chunk that was used is.              *)
NoRead == [pc |-> "idle", source |-> CHOOSE s \in Sources : TRUE, position |-> 0,
           length |-> 0, buffer |-> <<>>, chunk |-> <<>>, n |-> 0, late |-> FALSE]

Without(key) == RemoveAt(cache, CHOOSE i \in DOMAIN cache : cache[i].key = key)

(* The last LRU_MAX are remembered.                                        *)
Uses(key) ==
    LET others == IF key \in ToSet(uses)
                  THEN RemoveAt(uses, CHOOSE i \in DOMAIN uses : uses[i] = key) ELSE uses
        all == Append(others, key)
    IN  IF Len(all) > LRU_MAX THEN Tail(all) ELSE all

IsCached(key) == \E i \in DOMAIN cache : cache[i].key = key
EntryOf(key) == CHOOSE e \in ToSet(cache) : e.key = key

StreamInit ==
    /\ cache = <<>> /\ generation = 0 /\ requests = {}
    /\ ctrl = [gen |-> 0, length |-> 0]
    /\ data = [i \in 1..CHUNK |-> NoByte]
    /\ tail = NoTail
    /\ main = NoRead
    /\ late = FALSE /\ uses = <<>>

-----------------------------------------------------------------------------
(* readSync                                                                *)

Pos == main.position + Len(main.buffer)
WantedKey == Key(main.source, (Pos \div CHUNK) * CHUNK)
Within == Pos - WantedKey.start
Goto(pc) == main' = [main EXCEPT !.pc = pc]

Chunks(s, position, length) ==
    {Key(s, cs) : cs \in {CHUNK * ((position + i) \div CHUNK) :
                             i \in {j \in 0..length - 1 : position + j < SizeOf[s]}}}

(* A read begins when the bound leaves it the requests it may take.        *)
BeginRead ==
    /\ main.pc = "idle"
    /\ \E s \in Sources, length \in 1..MaxLength : \E position \in 0..SizeOf[s] :
         LET chunks == Chunks(s, position, length)
         IN  /\ \/ \A key \in chunks : IsCached(key)
                \/ generation + Cardinality(chunks) <= MaxGeneration
             /\ main' = [NoRead EXCEPT !.pc = "loop", !.source = s, !.position = position,
                                       !.length = length]
    /\ UNCHANGED <<cache, generation, requests, ctrl, data, tail, late, uses>>

IsThrough == Len(main.buffer) >= main.length \/ Pos >= SizeOf[main.source]

EndRead ==
    /\ main.pc = "loop" /\ IsThrough
    /\ Goto("returned")
    /\ UNCHANGED <<cache, generation, requests, ctrl, data, tail, late, uses>>

(* What was read is used by the engine, which goes on.                     *)
Return ==
    /\ main.pc = "returned"
    /\ main' = NoRead
    /\ UNCHANGED <<cache, generation, requests, ctrl, data, tail, late, uses>>

-----------------------------------------------------------------------------
(* fetchChunkSync                                                          *)

GetChunk(e) == main' = [main EXCEPT !.pc = "take", !.chunk = e.bytes, !.late = @ \/ e.late]

(* Deviation: a hit does not count as a use.                               *)
HitOnly ==
    /\ main.pc = "loop" /\ ~IsThrough /\ IsCached(WantedKey)
    /\ GetChunk(EntryOf(WantedKey))
    /\ uses' = Uses(WantedKey)
    /\ UNCHANGED <<cache, generation, requests, ctrl, data, tail, late>>

Hit ==
    /\ main.pc = "loop" /\ ~IsThrough /\ IsCached(WantedKey)
    /\ cache' = Append(Without(WantedKey), EntryOf(WantedKey))
    /\ GetChunk(EntryOf(WantedKey))
    /\ uses' = Uses(WantedKey)
    /\ UNCHANGED <<generation, requests, ctrl, data, tail, late>>

Request ==
    /\ main.pc = "loop" /\ ~IsThrough /\ ~IsCached(WantedKey)
    /\ generation' = generation + 1
    /\ requests' = requests \cup {[gen |-> generation + 1, key |-> WantedKey]}
    /\ Goto("poll")
    /\ late' = FALSE
    /\ UNCHANGED <<cache, ctrl, data, tail, uses>>

(* Deviation: any answer ends the wait.                                    *)
SeeAnyAnswer ==
    /\ main.pc = "poll" /\ ctrl.gen # 0
    /\ Goto("length")
    /\ UNCHANGED <<cache, generation, requests, ctrl, data, tail, late, uses>>

SeeAnswer ==
    /\ main.pc = "poll" /\ ctrl.gen = generation
    /\ Goto("length")
    /\ UNCHANGED <<cache, generation, requests, ctrl, data, tail, late, uses>>

(* An exception leaves read(); on the web the engine goes on with the next *)
(* frame.                                                                  *)
Throw == main' = NoRead /\ late' = FALSE

(* Deviation: there is no limit to the wait.                               *)
NoTimeout == FALSE /\ UNCHANGED streamVars

(* After 30 seconds.                                                       *)
Timeout ==
    /\ main.pc = "poll" /\ ctrl.gen # generation
    /\ Throw
    /\ UNCHANGED <<cache, generation, requests, ctrl, data, tail, uses>>

ReadLength ==
    /\ main.pc = "length"
    /\ IF ctrl.length < 0 THEN Throw
       ELSE /\ main' = [main EXCEPT !.pc = "copy", !.n = ctrl.length, !.chunk = <<>>]
            /\ UNCHANGED late
    /\ UNCHANGED <<cache, generation, requests, ctrl, data, tail, uses>>

CopyByte ==
    /\ main.pc = "copy" /\ Len(main.chunk) < main.n
    /\ main' = [main EXCEPT !.chunk = Append(@, data[Len(@) + 1])]
    /\ UNCHANGED <<cache, generation, requests, ctrl, data, tail, late, uses>>

(* The oldest chunk goes when there are too many.                          *)
PutChunk ==
    LET entry == [key |-> WantedKey, bytes |-> main.chunk, late |-> late]
        put == Append(cache, entry)
    IN  /\ main.pc = "copy" /\ Len(main.chunk) = main.n
        /\ cache' = IF Len(put) > LRU_MAX THEN Tail(put) ELSE put
        /\ GetChunk(entry)
        /\ uses' = Uses(WantedKey)
        /\ late' = FALSE
        /\ UNCHANGED <<generation, requests, ctrl, data, tail>>

(* Back in readSync: a chunk that ends too early ends the read.            *)
TakeBytes ==
    LET n == Min({main.length - Len(main.buffer), Len(main.chunk) - Within})
    IN  /\ main.pc = "take"
        /\ IF Len(main.chunk) <= Within THEN Goto("returned")
           ELSE main' = [main EXCEPT !.pc = "loop", !.chunk = <<>>, !.n = 0,
                            !.buffer = @ \o SubSeq(main.chunk, Within + 1, Within + n)]
        /\ UNCHANGED <<cache, generation, requests, ctrl, data, tail, late, uses>>

-----------------------------------------------------------------------------
(* The worker: onmessage                                                   *)

IsWaiting == main.pc \in {"poll", "length", "copy"}

(* The bytes have arrived, or reading them failed.                         *)
BeginAnswer ==
    /\ tail = NoTail
    /\ \E r \in requests, failed \in BOOLEAN :
         /\ tail' = [gen |-> r.gen, key |-> r.key, written |-> 0,
                     pc |-> IF failed THEN "fail" ELSE "data"]
         /\ requests' = requests \ {r}
    /\ UNCHANGED <<cache, generation, ctrl, data, main, late, uses>>

Interferes == late' = (late \/ (IsWaiting /\ tail.gen # generation))

WriteByte ==
    /\ tail # NoTail /\ tail.pc = "data"
    /\ LET i == tail.written + 1
           bytes == Content(tail.key)
       IN  /\ data' = [data EXCEPT ![i] = bytes[i]]
           /\ tail' = [tail EXCEPT !.written = i,
                                   !.pc = IF i = Len(bytes) THEN "length" ELSE @]
    /\ Interferes
    /\ UNCHANGED <<cache, generation, requests, ctrl, main, uses>>

WriteLength ==
    /\ tail # NoTail /\ tail.pc \in {"length", "fail"}
    /\ ctrl' = [ctrl EXCEPT !.length = IF tail.pc = "fail" THEN -1 ELSE tail.written]
    /\ tail' = [tail EXCEPT !.pc = "signal"]
    /\ Interferes
    /\ UNCHANGED <<cache, generation, requests, data, main, uses>>

Signal ==
    /\ tail # NoTail /\ tail.pc = "signal"
    /\ ctrl' = [ctrl EXCEPT !.gen = tail.gen]
    /\ tail' = NoTail
    /\ Interferes
    /\ UNCHANGED <<cache, generation, requests, data, main, uses>>

-----------------------------------------------------------------------------
MainStep ==
    \/ EndRead \/ Return \/ Hit \/ Request \/ SeeAnswer \/ Timeout
    \/ ReadLength \/ CopyByte \/ PutChunk \/ TakeBytes

WorkerStep == BeginAnswer \/ WriteByte \/ WriteLength \/ Signal

StreamNext == BeginRead \/ MainStep \/ WorkerStep

StreamSpec == StreamInit /\ [][StreamNext]_streamVars

(* The engine runs; nothing is said of the worker, which may never answer. *)
FairStreamSpec == StreamSpec /\ WF_streamVars(MainStep)

-----------------------------------------------------------------------------
(* Properties                                                              *)

(* What a read returns is the file from its position on, as far as asked   *)
(* for and no further than the end, and what is cached is what its key     *)
(* says, also after reads that timed out or failed, unless the answer to   *)
(* one of those was written during the request itself.                     *)
ReadsReturnTheFileUnlessLate ==
    /\ \A i \in DOMAIN cache : cache[i].late \/ cache[i].bytes = Content(cache[i].key)
    /\ main.pc = "returned" /\ ~main.late =>
         main.buffer = [i \in 1..Min({main.length, SizeOf[main.source] - main.position})
                            |-> Byte(main.source, main.position + i - 1)]

(* The cache holds the chunks used last, in that order, whatever requests  *)
(* failed in between.                                                      *)
CacheHoldsWhatWasUsedLast ==
    [i \in DOMAIN cache |-> cache[i].key] = uses

(* "this terminates": every read ends, also when the worker never answers  *)
(* or its answer is overwritten by a late one.                             *)
ReadsEnd == main.pc # "idle" ~> main.pc = "idle"
=============================================================================
