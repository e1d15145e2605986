---------------------------- MODULE EpisodicMemory ----------------------------
(***************************************************************************)
(* The episodic memory L3: a collection of entries in a vector store, the  *)
(* store of their chunks (memory/episodic/), the lexical index in memory   *)
(* (memory/bm25_index.py), the cache of searches (memory/session_cache.py) *)
(* and the background tasks that fill them: the archive task of a turn     *)
(* (orchestrator.py), the enrichment after each write (memory/layers.py)   *)
(* and at the trim of the working memory (memory/auto_promote.py); the     *)
(* drain of these tasks at shutdown, and what is rebuilt at the next start.*)
(*                                                                         *)
(* Operations on the collection run in threads under one lock, so each is  *)
(* one action; what a task does with the answer, back on the event loop,   *)
(* is another.  Chunks are written and not searched (chunks_write = true,  *)
(* chunks_search = false in config/memory.toml).                           *)
(***************************************************************************)
EXTENDS Integers, FiniteSets

CONSTANTS
  MaxEntries,   \* bound: turns archived
  MaxTrims,     \* bound: turns that the working memory drops
  MaxStarts,    \* bound: starts of the process
  MaxFaults3,   \* bound: failing operations, timeouts of a drain, crashes
  CatchUpMax    \* CHUNK_CATCHUP_MAX

ASSUME L3Assumption ==
  MaxEntries \in Nat /\ MaxTrims \in 0 .. MaxEntries /\ MaxStarts \in Nat /\ MaxFaults3 \in Nat /\ CatchUpMax \in Nat

VARIABLES
  phase,      \* of the process; which drain of the shutdown
  starts, faults3,
  col,        \* the entries in the collection, numbered in the order of their turns
  chunked,    \* those in the chunk store
  marked,     \* those whose metadata are enriched
  archive,    \* archive[d]: where the archive task of d is
  enrich,     \* enrich[d]: where the enrichment after the write is
  trimmed,    \* trimmed[d]: where the enrichment at the trim of the working memory is
  docs,       \* docs[d]: how often d is in _docs of the index
  markedDocs, \* those that are enriched there
  built,      \* _bm25: none, built at the start, or late, by a search
  snapshot,   \* what a build of the index has read
  cache,      \* the cached search
  fetched,    \* what the search that will fill the cache has read
  draining,   \* the tasks the drain waits for
  early,      \* ghost: turns before the shutdown began
  race,       \* ghost: "crossed" when the cache was cleared while a search was about to fill it
  cleared     \* ghost: entries enriched at the trim, and the cache cleared after

tasks3 == <<archive, enrich, trimmed>>
index3 == <<docs, markedDocs, built, snapshot>>
cache3 == <<cache, fetched, race, cleared>>
l3vars == <<phase, starts, faults3, col, chunked, marked, tasks3, index3, cache3, draining, early>>

Entries == 1 .. MaxEntries
Views == [found : SUBSET Entries, rich : SUBSET Entries]
Nothing == [none |-> {}]
View == [found |-> col, rich |-> marked]          \* what a read of the collection returns
Answer == [rich |-> marked]                       \* and a search, as far as it matters

Archiving == {d \in Entries : archive[d] \in {"store", "index"}}
Enriching == {d \in Entries : enrich[d] \in {"update", "post"} \/ trimmed[d] \in {"update", "scan", "delete"}}

L3TypeOK ==
  /\ phase \in {"up", "drainTurns", "drainLayers", "down"} /\ starts \in 0 .. MaxStarts /\ faults3 \in 0 .. MaxFaults3
  /\ \A s \in {col, chunked, marked, markedDocs, draining, early, cleared} : s \subseteq Entries
  /\ archive \in [Entries -> {"none", "store", "index", "over"}]
  /\ enrich \in [Entries -> {"none", "update", "post", "over"}]
  /\ trimmed \in [Entries -> {"none", "update", "scan", "delete", "over"}]
  /\ docs \in [Entries -> 0 .. 2] /\ built \in {"none", "warm", "late"} /\ race \in {"clear", "crossed"}
  /\ snapshot \in Views \cup {Nothing} /\ {cache, fetched} \subseteq [rich : SUBSET Entries] \cup {Nothing}
  /\ marked \subseteq col /\ phase = "down" => Archiving = {} /\ Enriching = {}

L3Init ==
  /\ phase = "down" /\ starts = 0 /\ faults3 = 0
  /\ col = {} /\ chunked = {} /\ marked = {} /\ draining = {} /\ early = {}
  /\ archive = [d \in Entries |-> "none"] /\ enrich = archive /\ trimmed = archive
  /\ docs = [d \in Entries |-> 0] /\ markedDocs = {} /\ built = "none" /\ snapshot = Nothing
  /\ cache = Nothing /\ fetched = Nothing /\ race = "clear" /\ cleared = {}

Fault3 == faults3 < MaxFaults3 /\ faults3' = faults3 + 1

--------------------------------------------------------------------------------
\* Start: the chunk store catches up, unless too much is missing, and the index
\* is built before the first turn, unless that fails.
IndexOf(view, when) ==
  /\ docs' = [d \in Entries |-> IF d \in view.found THEN 1 ELSE 0]
  /\ markedDocs' = view.rich /\ built' = IF view.found = {} THEN "none" ELSE when

CatchUp == IF Cardinality(col \ chunked) <= CatchUpMax THEN chunked \cup col ELSE chunked

StartUp ==
  /\ phase = "down" /\ starts < MaxStarts /\ starts' = starts + 1 /\ phase' = "up"
  /\ chunked' = CatchUp
  /\ \/ IndexOf(View, "warm") /\ UNCHANGED faults3
     \/ IndexOf([found |-> {}, rich |-> {}], "warm") /\ Fault3
  /\ snapshot' = Nothing /\ early' = {} /\ draining' = {}
  /\ UNCHANGED <<col, marked, tasks3, cache3>>

\* A turn is answered and its archive task created (also the turn of a workflow
\* that completes while the shutdown drains).
Archive(d) ==
  /\ phase # "down" /\ archive[d] = "none" /\ d - 1 \in {0} \cup {e \in Entries : archive[e] # "none"}
  /\ archive' = [archive EXCEPT ![d] = "store"] /\ early' = IF phase = "up" THEN early \cup {d} ELSE early
  /\ UNCHANGED <<phase, starts, faults3, col, chunked, marked, enrich, trimmed, index3, cache3, draining>>

\* EpisodicMemory.store, in its thread; a failure of the chunk store is swallowed.
Store(d) ==
  /\ archive[d] = "store" /\ col' = col \cup {d} /\ archive' = [archive EXCEPT ![d] = "index"]
  /\ \/ chunked' = chunked \cup {d} /\ UNCHANGED faults3
     \/ UNCHANGED chunked /\ Fault3
  /\ UNCHANGED <<phase, starts, marked, enrich, trimmed, index3, cache3, draining, early>>

StoreFails(d) ==
  /\ archive[d] = "store" /\ Fault3 /\ archive' = [archive EXCEPT ![d] = "over"]
  /\ UNCHANGED <<phase, starts, col, chunked, marked, enrich, trimmed, index3, cache3, draining, early>>

\* Back in store_episodic: the entry is added to the index, its enrichment begins.
AddDoc(d) ==
  /\ archive[d] = "index" /\ archive' = [archive EXCEPT ![d] = "over"]
  /\ docs' = [docs EXCEPT ![d] = @ + 1] /\ enrich' = [enrich EXCEPT ![d] = "update"]
  /\ UNCHANGED <<phase, starts, faults3, col, chunked, marked, trimmed, markedDocs, built, snapshot, cache3,
                 draining, early>>

\* update_metadata: nothing if the entry is not there; a failure is swallowed.
UpdateMetadata(d) ==
  \/ marked' = marked \cup ({d} \cap col) /\ UNCHANGED faults3
  \/ UNCHANGED marked /\ Fault3

\* Mutant: the index is not passed on to the enrichment.
EnrichEntryAlone(d) ==
  /\ enrich[d] = "update" /\ UpdateMetadata(d) /\ enrich' = [enrich EXCEPT ![d] = "over"]
  /\ UNCHANGED <<phase, starts, col, chunked, archive, trimmed, index3, cache3, draining, early>>

EnrichEntry(d) ==
  /\ enrich[d] = "update" /\ UpdateMetadata(d) /\ enrich' = [enrich EXCEPT ![d] = "post"]
  /\ UNCHANGED <<phase, starts, col, chunked, archive, trimmed, index3, cache3, draining, early>>

EnrichDoc(d) ==
  /\ enrich[d] = "post" /\ enrich' = [enrich EXCEPT ![d] = "over"]
  /\ markedDocs' = markedDocs \cup (IF docs[d] > 0 THEN {d} ELSE {})
  /\ UNCHANGED <<phase, starts, faults3, col, chunked, marked, archive, trimmed, docs, built, snapshot, cache3,
                 draining, early>>

\* The extraction raises.
ExtractFails(d) ==
  /\ enrich[d] = "update" /\ Fault3 /\ enrich' = [enrich EXCEPT ![d] = "over"]
  /\ UNCHANGED <<phase, starts, col, chunked, marked, archive, trimmed, index3, cache3, draining, early>>

--------------------------------------------------------------------------------
\* The working memory drops the messages of d, the oldest; the index is not told.
Trim(d) ==
  /\ phase # "down" /\ archive[d] # "none" /\ trimmed[d] = "none" /\ d <= MaxTrims /\ \A e \in 1 .. d - 1 : trimmed[e] # "none"
  /\ trimmed' = [trimmed EXCEPT ![d] = "update"]
  /\ UNCHANGED <<phase, starts, faults3, col, chunked, marked, archive, enrich, index3, cache3, draining, early>>

TrimEnrich(d) ==
  /\ trimmed[d] = "update" /\ UpdateMetadata(d) /\ trimmed' = [trimmed EXCEPT ![d] = "scan"]
  /\ UNCHANGED <<phase, starts, col, chunked, archive, enrich, index3, cache3, draining, early>>

Race == IF fetched # Nothing THEN "crossed" ELSE race

\* Mutant: nothing is cleared.
ScanCacheOnly(d) ==
  /\ trimmed[d] = "scan" /\ race' = Race
  /\ trimmed' = [trimmed EXCEPT ![d] = "over"] /\ cleared' = cleared \cup ({d} \cap marked)
  /\ UNCHANGED <<phase, starts, faults3, col, chunked, marked, archive, enrich, index3, cache, fetched, draining, early>>

\* SessionCache.clear: SCAN, then DEL of the keys found.
ScanCache(d) ==
  /\ trimmed[d] = "scan" /\ race' = Race
  /\ \/ cache # Nothing /\ trimmed' = [trimmed EXCEPT ![d] = "delete"] /\ UNCHANGED cleared
     \/ cache = Nothing /\ trimmed' = [trimmed EXCEPT ![d] = "over"] /\ cleared' = cleared \cup ({d} \cap marked)
  /\ UNCHANGED <<phase, starts, faults3, col, chunked, marked, archive, enrich, index3, cache, fetched, draining, early>>

DeleteCache(d) ==
  /\ trimmed[d] = "delete" /\ cache' = Nothing /\ trimmed' = [trimmed EXCEPT ![d] = "over"]
  /\ cleared' = cleared \cup ({d} \cap marked) /\ race' = Race
  /\ UNCHANGED <<phase, starts, faults3, col, chunked, marked, archive, enrich, index3, fetched, draining, early>>

\* search_episodic_with_cache: a miss reads the collection, then fills the cache.
SearchMiss ==
  /\ phase = "up" /\ cache = Nothing /\ fetched = Nothing /\ fetched' = Answer /\ race' = "clear"
  /\ UNCHANGED <<phase, starts, faults3, col, chunked, marked, tasks3, index3, cache, cleared, draining, early>>

FillCache ==
  /\ fetched # Nothing /\ cache' = fetched /\ fetched' = Nothing
  /\ UNCHANGED <<phase, starts, faults3, col, chunked, marked, tasks3, index3, race, cleared, draining, early>>

CacheExpires ==
  /\ cache # Nothing /\ cache' = Nothing
  /\ UNCHANGED <<phase, starts, faults3, col, chunked, marked, tasks3, index3, fetched, race, cleared, draining, early>>

\* BM25Index.search builds the index when it is not: read, then replace _docs.
BeginBuild ==
  /\ phase = "up" /\ built = "none" /\ snapshot = Nothing /\ snapshot' = View
  /\ UNCHANGED <<phase, starts, faults3, col, chunked, marked, tasks3, docs, markedDocs, built, cache3, draining, early>>

EndBuild ==
  /\ snapshot # Nothing /\ IndexOf(snapshot, "late") /\ snapshot' = Nothing
  /\ UNCHANGED <<phase, starts, faults3, col, chunked, marked, tasks3, cache3, draining, early>>

--------------------------------------------------------------------------------
\* post_shutdown: the orchestrator drains the archive tasks there are, then the
\* layers drain their own, each with a timeout that cancels what it waited for.
ShutDown ==
  /\ phase = "up" /\ phase' = "drainTurns" /\ draining' = Archiving
  /\ UNCHANGED <<starts, faults3, col, chunked, marked, tasks3, index3, cache3, early>>

\* Mutant: the tasks of the layers are not tracked.
TurnsDrainedOnly ==
  /\ phase = "drainTurns" /\ draining \cap Archiving = {} /\ phase' = "drainLayers" /\ draining' = {}
  /\ UNCHANGED <<starts, faults3, col, chunked, marked, tasks3, index3, cache3, early>>

TurnsDrained ==
  /\ phase = "drainTurns" /\ draining \cap Archiving = {}
  /\ phase' = "drainLayers" /\ draining' = Enriching
  /\ UNCHANGED <<starts, faults3, col, chunked, marked, tasks3, index3, cache3, early>>

Off ==
  /\ phase' = "down" /\ draining' = {} /\ fetched' = Nothing /\ snapshot' = Nothing
  /\ archive' = [d \in Entries |-> IF archive[d] = "none" THEN "none" ELSE "over"]
  /\ enrich' = [d \in Entries |-> IF enrich[d] = "none" THEN "none" ELSE "over"]
  /\ trimmed' = [d \in Entries |-> IF trimmed[d] = "none" THEN "none" ELSE "over"]
  /\ UNCHANGED <<starts, col, chunked, marked, docs, markedDocs, built, cache, race, cleared, early>>

LayersDrained == phase = "drainLayers" /\ draining \cap Enriching = {} /\ Off /\ UNCHANGED faults3

\* The timeout of the first drain cancels the tasks it waits for.
DrainTimesOut ==
  /\ phase = "drainTurns" /\ draining \cap Archiving # {} /\ Fault3
  /\ archive' = [d \in Entries |-> IF d \in draining THEN "over" ELSE archive[d]]
  /\ phase' = "drainLayers" /\ draining' = Enriching
  /\ UNCHANGED <<starts, col, chunked, marked, enrich, trimmed, index3, cache3, early>>

\* The second drain times out, os.execv replaces the process without any, or it crashes.
Cut == phase # "down" /\ Fault3 /\ Off

L3Next ==
  \/ \E d \in Entries :
       \/ Archive(d) \/ Store(d) \/ StoreFails(d) \/ AddDoc(d) \/ EnrichEntry(d) \/ EnrichDoc(d) \/ ExtractFails(d)
       \/ Trim(d) \/ TrimEnrich(d) \/ ScanCache(d) \/ DeleteCache(d)
  \/ StartUp \/ SearchMiss \/ FillCache \/ CacheExpires \/ BeginBuild \/ EndBuild
  \/ ShutDown \/ TurnsDrained \/ DrainTimesOut \/ LayersDrained \/ Cut

L3Spec == L3Init /\ [][L3Next]_l3vars

--------------------------------------------------------------------------------
\* The index that was built before the turns began holds exactly the entries of
\* the collection, each once; without faults, and as soon as no task is under
\* way, the two agree on what is enriched, but for entries enriched at a trim.
IndexAgrees ==
  phase = "up" /\ built = "warm" /\ Archiving = {} =>
    /\ \A d \in Entries : docs[d] = IF d \in col THEN 1 ELSE 0
    /\ faults3 = 0 /\ Enriching = {} =>
         markedDocs \subseteq marked /\ \A d \in marked \ markedDocs : trimmed[d] = "over"

\* Collection and index, each of its shape, tell the same.
IndexKept == L3TypeOK /\ IndexAgrees

\* The drains lose nothing of the turns answered before the shutdown began:
\* unless something failed, each is in the collection, enriched and chunked.
DrainComplete ==
  phase = "down" /\ faults3 = 0 => early \subseteq marked \cap chunked

\* A cached search shows every entry that was enriched when the working memory
\* dropped it, unless it had read the memory before that and filled the cache
\* after the clearing.
CacheFresh == cache # Nothing /\ race = "clear" => cleared \subseteq cache.rich
================================================================================
