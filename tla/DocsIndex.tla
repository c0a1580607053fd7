----------------------------- MODULE DocsIndex -----------------------------
(***************************************************************************)
(* The documentation index and what answers from it: the file and its      *)
(* indexers (agent/rag/indexer.py), /reindex (agent/slash.py), RagStore    *)
(* (agent/rag/store.py), DocsCache (agent/rag/cache.py) and docs_search    *)
(* (agent/tools/registry.py).                                              *)
(*                                                                         *)
(* /reindex and docs_search run on the event loop: between two awaits they *)
(* are alone there, but not in the process.  The reload after a /reindex   *)
(* runs in a thread, which may be switched in between any two reads or     *)
(* writes of the store, and the command-line indexer is another process,   *)
(* which sees the same directory.                                          *)
(***************************************************************************)
EXTENDS Integers, Picking

CONSTANTS
    Reindexes,   \* the /reindex commands of a behaviour
    Indexers,    \* the runs of python -m agent.rag.indexer
    Searches,    \* the docs_search calls
    Queries,     \* normalised queries; k is part of one
    QueryOf,     \* what each search asks
    CacheSize,   \* agent_docs_cache_size; 0 disables the cache
    Original,    \* the index that is there from the start
    NoIndex,     \* no index: no file, an unreadable one, an empty store
    Free         \* nobody has it: the event loop, the reindex lock

Builders == Reindexes \cup Indexers
Versions == Builders \cup {Original}

ASSUME DocsIndexAssumption ==
    /\ Reindexes \cap Indexers = {}
    /\ Original \notin Builders
    /\ NoIndex \notin Versions
    /\ Free \notin Versions \cup Searches
    /\ Searches \cap Builders = {}
    /\ QueryOf \in [Searches -> Queries]
    /\ CacheSize \in Nat

VARIABLES
    (* The directory.  A file is named for whoever created it. *)
    path,        \* the file at agent_index_path, or NoIndex
    tmp,         \* the file at that path with .tmp, or NoIndex
    fd,          \* the file each builder has opened
    wrote,       \* by file: who has written to it since it was truncated
    (* The builders. *)
    job,         \* where each is
    lock,        \* _reindex_lock
    (* RagStore, and the thread of each reload. *)
    loaded,      \* get_store() has been called
    index,       \* _index
    units,       \* _unit_chunks: the index they were normalised from
    load,        \* where each thread is
    local,       \* what it has normalised
    (* DocsCache, least recently used first. *)
    cache, generation,
    (* docs_search. *)
    search, chunks, answer,
    loop         \* who is in the middle of a step of the event loop

fileVars == <<path, tmp, fd, wrote>>
storeVars == <<loaded, index, units>>
threadVars == <<load, local>>
cacheVars == <<cache, generation>>
searchVars == <<search, chunks, answer>>
vars == <<fileVars, job, lock, storeVars, threadVars, cacheVars, searchVars, loop>>

(* Hits are told apart by the index their texts come from and the one whose *)
(* vectors scored them; without either list there are none.                 *)
NoHits == <<>>
Hits == {NoHits} \cup (Versions \X Versions)

Entry == [query : Queries, generation : Nat, hits : Hits]

(* In the section that _reindex_lock guards. *)
Guarded == {"building", "writing", "written", "reloading", "finishing", "abandoned"}

(* Files, builders, threads, store and cache in their ranges; the cache      *)
(* never holds more entries than max_entries.                                *)
DocsTypeOK ==
    /\ path \in Versions \cup {NoIndex}
    /\ tmp \in Builders \cup {NoIndex}
    /\ fd \in [Builders -> Builders \cup {NoIndex}]
    /\ wrote \in [Versions -> SUBSET Versions]
    /\ job \in [Builders -> {"new", "refused", "over", "cut"} \cup Guarded]
    /\ lock \in Reindexes \cup {Free}
    /\ loaded \in BOOLEAN
    /\ index \in Versions \cup {NoIndex}
    /\ units \in Versions \cup {NoIndex}
    /\ load \in [Reindexes -> {"idle", "read", "normalise", "assign", "log",
                               "failing", "clearing", "done"}]
    /\ local \in [Reindexes -> Versions \cup {NoIndex}]
    /\ cache \in Seq(Entry)
    /\ Len(cache) <= CacheSize
    /\ generation \in Nat
    /\ search \in [Searches -> {"new", "embedding", "ranking", "scoring",
                                "answered", "not_ready", "failed"}]
    /\ chunks \in [Searches -> Versions \cup {NoIndex}]
    /\ answer \in [Searches -> Hits]
    /\ loop \in Reindexes \cup Searches \cup {Free}

Init ==
    /\ path \in {Original, NoIndex}
    /\ tmp = NoIndex
    /\ fd = [b \in Builders |-> NoIndex]
    /\ wrote = [v \in Versions |-> {v} \cap {Original}]
    /\ job = [b \in Builders |-> "new"]
    /\ lock = Free
    /\ loaded = FALSE
    /\ index = NoIndex
    /\ units = NoIndex
    /\ load = [r \in Reindexes |-> "idle"]
    /\ local = [r \in Reindexes |-> NoIndex]
    /\ cache = <<>>
    /\ generation = 0
    /\ search = [s \in Searches |-> "new"]
    /\ chunks = [s \in Searches |-> NoIndex]
    /\ answer = [s \in Searches |-> NoHits]
    /\ loop = Free

-----------------------------------------------------------------------------
(* The index a file holds: one builder's, if that one alone has written it  *)
(* and has closed it.  Anything else _read_index cannot parse.              *)
Content(file) ==
    IF \E v \in Versions : file # NoIndex /\ wrote[file] = {v}
                              /\ (v \in Builders => job[v] # "writing")
    THEN CHOOSE v \in Versions : wrote[file] = {v}
    ELSE NoIndex

(* get_store(): the first call loads the index, on the event loop. *)
GetStore(disk) ==
    /\ loaded' = TRUE
    /\ IF loaded THEN UNCHANGED <<index, units>>
                 ELSE index' = disk /\ units' = disk

JobMoves(b, from, to) ==
    /\ job[b] = from
    /\ job' = [job EXCEPT ![b] = to]

-----------------------------------------------------------------------------
(* /reindex, up to the build. *)

(* Slip: nobody looks at the lock. *)
StartReindexUnlocked(r) ==
    /\ loop = Free
    /\ JobMoves(r, "new", "building")
    /\ lock' = r
    /\ UNCHANGED <<fileVars, storeVars, threadVars, cacheVars, searchVars, loop>>

(* locked() and the lock's acquisition: no await between them. *)
StartReindex(r) ==
    /\ loop = Free /\ lock = Free
    /\ JobMoves(r, "new", "building")
    /\ lock' = r
    /\ UNCHANGED <<fileVars, storeVars, threadVars, cacheVars, searchVars, loop>>

RefuseReindex(r) ==
    /\ loop = Free /\ lock # Free
    /\ JobMoves(r, "new", "refused")
    /\ UNCHANGED <<fileVars, lock, storeVars, threadVars, cacheVars, searchVars,
                   loop>>

(* The command-line indexer asks nobody. *)
StartIndexer(b) ==
    /\ b \in Indexers
    /\ JobMoves(b, "new", "building")
    /\ UNCHANGED <<fileVars, lock, storeVars, threadVars, cacheVars, searchVars,
                   loop>>

(* Fetching or embedding fails; the error is reported under the lock. *)
BuildFails(b) ==
    /\ b \in Reindexes => loop = Free
    /\ JobMoves(b, "building", IF b \in Reindexes THEN "finishing" ELSE "over")
    /\ UNCHANGED <<fileVars, lock, storeVars, threadVars, cacheVars, searchVars,
                   loop>>

-----------------------------------------------------------------------------
(* build_index_iter, from gzip.open to the rename.  A /reindex does not     *)
(* leave the event loop here.                                               *)
EnterLoop(b) == IF b \in Reindexes THEN loop = Free /\ loop' = b
                                   ELSE UNCHANGED loop
LeaveLoop(b) == loop' = IF loop = b THEN Free ELSE loop

(* Opening for writing creates the file or truncates the one there; who     *)
(* else has it open writes on.                                              *)
OpenTmp(b) ==
    /\ JobMoves(b, "building", "writing")
    /\ EnterLoop(b)
    /\ LET file == IF tmp = NoIndex THEN b ELSE tmp
           others == {o \in Builders : job[o] = "writing" /\ fd[o] = file}
       IN  /\ tmp' = file
           /\ fd' = [fd EXCEPT ![b] = file]
           /\ wrote' = [wrote EXCEPT ![file] = {b} \cup others]
    /\ UNCHANGED <<path, lock, storeVars, threadVars, cacheVars, searchVars>>

CloseTmp(b) ==
    /\ JobMoves(b, "writing", "written")
    /\ UNCHANGED <<fileVars, lock, storeVars, threadVars, cacheVars, searchVars,
                   loop>>

(* Slip: the rename is not skipped when the write fails. *)
WriteFailsRenames(b) ==
    /\ JobMoves(b, "writing", IF b \in Reindexes THEN "finishing" ELSE "over")
    /\ wrote' = [wrote EXCEPT ![fd[b]] = {}]
    /\ path' = tmp
    /\ tmp' = NoIndex
    /\ LeaveLoop(b)
    /\ UNCHANGED <<fd, lock, storeVars, threadVars, cacheVars, searchVars>>

(* The disk is full, or the indexer is killed. *)
WriteFails(b) ==
    /\ JobMoves(b, "writing", IF b \in Reindexes THEN "finishing" ELSE "over")
    /\ wrote' = [wrote EXCEPT ![fd[b]] = {}]
    /\ LeaveLoop(b)
    /\ UNCHANGED <<path, tmp, fd, lock, storeVars, threadVars, cacheVars,
                   searchVars>>

(* The file that has the name now is the one renamed. *)
Replace == tmp # NoIndex /\ path' = tmp /\ tmp' = NoIndex

(* The index is in place and audited, and a thread is started to reload it. *)
ReplaceAndReload(r) ==
    /\ r \in Reindexes
    /\ JobMoves(r, "written", "reloading")
    /\ Replace
    /\ GetStore(Content(tmp))
    /\ load' = [load EXCEPT ![r] = "read"]
    /\ LeaveLoop(r)
    /\ UNCHANGED <<fd, wrote, lock, local, cacheVars, searchVars>>

(* The command-line indexer has done its work; or audit("reindex", "ok")    *)
(* raised, and there is no reload.                                          *)
ReplaceOnly(b) ==
    /\ JobMoves(b, "written", IF b \in Reindexes THEN "finishing" ELSE "over")
    /\ Replace
    /\ LeaveLoop(b)
    /\ UNCHANGED <<fd, wrote, lock, storeVars, threadVars, cacheVars, searchVars>>

(* Another builder has renamed the file already. *)
ReplaceFails(b) ==
    /\ JobMoves(b, "written", IF b \in Reindexes THEN "finishing" ELSE "over")
    /\ tmp = NoIndex
    /\ LeaveLoop(b)
    /\ UNCHANGED <<fileVars, lock, storeVars, threadVars, cacheVars, searchVars>>

Build(b) ==
    \/ BuildFails(b) \/ OpenTmp(b) \/ CloseTmp(b) \/ WriteFails(b)
    \/ ReplaceAndReload(b) \/ ReplaceOnly(b) \/ ReplaceFails(b)

-----------------------------------------------------------------------------
(* /reindex, after the build. *)

(* Slip: the cache is emptied while the reload is still at work. *)
BumpBeforeReload(r) ==
    /\ loop = Free
    /\ JobMoves(r, "reloading", "finishing")
    /\ generation' = generation + 1
    /\ cache' = <<>>
    /\ UNCHANGED <<fileVars, lock, storeVars, threadVars, searchVars, loop>>

(* The thread has returned, whatever it returned. *)
Bump(r) ==
    /\ loop = Free
    /\ load[r] = "done"
    /\ JobMoves(r, "reloading", "finishing")
    /\ generation' = generation + 1
    /\ cache' = <<>>
    /\ UNCHANGED <<fileVars, lock, storeVars, threadVars, searchVars, loop>>

Finish(r) ==
    /\ loop = Free
    /\ JobMoves(r, "finishing", "over")
    /\ lock' = Free
    /\ UNCHANGED <<fileVars, storeVars, threadVars, cacheVars, searchVars, loop>>

(* The client is lost.  In an await the command is cancelled there, and the *)
(* lock is released on the way out; the thread of a reload runs on.         *)
Cancelled(r) ==
    /\ loop = Free
    /\ \/ JobMoves(r, "building", "over")
       \/ JobMoves(r, "reloading", "cut")
    /\ lock' = Free
    /\ UNCHANGED <<fileVars, storeVars, threadVars, cacheVars, searchVars, loop>>

(* At a yield the generator is left suspended, and closed later. *)
Abandoned(r) ==
    /\ loop = Free
    /\ JobMoves(r, "building", "abandoned") \/ JobMoves(r, "finishing", "abandoned")
    /\ UNCHANGED <<fileVars, lock, storeVars, threadVars, cacheVars, searchVars,
                   loop>>

(* Slip: the lock is given back only by a command that reloaded. *)
ClosedIfReloaded(r) ==
    /\ loop = Free
    /\ load[r] = "done"
    /\ JobMoves(r, "abandoned", "over")
    /\ lock' = Free
    /\ UNCHANGED <<fileVars, storeVars, threadVars, cacheVars, searchVars, loop>>

Closed(r) ==
    /\ loop = Free
    /\ JobMoves(r, "abandoned", "over")
    /\ lock' = Free
    /\ UNCHANGED <<fileVars, storeVars, threadVars, cacheVars, searchVars, loop>>

Reindex(r) ==
    \/ StartReindex(r) \/ RefuseReindex(r) \/ Bump(r) \/ Finish(r)
    \/ Cancelled(r) \/ Abandoned(r) \/ Closed(r)

-----------------------------------------------------------------------------
(* reload() in its thread: one step per read or write of the store. *)
LoadMoves(r, from, to) ==
    /\ load[r] = from
    /\ load' = [load EXCEPT ![r] = to]
    /\ UNCHANGED <<fileVars, job, lock, loaded, cacheVars, searchVars, loop>>

LoadRead(r) ==
    /\ Content(path) # NoIndex
    /\ LoadMoves(r, "read", "normalise")
    /\ index' = Content(path)
    /\ UNCHANGED <<units, local>>

LoadUnreadable(r) ==
    /\ Content(path) = NoIndex
    /\ LoadMoves(r, "read", "failing")
    /\ UNCHANGED <<index, units, local>>

(* self._index is read again here, and once more for the log line: an index *)
(* another thread has taken away meanwhile is an exception.                 *)
LoadNormalise(r) ==
    /\ index # NoIndex
    /\ LoadMoves(r, "normalise", "assign")
    /\ local' = [local EXCEPT ![r] = index]
    /\ UNCHANGED <<index, units>>

LoadAssign(r) ==
    /\ LoadMoves(r, "assign", "log")
    /\ units' = local[r]
    /\ UNCHANGED <<index, local>>

LoadLog(r) ==
    /\ index # NoIndex
    /\ LoadMoves(r, "log", "done")
    /\ UNCHANGED <<index, units, local>>

LoadRaises(r) ==
    /\ index = NoIndex
    /\ LoadMoves(r, "normalise", "failing") \/ LoadMoves(r, "log", "failing")
    /\ UNCHANGED <<index, units, local>>

LoadDropsIndex(r) ==
    /\ LoadMoves(r, "failing", "clearing")
    /\ index' = NoIndex
    /\ UNCHANGED <<units, local>>

(* Slip: a failed load leaves the old vectors. *)
LoadKeepsUnits(r) ==
    /\ LoadMoves(r, "clearing", "done")
    /\ UNCHANGED <<index, units, local>>

LoadDropsUnits(r) ==
    /\ LoadMoves(r, "clearing", "done")
    /\ units' = NoIndex
    /\ UNCHANGED <<index, local>>

Load(r) ==
    \/ LoadRead(r) \/ LoadUnreadable(r) \/ LoadNormalise(r) \/ LoadAssign(r)
    \/ LoadLog(r) \/ LoadRaises(r) \/ LoadDropsIndex(r) \/ LoadDropsUnits(r)

-----------------------------------------------------------------------------
(* docs_search and the cache. *)
SearchMoves(s, from, to) ==
    /\ search[s] = from
    /\ search' = [search EXCEPT ![s] = to]
    /\ UNCHANGED <<fileVars, job, lock, threadVars>>

CacheWithout(q) == Picked(cache, {n \in DOMAIN cache : cache[n].query # q})

(* Slip: the cache is never too full. *)
PutUnbounded(q, hits) ==
    LET entry == [query |-> q, generation |-> generation, hits |-> hits]
    IN  /\ cache' = IF CacheSize = 0 THEN cache
                    ELSE Append(CacheWithout(q), entry)
        /\ UNCHANGED generation

(* DocsCache.put; the oldest entry goes when there is no room. *)
Put(q, hits) ==
    LET entry == [query |-> q, generation |-> generation, hits |-> hits]
        full == Append(CacheWithout(q), entry)
    IN  /\ cache' = IF CacheSize = 0 THEN cache
                    ELSE IF Len(full) > CacheSize THEN Tail(full) ELSE full
        /\ UNCHANGED generation

SearchNotReady(s) ==
    /\ loop = Free
    /\ SearchMoves(s, "new", "not_ready")
    /\ GetStore(Content(path))
    /\ index' = NoIndex
    /\ UNCHANGED <<cacheVars, chunks, answer, loop>>

(* DocsCache.get finds an entry of this generation and moves it to the end. *)
SearchHit(s) ==
    /\ loop = Free
    /\ SearchMoves(s, "new", "answered")
    /\ GetStore(Content(path))
    /\ index' # NoIndex
    /\ \E n \in 1 .. Len(cache) :
          /\ cache[n].query = QueryOf[s]
          /\ cache[n].generation = generation
          /\ cache' = Append(CacheWithout(QueryOf[s]), cache[n])
          /\ answer' = [answer EXCEPT ![s] = cache[n].hits]
    /\ UNCHANGED <<generation, chunks, loop>>

(* There is no entry, or one that is dropped: of another generation, or     *)
(* past its time to live, which any entry may be.                           *)
SearchMiss(s) ==
    /\ loop = Free
    /\ SearchMoves(s, "new", "embedding")
    /\ GetStore(Content(path))
    /\ index' # NoIndex
    /\ cache' = CacheWithout(QueryOf[s])
    /\ UNCHANGED <<generation, chunks, answer, loop>>

(* The query could not be embedded, or the turn is dropped meanwhile. *)
EmbedFails(s) ==
    /\ loop = Free
    /\ SearchMoves(s, "embedding", "failed")
    /\ UNCHANGED <<storeVars, cacheVars, chunks, answer, loop>>

(* rank(): its first test, and the two reads of its "local snapshot".       *)
Embedded(s) ==
    /\ loop = Free
    /\ index # NoIndex /\ units # NoIndex
    /\ SearchMoves(s, "embedding", "ranking")
    /\ loop' = s
    /\ UNCHANGED <<storeVars, cacheVars, chunks, answer>>

EmbeddedTooLate(s) ==
    /\ loop = Free
    /\ index = NoIndex \/ units = NoIndex
    /\ SearchMoves(s, "embedding", "answered")
    /\ answer' = [answer EXCEPT ![s] = NoHits]
    /\ Put(QueryOf[s], NoHits)
    /\ UNCHANGED <<storeVars, chunks, loop>>

ReadChunks(s) ==
    /\ index # NoIndex
    /\ SearchMoves(s, "ranking", "scoring")
    /\ chunks' = [chunks EXCEPT ![s] = index]
    /\ UNCHANGED <<storeVars, cacheVars, answer, loop>>

ReadChunksRaises(s) ==
    /\ index = NoIndex
    /\ SearchMoves(s, "ranking", "failed")
    /\ loop' = Free
    /\ UNCHANGED <<storeVars, cacheVars, chunks, answer>>

(* The hits are scored, returned and cached; no await from here on. *)
ReadUnits(s) ==
    /\ SearchMoves(s, "scoring", "answered")
    /\ LET hits == IF units = NoIndex THEN NoHits ELSE <<chunks[s], units>>
       IN  /\ answer' = [answer EXCEPT ![s] = hits]
           /\ Put(QueryOf[s], hits)
    /\ loop' = Free
    /\ UNCHANGED <<storeVars, chunks>>

Search(s) ==
    \/ SearchNotReady(s) \/ SearchHit(s) \/ SearchMiss(s) \/ EmbedFails(s)
    \/ Embedded(s) \/ EmbeddedTooLate(s)
    \/ ReadChunks(s) \/ ReadChunksRaises(s) \/ ReadUnits(s)

Next ==
    \/ \E r \in Reindexes : Reindex(r) \/ Load(r)
    \/ \E b \in Builders : StartIndexer(b) \/ Build(b)
    \/ \E s \in Searches : Search(s)

(* Fetches and embeddings time out, threads are scheduled, and the event    *)
(* loop resumes what it suspended and closes what was abandoned.            *)
Fairness ==
    /\ \A r \in Reindexes :
          WF_vars(Build(r)) /\ WF_vars(Load(r))
              /\ SF_vars(Bump(r)) /\ SF_vars(Finish(r)) /\ SF_vars(Closed(r))
    /\ \A s \in Searches : WF_vars(Search(s))

Spec == Init /\ [][Next]_vars /\ Fairness

-----------------------------------------------------------------------------
(* No reload is at work, and none is over without its bump. *)
Quiet ==
    /\ \A r \in Reindexes : load[r] \in {"idle", "done"}
    /\ \A r \in Reindexes : job[r] # "reloading"

NeverCut == \A r \in Reindexes : job[r] # "cut"

(* Between reloads the vectors that score are those of the chunks they      *)
(* score, whatever was on disk to be loaded; unless a /reindex was          *)
(* cancelled during its reload, which lets two reloads meet.                *)
StoreWhole == Quiet /\ NeverCut => units = index

Current == IF index = NoIndex THEN NoHits ELSE <<index, index>>

(* cache.py:7-9, "cached hits from an older index version are dropped":     *)
(* between reloads all the cache can give is what the present index gives,  *)
(* although a search is suspended between its look in the cache and its put *)
(* and a reload may come and go meanwhile.                                  *)
CacheCurrent ==
    Quiet => \A n \in 1 .. Len(cache) :
                cache[n].generation = generation => cache[n].hits = Current

CacheCurrentUnlessCut == NeverCut => CacheCurrent

(* One reindex at a time: the lock is held by the one command that is in    *)
(* the guarded section, and by nobody when none is.                         *)
LockGuards ==
    \A r \in Reindexes : lock = r <=> job[r] \in Guarded

(* indexer.py:147, "Atomic swap: write to tmp, rename onto target": the     *)
(* file at agent_index_path, if there is one, can be read at any time.      *)
FileWhole == path # NoIndex => Content(path) # NoIndex

(* store.py:205, "so a concurrent reload() can't swap the vector list out   *)
(* from under the loop mid-search": the texts of a search's hits and their  *)
(* scores come from one index.                                              *)
AnswersWhole ==
    \A s \in Searches : answer[s] # NoHits => answer[s][1] = answer[s][2]

(* A /reindex that began comes to its end and gives the lock back, however  *)
(* it goes and whenever its client is lost.                                 *)
ReindexEnds ==
    \A r \in Reindexes : job[r] \in Guarded ~> job[r] \in {"over", "cut"}
=============================================================================
