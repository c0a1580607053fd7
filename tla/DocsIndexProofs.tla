--------------------------- MODULE DocsIndexProofs ---------------------------
(* Proofs about DocsIndex, for any number of commands, indexers and searches. *)
EXTENDS DocsIndex, SequenceLemmas

JobStates == {"new", "refused", "over", "cut"} \cup Guarded

(* The part of the types that the lock needs. *)
JobType == job \in [Builders -> JobStates]

LockInv == JobType /\ LockGuards

-----------------------------------------------------------------------------
(* A builder that moves, and stays on its side of the lock.                   *)
LEMMA SameSide ==
  ASSUME LockInv, NEW b \in Builders, NEW from, NEW to \in JobStates,
         JobMoves(b, from, to),
         b \in Reindexes => (from \in Guarded <=> to \in Guarded),
         lock' = lock
  PROVE  LockInv'
<1>1. job' \in [Builders -> JobStates]
  BY DEF LockInv, JobType, JobMoves
<1>2. ASSUME NEW r \in Reindexes PROVE lock = r <=> job'[r] \in Guarded
  <2>1. r \in Builders /\ (lock = r <=> job[r] \in Guarded)
    BY DEF Builders, LockInv, LockGuards
  <2>2. CASE r = b
    BY <2>1, <2>2 DEF LockInv, JobType, JobMoves
  <2>3. CASE r # b
    BY <2>1, <2>3 DEF LockInv, JobType, JobMoves
  <2>. QED BY <2>2, <2>3
<1>. QED BY <1>1, <1>2 DEF LockInv, JobType, LockGuards

(* A command that leaves the section and gives the lock back.                 *)
LEMMA GivesBack ==
  ASSUME LockInv, NEW r \in Reindexes, NEW from \in Guarded,
         NEW to \in JobStates \ Guarded, JobMoves(r, from, to), lock' = Free
  PROVE  LockInv'
<1>1. r \in Builders
  BY DEF Builders
<1>2. job' \in [Builders -> JobStates]
  BY <1>1 DEF LockInv, JobType, JobMoves
<1>3. ASSUME NEW q \in Reindexes PROVE Free # q /\ job'[q] \notin Guarded
  <2>1. q \in Builders /\ (lock = q <=> job[q] \in Guarded)
    BY DEF Builders, LockInv, LockGuards
  <2>2. lock = r
    BY DEF LockInv, LockGuards, JobMoves
  <2>3. Free # q
    BY <2>1, DocsIndexAssumption DEF Versions
  <2>4. CASE q = r
    BY <1>1, <2>3, <2>4 DEF LockInv, JobType, JobMoves
  <2>5. CASE q # r
    BY <1>1, <2>1, <2>2, <2>3, <2>5 DEF LockInv, JobType, JobMoves
  <2>. QED BY <2>4, <2>5
<1>. QED BY <1>2, <1>3 DEF LockInv, JobType, LockGuards

LEMMA LockInvAtFirst == Init => LockInv
BY DocsIndexAssumption
   DEF Init, LockInv, JobType, JobStates, LockGuards, Guarded, Builders, Versions

LEMMA LockInvReindex ==
  ASSUME LockInv, NEW r \in Reindexes, Reindex(r)
  PROVE  LockInv'
<1>1. r \in Builders
  BY DEF Builders
<1>2. CASE StartReindex(r)
  <2>1. lock = Free /\ lock' = r /\ JobMoves(r, "new", "building")
    BY <1>2 DEF StartReindex
  <2>2. job' \in [Builders -> JobStates]
    BY <1>1, <2>1 DEF LockInv, JobType, JobMoves, JobStates, Guarded
  <2>3. ASSUME NEW q \in Reindexes PROVE r = q <=> job'[q] \in Guarded
    <3>1. q \in Builders /\ job[q] \notin Guarded
      BY <2>1, DocsIndexAssumption
         DEF Builders, Versions, LockInv, LockGuards
    <3>. QED BY <1>1, <2>1, <3>1 DEF LockInv, JobType, JobMoves, Guarded
  <2>. QED BY <2>1, <2>2, <2>3 DEF LockInv, JobType, LockGuards
<1>3. CASE RefuseReindex(r)
  BY <1>1, <1>3, SameSide DEF RefuseReindex, JobStates, Guarded
<1>4. CASE Bump(r)
  BY <1>1, <1>4, SameSide DEF Bump, JobStates, Guarded
<1>5. CASE Finish(r)
  BY <1>5, GivesBack DEF Finish, JobStates, Guarded
<1>6. CASE Cancelled(r)
  <2>1. /\ lock' = Free
        /\ JobMoves(r, "building", "over") \/ JobMoves(r, "reloading", "cut")
    BY <1>6 DEF Cancelled
  <2>. QED BY <2>1, GivesBack DEF JobStates, Guarded
<1>7. CASE Abandoned(r)
  <2>1. /\ lock' = lock
        /\ JobMoves(r, "building", "abandoned")
             \/ JobMoves(r, "finishing", "abandoned")
    BY <1>7 DEF Abandoned
  <2>. QED BY <1>1, <2>1, SameSide DEF JobStates, Guarded
<1>8. CASE Closed(r)
  BY <1>8, GivesBack DEF Closed, JobStates, Guarded
<1>. QED BY <1>2, <1>3, <1>4, <1>5, <1>6, <1>7, <1>8 DEF Reindex

LEMMA LockInvBuild ==
  ASSUME LockInv, NEW b \in Builders, Build(b)
  PROVE  LockInv'
<1>. DEFINE failed == IF b \in Reindexes THEN "finishing" ELSE "over"
<1>1. failed \in JobStates /\ (b \in Reindexes => failed \in Guarded)
  BY DEF JobStates, Guarded
<1>2. lock' = lock
  BY DEF Build, BuildFails, OpenTmp, CloseTmp, WriteFails, ReplaceAndReload,
         ReplaceOnly, ReplaceFails
<1>3. \/ JobMoves(b, "building", failed) \/ JobMoves(b, "building", "writing")
      \/ JobMoves(b, "writing", "written") \/ JobMoves(b, "writing", failed)
      \/ JobMoves(b, "written", "reloading") \/ JobMoves(b, "written", failed)
  BY DEF Build, BuildFails, OpenTmp, CloseTmp, WriteFails, ReplaceAndReload,
         ReplaceOnly, ReplaceFails
<1>4. {"building", "writing", "written", "reloading"} \subseteq Guarded
          /\ Guarded \subseteq JobStates
  BY DEF JobStates, Guarded
<1>. HIDE DEF failed
<1>. QED BY <1>1, <1>2, <1>3, <1>4, SameSide

(* Searches and reload threads have nothing to do with the lock.              *)
LEMMA LoadOrSearchKeepsJobs ==
  /\ \A r \in Reindexes : Load(r) => UNCHANGED <<job, lock>>
  /\ \A s \in Searches : Search(s) => UNCHANGED <<job, lock>>
BY DEF Load, LoadRead, LoadUnreadable, LoadNormalise, LoadAssign, LoadLog,
       LoadRaises, LoadDropsIndex, LoadDropsUnits, LoadMoves,
       Search, SearchNotReady, SearchHit, SearchMiss, EmbedFails, Embedded,
       EmbeddedTooLate, ReadChunks, ReadChunksRaises, ReadUnits, SearchMoves

LEMMA LockInvInductive == LockInv /\ [Next]_vars => LockInv'
<1>. SUFFICES ASSUME LockInv, [Next]_vars PROVE LockInv'
  OBVIOUS
<1>1. ASSUME NEW r \in Reindexes, Reindex(r) PROVE LockInv'
  BY <1>1, LockInvReindex
<1>2. ASSUME NEW b \in Builders, StartIndexer(b) PROVE LockInv'
  <2>1. /\ JobMoves(b, "new", "building") /\ lock' = lock
        /\ b \notin Reindexes
    BY <1>2, DocsIndexAssumption DEF StartIndexer
  <2>. QED BY <2>1, SameSide DEF JobStates, Guarded
<1>3. ASSUME NEW b \in Builders, Build(b) PROVE LockInv'
  BY <1>3, LockInvBuild
<1>4. ASSUME UNCHANGED <<job, lock>> PROVE LockInv'
  BY <1>4 DEF LockInv, JobType, LockGuards
<1>5. CASE UNCHANGED vars
  BY <1>4, <1>5 DEF vars
<1>. QED BY <1>1, <1>2, <1>3, <1>4, <1>5, LoadOrSearchKeepsJobs DEF Next

(* The lock is held by the one command that is in the section it guards.      *)
THEOREM LockGuardsHolds == Spec => []LockGuards
<1>1. LockInv => LockGuards
  BY DEF LockInv
<1>. QED BY <1>1, LockInvAtFirst, LockInvInductive, PTL DEF Spec

-----------------------------------------------------------------------------
LoadStates == {"idle", "read", "normalise", "assign", "log", "failing",
               "clearing", "done"}

Reloading(r) == job[r] = "reloading"

(* How far the store is when the thread of the one reload is where it is.     *)
StoreFits(r) ==
    /\ load[r] # "idle"
    /\ load[r] = "assign" => local[r] = index
    /\ load[r] \in {"log", "done"} => units = index
    /\ load[r] = "clearing" => index = NoIndex

(* A thread is at work only for the command that waits for it, and while none *)
(* waits the store is of one index.                                           *)
StoreOfOneIndex ==
    /\ \A r \in Reindexes : load[r] \in {"idle", "done"} \/ Reloading(r)
    /\ \A r \in Reindexes : Reloading(r) => StoreFits(r)
    /\ (\A r \in Reindexes : ~ Reloading(r)) => units = index

(* Before get_store() was called nothing was loaded.                          *)
NotLoaded ==
    ~ loaded => units = index /\ \A r \in Reindexes : load[r] = "idle"

ThreadType ==
    /\ load \in [Reindexes -> LoadStates]
    /\ local = [r \in Reindexes |-> local[r]]
    /\ loaded \in BOOLEAN

StoreInv ==
    /\ LockInv /\ ThreadType
    /\ NotLoaded
    /\ NeverCut => StoreOfOneIndex

-----------------------------------------------------------------------------
LEMMA StoreInvAtFirst == Init => StoreInv
<1>1. Init => LockInv
  BY LockInvAtFirst
<1>2. Init => ThreadType /\ NotLoaded
  BY DEF Init, ThreadType, NotLoaded, LoadStates
<1>3. Init => StoreOfOneIndex
  BY DEF Init, StoreOfOneIndex, Reloading, Builders
<1>. QED BY <1>1, <1>2, <1>3 DEF StoreInv

(* The lock leaves room for one reload. *)
LEMMA OneReload ==
  ASSUME LockInv, NEW q \in Reindexes, NEW r \in Reindexes,
         job[q] \in Guarded, job[r] \in Guarded
  PROVE  q = r
BY DEF LockInv, LockGuards

(* A command that moves, not into a reload, and out of one only when its      *)
(* thread is done or it is cancelled.                                         *)
LEMMA JobMovesStoreInv ==
  ASSUME StoreInv, LockInv', NEW b \in Builders,
         NEW from \in JobStates \ {"cut"},
         NEW to \in JobStates \ {"reloading"}, JobMoves(b, from, to),
         b \in Reindexes /\ from = "reloading" => load[b] = "done" \/ to = "cut",
         UNCHANGED <<load, local, loaded, index, units>>
  PROVE  StoreInv'
<1>1. ThreadType' /\ NotLoaded'
  BY DEF StoreInv, ThreadType, NotLoaded
<1>2. job' = [job EXCEPT ![b] = to] /\ job[b] = from
        /\ job \in [Builders -> JobStates]
  BY DEF JobMoves, StoreInv, LockInv, JobType
<1>3. ASSUME NeverCut' PROVE StoreOfOneIndex'
  <2>1. \A r \in Reindexes : r \in Builders
    BY DEF Builders
  <2>2. NeverCut /\ (b \in Reindexes => to # "cut")
    BY <1>2, <1>3, <2>1 DEF NeverCut
  <2>3. StoreOfOneIndex
    BY <2>2 DEF StoreInv
  <2>4. \A r \in Reindexes : Reloading(r)' => Reloading(r) /\ r # b
    BY <1>2, <2>1 DEF Reloading
  <2>5. \A r \in Reindexes : r # b => (Reloading(r)' <=> Reloading(r))
    BY <1>2, <2>1 DEF Reloading
  <2>6. \A r \in Reindexes : StoreFits(r)' <=> StoreFits(r)
    BY DEF StoreFits
  <2>7. b \in Reindexes /\ Reloading(b) => load[b] = "done" /\ units = index
    BY <1>2, <2>2, <2>3 DEF Reloading, StoreOfOneIndex, StoreFits
  <2>8. \A r \in Reindexes : load'[r] \in {"idle", "done"} \/ Reloading(r)'
    BY <2>3, <2>5, <2>7 DEF StoreOfOneIndex
  <2>9. (\A r \in Reindexes : ~ Reloading(r)') => units' = index'
    <3>. SUFFICES ASSUME \A r \in Reindexes : ~ Reloading(r)'
                  PROVE  units = index
      OBVIOUS
    <3>1. CASE b \in Reindexes /\ Reloading(b)
      BY <2>7, <3>1
    <3>2. CASE ~ (b \in Reindexes /\ Reloading(b))
      BY <2>3, <2>5, <3>2 DEF StoreOfOneIndex
    <3>. QED BY <3>1, <3>2
  <2>. QED BY <2>3, <2>4, <2>6, <2>8, <2>9 DEF StoreOfOneIndex
<1>. QED BY <1>1, <1>3 DEF StoreInv

LEMMA ReindexStoreInv ==
  ASSUME StoreInv, NEW r \in Reindexes, Reindex(r)
  PROVE  StoreInv'
<1>1. r \in Builders /\ LockInv'
  BY LockInvReindex DEF Builders, StoreInv
<1>2. UNCHANGED <<load, local, loaded, index, units>>
  BY DEF Reindex, StartReindex, RefuseReindex, Bump, Finish, Cancelled,
         Abandoned, Closed, threadVars, storeVars
<1>3. \/ JobMoves(r, "new", "building") \/ JobMoves(r, "new", "refused")
      \/ JobMoves(r, "reloading", "finishing") /\ load[r] = "done"
      \/ JobMoves(r, "finishing", "over") \/ JobMoves(r, "building", "over")
      \/ JobMoves(r, "reloading", "cut")
      \/ JobMoves(r, "building", "abandoned")
      \/ JobMoves(r, "finishing", "abandoned")
      \/ JobMoves(r, "abandoned", "over")
  BY DEF Reindex, StartReindex, RefuseReindex, Bump, Finish, Cancelled,
         Abandoned, Closed
<1>. QED BY <1>1, <1>2, <1>3, JobMovesStoreInv DEF JobStates, Guarded

(* The reload begins: no other is at work, and the store has been loaded.     *)
LEMMA ReloadBegins ==
  ASSUME StoreInv, LockInv', NEW r \in Builders, ReplaceAndReload(r)
  PROVE  StoreInv'
<1>1. /\ r \in Reindexes /\ job[r] = "written"
      /\ job' = [job EXCEPT ![r] = "reloading"]
      /\ load' = [load EXCEPT ![r] = "read"]
      /\ loaded' = TRUE /\ local' = local
      /\ loaded => UNCHANGED <<index, units>>
      /\ ~ loaded => index' = units'
  BY DEF ReplaceAndReload, JobMoves, GetStore
<1>2. ThreadType' /\ NotLoaded'
  BY <1>1 DEF StoreInv, ThreadType, NotLoaded, LoadStates
<1>3. ASSUME NeverCut' PROVE StoreOfOneIndex'
  <2>1. \A q \in Reindexes : q \in Builders
    BY DEF Builders
  <2>2. job \in [Builders -> JobStates] /\ load \in [Reindexes -> LoadStates]
    BY DEF StoreInv, LockInv, JobType, ThreadType
  <2>3. NeverCut
    BY <1>1, <1>3, <2>1, <2>2 DEF NeverCut
  <2>4. \A q \in Reindexes : q # r => ~ Reloading(q) /\ ~ Reloading(q)'
    <3>1. \A q \in Reindexes : q # r => job[q] \notin Guarded
      BY <1>1, OneReload DEF StoreInv, Guarded
    <3>. QED BY <1>1, <2>1, <2>2, <3>1 DEF Reloading, Guarded
  <2>5. Reloading(r)' /\ StoreFits(r)'
    BY <1>1, <2>1, <2>2 DEF Reloading, StoreFits
  <2>6. \A q \in Reindexes : q # r => load'[q] \in {"idle", "done"}
    BY <1>1, <2>2, <2>3, <2>4 DEF StoreInv, StoreOfOneIndex
  <2>. QED BY <2>4, <2>5, <2>6, <1>1 DEF StoreOfOneIndex
<1>. QED BY <1>2, <1>3 DEF StoreInv

LEMMA BuildStoreInv ==
  ASSUME StoreInv, NEW b \in Builders, Build(b)
  PROVE  StoreInv'
<1>. DEFINE failed == IF b \in Reindexes THEN "finishing" ELSE "over"
<1>1. LockInv'
  BY LockInvBuild DEF StoreInv
<1>2. CASE ReplaceAndReload(b)
  BY <1>1, <1>2, ReloadBegins
<1>3. CASE ~ ReplaceAndReload(b)
  <2>1. failed \in JobStates \ {"reloading"}
    BY DEF JobStates, Guarded
  <2>2. \/ JobMoves(b, "building", failed) \/ JobMoves(b, "building", "writing")
        \/ JobMoves(b, "writing", "written") \/ JobMoves(b, "writing", failed)
        \/ JobMoves(b, "written", failed)
    BY <1>3 DEF Build, BuildFails, OpenTmp, CloseTmp, WriteFails, ReplaceOnly,
                ReplaceFails
  <2>3. UNCHANGED <<load, local, loaded, index, units>>
    BY <1>3 DEF Build, BuildFails, OpenTmp, CloseTmp, WriteFails, ReplaceOnly,
                ReplaceFails, threadVars, storeVars
  <2>. HIDE DEF failed
  <2>4. /\ {"building", "writing", "written"} \subseteq JobStates \ {"cut"}
        /\ {"writing", "written"} \subseteq JobStates \ {"reloading"}
    BY DEF JobStates, Guarded
  <2>. QED BY <1>1, <2>1, <2>2, <2>3, <2>4, JobMovesStoreInv
<1>. QED BY <1>2, <1>3

(* A step of the one thread that is at work. *)
LEMMA LoadStoreInv ==
  ASSUME StoreInv, NEW r \in Reindexes, Load(r)
  PROVE  StoreInv'
<1>1. UNCHANGED <<job, lock, loaded>>
  BY DEF Load, LoadRead, LoadUnreadable, LoadNormalise, LoadAssign, LoadLog,
         LoadRaises, LoadDropsIndex, LoadDropsUnits, LoadMoves
<1>2. LockInv'
  BY <1>1 DEF StoreInv, LockInv, JobType, LockGuards
<1>3. /\ load[r] \notin {"idle", "done"}
      /\ \E to \in LoadStates \ {"idle"} : load' = [load EXCEPT ![r] = to]
      /\ local' = local \/ local' = [local EXCEPT ![r] = index]
  BY DEF Load, LoadRead, LoadUnreadable, LoadNormalise, LoadAssign, LoadLog,
         LoadRaises, LoadDropsIndex, LoadDropsUnits, LoadMoves, LoadStates
<1>4. ThreadType'
  BY <1>1, <1>3 DEF StoreInv, ThreadType
<1>5. loaded
  BY <1>3 DEF StoreInv, NotLoaded, ThreadType
<1>6. NotLoaded'
  BY <1>1, <1>5 DEF NotLoaded
<1>7. ASSUME NeverCut PROVE StoreOfOneIndex'
  <2>1. /\ StoreOfOneIndex /\ load \in [Reindexes -> LoadStates]
        /\ local = [q \in Reindexes |-> local[q]]
    BY <1>7 DEF StoreInv, ThreadType
  <2>2. Reloading(r) /\ StoreFits(r)
    BY <1>3, <2>1 DEF StoreOfOneIndex
  <2>3. \A q \in Reindexes : q # r => ~ Reloading(q)
    BY <2>2, OneReload DEF Reloading, Guarded, StoreInv
  <2>4. StoreFits(r)'
    <3>1. CASE LoadRead(r)
      BY <2>1, <3>1 DEF LoadRead, LoadMoves, StoreFits
    <3>2. CASE LoadUnreadable(r)
      BY <2>1, <3>2 DEF LoadUnreadable, LoadMoves, StoreFits
    <3>3. CASE LoadNormalise(r)
      BY <2>1, <3>3 DEF LoadNormalise, LoadMoves, StoreFits
    <3>4. CASE LoadAssign(r)
      BY <2>1, <2>2, <3>4 DEF LoadAssign, LoadMoves, StoreFits
    <3>5. CASE LoadLog(r)
      BY <2>1, <2>2, <3>5 DEF LoadLog, LoadMoves, StoreFits
    <3>6. CASE LoadRaises(r)
      BY <2>1, <2>2, <3>6 DEF LoadRaises, LoadMoves, StoreFits
    <3>7. CASE LoadDropsIndex(r)
      BY <2>1, <2>2, <3>7 DEF LoadDropsIndex, LoadMoves, StoreFits
    <3>8. CASE LoadDropsUnits(r)
      BY <2>1, <2>2, <3>8 DEF LoadDropsUnits, LoadMoves, StoreFits
    <3>. QED BY <3>1, <3>2, <3>3, <3>4, <3>5, <3>6, <3>7, <3>8 DEF Load
  <2>5. \A q \in Reindexes : Reloading(q)' <=> Reloading(q)
    BY <1>1 DEF Reloading
  <2>6. \A q \in Reindexes : q # r => load'[q] = load[q]
    BY <1>3, <2>1
  <2>7. \A q \in Reindexes : load'[q] \in {"idle", "done"} \/ Reloading(q)'
    BY <2>1, <2>2, <2>5, <2>6 DEF StoreOfOneIndex
  <2>. QED BY <2>2, <2>3, <2>4, <2>5, <2>7 DEF StoreOfOneIndex
<1>. QED BY <1>1, <1>2, <1>4, <1>6, <1>7 DEF StoreInv, NeverCut

(* A search writes to the store only as the first to ask for it. *)
LEMMA SearchStoreInv ==
  ASSUME StoreInv, NEW s \in Searches, Search(s)
  PROVE  StoreInv'
<1>1. /\ UNCHANGED <<job, lock, load, local>>
      /\ UNCHANGED <<loaded, index, units>> \/ GetStore(Content(path))
  BY DEF Search, SearchNotReady, SearchHit, SearchMiss, EmbedFails, Embedded,
         EmbeddedTooLate, ReadChunks, ReadChunksRaises, ReadUnits, SearchMoves,
         threadVars, storeVars
<1>2. LockInv'
  BY <1>1 DEF StoreInv, LockInv, JobType, LockGuards
<1>3. CASE UNCHANGED <<loaded, index, units>>
  BY <1>1, <1>2, <1>3 DEF StoreInv, ThreadType, NotLoaded, NeverCut,
                          StoreOfOneIndex, StoreFits, Reloading
<1>4. CASE GetStore(Content(path)) /\ loaded
  BY <1>1, <1>2, <1>4 DEF GetStore, StoreInv, ThreadType, NotLoaded, NeverCut,
                          StoreOfOneIndex, StoreFits, Reloading
<1>5. CASE GetStore(Content(path)) /\ ~ loaded
  <2>1. loaded' = TRUE /\ index' = units'
    BY <1>5 DEF GetStore
  <2>2. ThreadType' /\ NotLoaded'
    BY <1>1, <2>1 DEF StoreInv, ThreadType, NotLoaded
  <2>3. \A r \in Reindexes : load[r] = "idle"
    BY <1>5 DEF StoreInv, NotLoaded
  <2>4. NeverCut' => StoreOfOneIndex'
    BY <1>1, <2>1, <2>3 DEF StoreInv, NeverCut, StoreOfOneIndex, StoreFits,
                            Reloading
  <2>. QED BY <1>2, <2>2, <2>4 DEF StoreInv
<1>. QED BY <1>1, <1>3, <1>4, <1>5 DEF StoreInv, ThreadType

LEMMA StoreInvInductive == StoreInv /\ [Next]_vars => StoreInv'
<1>. SUFFICES ASSUME StoreInv, [Next]_vars PROVE StoreInv'
  OBVIOUS
<1>1. ASSUME NEW b \in Builders, StartIndexer(b) PROVE StoreInv'
  <2>1. /\ JobMoves(b, "new", "building") /\ b \notin Reindexes
        /\ lock' = lock /\ UNCHANGED <<load, local, loaded, index, units>>
    BY <1>1, DocsIndexAssumption DEF StartIndexer, threadVars, storeVars
  <2>2. LockInv'
    BY <2>1, SameSide DEF StoreInv, JobStates, Guarded
  <2>. QED BY <2>1, <2>2, JobMovesStoreInv DEF JobStates, Guarded
<1>2. CASE UNCHANGED vars
  BY <1>2 DEF vars, threadVars, storeVars, StoreInv, LockInv, JobType, LockGuards,
              ThreadType, NotLoaded, NeverCut, StoreOfOneIndex, StoreFits,
              Reloading
<1>. QED BY <1>1, <1>2, ReindexStoreInv, LoadStoreInv, BuildStoreInv,
            SearchStoreInv DEF Next

(* Between reloads the chunks and the vectors of the store are of one index,  *)
(* unless a /reindex was cancelled in its reload.                             *)
THEOREM StoreWholeHolds == Spec => []StoreWhole
<1>1. StoreInv => StoreWhole
  BY DEF StoreInv, StoreOfOneIndex, StoreWhole, Quiet, Reloading
<1>. QED BY <1>1, StoreInvAtFirst, StoreInvInductive, PTL DEF Spec

-----------------------------------------------------------------------------
FileType ==
    /\ path \in Versions \cup {NoIndex} /\ tmp \in Builders \cup {NoIndex}
    /\ fd \in [Builders -> Builders \cup {NoIndex}]
    /\ wrote \in [Versions -> SUBSET Versions]

Early == {"new", "building"}

(* A file that has been put into place was written by one builder alone,      *)
(* which has closed it, and no builder to come will use its name.             *)
PathWritten ==
    /\ path \in Builders => job[path] \notin Early
    /\ path # NoIndex =>
          \E v \in Versions :
             /\ wrote[path] = {v}
             /\ v \in Builders => job[v] \notin Early \cup {"writing"}

(* The temporary file is not the one in place, and is the one that a builder  *)
(* has opened and written alone.                                              *)
TmpWritten ==
    /\ tmp # NoIndex => tmp # path /\ job[tmp] \notin Early
    /\ \A b \in Builders : job[b] \in {"writing", "written"} =>
          tmp # NoIndex /\ fd[b] = tmp /\ wrote[tmp] = {b}

FileInv ==
    /\ Indexers = {} /\ LockInv /\ FileType
    /\ PathWritten /\ TmpWritten

-----------------------------------------------------------------------------
LEMMA FileInvAtFirst == Init /\ Indexers = {} => FileInv
<1>. SUFFICES ASSUME Init, Indexers = {} PROVE FileInv
  OBVIOUS
<1>1. LockInv
  BY LockInvAtFirst
<1>2. FileType
  BY DEF Init, FileType, Versions
<1>3. TmpWritten
  BY DEF Init, TmpWritten
<1>4. PathWritten
  <2>1. path = Original \/ path = NoIndex
    BY DEF Init
  <2>2. Original \in Versions /\ Original \notin Builders /\ NoIndex \notin Builders
    BY DocsIndexAssumption DEF Versions
  <2>3. wrote[Original] = {Original}
    BY <2>2 DEF Init
  <2>. QED BY <2>1, <2>2, <2>3 DEF PathWritten
<1>. QED BY <1>1, <1>2, <1>3, <1>4 DEF FileInv

(* Without the indexer every builder is a command, and one at most builds.    *)
LEMMA OneBuilder ==
  ASSUME FileInv, NEW b \in Builders, NEW c \in Builders,
         job[b] \in Guarded, job[c] \in Guarded
  PROVE  b = c
BY OneReload DEF FileInv, Builders

(* A builder that moves on, not back and not to writing, without touching     *)
(* files.                                                                     *)
LEMMA JobMovesFileInv ==
  ASSUME FileInv, LockInv', NEW b \in Builders, NEW from, NEW to \in JobStates,
         JobMoves(b, from, to), UNCHANGED fileVars,
         to # "writing" /\ (to = "written" => from = "writing"),
         to \in Early => from \in Early
  PROVE  FileInv'
<1>1. job' = [job EXCEPT ![b] = to] /\ job[b] = from
        /\ job \in [Builders -> JobStates]
  BY DEF JobMoves, FileInv, LockInv, JobType
<1>2. \A c \in Builders : job'[c] \in Early => job[c] \in Early
  BY <1>1
<1>3. \A c \in Builders : job'[c] = "writing" => job[c] = "writing"
  BY <1>1
<1>4. \A c \in Builders :
        job'[c] \in {"writing", "written"} => job[c] \in {"writing", "written"}
  BY <1>1
<1>5. path' = path /\ tmp' = tmp /\ fd' = fd /\ wrote' = wrote
  BY DEF fileVars
<1>6. FileType'
  BY <1>5 DEF FileInv, FileType
<1>7. PathWritten'
  BY <1>2, <1>3, <1>5 DEF FileInv, PathWritten
<1>8. TmpWritten'
  BY <1>2, <1>4, <1>5 DEF FileInv, TmpWritten, FileType
<1>. QED BY <1>6, <1>7, <1>8 DEF FileInv

LEMMA ReindexFileInv ==
  ASSUME FileInv, NEW r \in Reindexes, Reindex(r)
  PROVE  FileInv'
<1>1. r \in Builders /\ LockInv'
  BY LockInvReindex DEF Builders, FileInv
<1>2. UNCHANGED fileVars
  BY DEF Reindex, StartReindex, RefuseReindex, Bump, Finish, Cancelled,
         Abandoned, Closed
<1>3. \/ JobMoves(r, "new", "building") \/ JobMoves(r, "new", "refused")
      \/ JobMoves(r, "reloading", "finishing") \/ JobMoves(r, "finishing", "over")
      \/ JobMoves(r, "building", "over") \/ JobMoves(r, "reloading", "cut")
      \/ JobMoves(r, "building", "abandoned")
      \/ JobMoves(r, "finishing", "abandoned")
      \/ JobMoves(r, "abandoned", "over")
  BY DEF Reindex, StartReindex, RefuseReindex, Bump, Finish, Cancelled,
         Abandoned, Closed
<1>. QED BY <1>1, <1>2, <1>3, JobMovesFileInv DEF JobStates, Guarded, Early

(* The file that is opened is the builder's own or one left behind, and the   *)
(* builder is alone with it.                                                  *)
LEMMA OpenTmpFileInv ==
  ASSUME FileInv, LockInv', NEW b \in Builders, OpenTmp(b)
  PROVE  FileInv'
<1>. DEFINE file == IF tmp = NoIndex THEN b ELSE tmp
            others == {o \in Builders : job[o] = "writing" /\ fd[o] = file}
<1>1. /\ job[b] = "building" /\ job' = [job EXCEPT ![b] = "writing"]
      /\ path' = path /\ tmp' = file /\ fd' = [fd EXCEPT ![b] = file]
      /\ wrote' = [wrote EXCEPT ![file] = {b} \cup others]
  BY DEF OpenTmp, JobMoves
<1>2. /\ FileType /\ PathWritten /\ TmpWritten
      /\ job \in [Builders -> JobStates]
  BY DEF FileInv, LockInv, JobType
<1>3. \A c \in Builders : c # b => job[c] \notin Guarded
  BY <1>1, OneBuilder DEF Guarded
<1>4. others = {}
  BY <1>1, <1>3 DEF Guarded
<1>5. /\ file \in Builders /\ file \in Versions /\ file # NoIndex
      /\ b \in Versions
  BY <1>2, DocsIndexAssumption DEF FileType, Versions
<1>6. file # path
  BY <1>1, <1>2 DEF PathWritten, TmpWritten, Early
<1>7. wrote' = [wrote EXCEPT ![file] = {b}]
  BY <1>1, <1>4
<1>. HIDE DEF file, others
<1>8. FileType'
  BY <1>1, <1>2, <1>5, <1>7 DEF FileType
<1>9. PathWritten'
  <2>1. path # NoIndex => wrote'[path] = wrote[path]
    BY <1>2, <1>6, <1>7 DEF FileType
  <2>2. \A c \in Builders : job[c] \notin Early => job'[c] = job[c]
    BY <1>1, <1>2 DEF Early
  <2>. QED BY <1>1, <1>2, <2>1, <2>2 DEF PathWritten
<1>10. TmpWritten'
  <2>1. job'[file] \notin Early
    <3>1. CASE tmp = NoIndex
      BY <1>1, <1>2, <3>1 DEF Early, file
    <3>2. CASE tmp # NoIndex
      BY <1>1, <1>2, <1>5, <3>2 DEF Early, TmpWritten, file
    <3>. QED BY <3>1, <3>2
  <2>2. fd'[b] = file /\ wrote'[file] = {b}
    BY <1>1, <1>2, <1>5, <1>7 DEF FileType
  <2>3. \A c \in Builders : c # b => job'[c] \notin {"writing", "written"}
    BY <1>1, <1>2, <1>3 DEF Guarded
  <2>. QED BY <1>1, <1>5, <1>6, <2>1, <2>2, <2>3 DEF TmpWritten
<1>. QED BY <1>8, <1>9, <1>10 DEF FileInv

(* A write that fails spoils the temporary file alone. *)
LEMMA WriteFailsFileInv ==
  ASSUME FileInv, LockInv', NEW b \in Builders, WriteFails(b)
  PROVE  FileInv'
<1>1. /\ job[b] = "writing" /\ b \in Reindexes
      /\ job' = [job EXCEPT ![b] = "finishing"]
      /\ wrote' = [wrote EXCEPT ![fd[b]] = {}]
      /\ path' = path /\ tmp' = tmp /\ fd' = fd
  BY DEF WriteFails, JobMoves, FileInv, Builders
<1>2. /\ FileType /\ PathWritten /\ TmpWritten
      /\ job \in [Builders -> JobStates]
  BY DEF FileInv, LockInv, JobType
<1>3. fd[b] = tmp /\ tmp # NoIndex /\ tmp # path /\ tmp \in Versions
  BY <1>1, <1>2 DEF TmpWritten, FileType, Versions
<1>4. FileType'
  BY <1>1, <1>2, <1>3 DEF FileType
<1>5. PathWritten'
  <2>1. path # NoIndex => wrote'[path] = wrote[path]
    BY <1>1, <1>2, <1>3 DEF FileType
  <2>2. \A c \in Builders : job[c] # "writing" => job'[c] = job[c]
    BY <1>1, <1>2
  <2>3. \A c \in Builders : job[c] \notin Early => job'[c] \notin Early
    BY <1>1, <1>2 DEF Early
  <2>. QED BY <1>1, <1>2, <2>1, <2>2, <2>3 DEF PathWritten
<1>6. TmpWritten'
  <2>1. \A c \in Builders : job'[c] \notin {"writing", "written"}
    <3>1. \A c \in Builders : c # b => job[c] \notin Guarded
      BY <1>1, OneBuilder DEF Guarded
    <3>. QED BY <1>1, <1>2, <3>1 DEF Guarded
  <2>2. job'[tmp] \notin Early
    BY <1>1, <1>2, <1>3 DEF TmpWritten, Early, FileType
  <2>. QED BY <1>1, <1>3, <2>1, <2>2 DEF TmpWritten
<1>. QED BY <1>4, <1>5, <1>6 DEF FileInv

(* What is put into place is what its builder has written and closed.         *)
LEMMA ReplaceFileInv ==
  ASSUME FileInv, LockInv', NEW b \in Builders,
         NEW to \in {"reloading", "finishing"}, JobMoves(b, "written", to),
         Replace, UNCHANGED <<fd, wrote>>
  PROVE  FileInv'
<1>1. /\ job[b] = "written" /\ job' = [job EXCEPT ![b] = to]
      /\ tmp # NoIndex /\ path' = tmp /\ tmp' = NoIndex
      /\ fd' = fd /\ wrote' = wrote
  BY DEF JobMoves, Replace
<1>2. /\ FileType /\ TmpWritten /\ job \in [Builders -> JobStates]
  BY DEF FileInv, LockInv, JobType
<1>3. tmp \in Builders /\ wrote[tmp] = {b} /\ job[tmp] \notin Early
  BY <1>1, <1>2 DEF TmpWritten, FileType
<1>4. FileType'
  BY <1>1, <1>2 DEF FileType, Versions
<1>5. PathWritten'
  BY <1>1, <1>2, <1>3 DEF PathWritten, Early, Versions
<1>6. TmpWritten'
  <2>1. \A c \in Builders : c # b => job[c] \notin Guarded
    BY <1>1, OneBuilder DEF Guarded
  <2>2. \A c \in Builders : job'[c] \notin {"writing", "written"}
    BY <1>1, <1>2, <2>1 DEF Guarded
  <2>. QED BY <1>1, <2>2 DEF TmpWritten
<1>. QED BY <1>4, <1>5, <1>6 DEF FileInv

LEMMA BuildFileInv ==
  ASSUME FileInv, NEW b \in Builders, Build(b)
  PROVE  FileInv'
<1>1. b \in Reindexes /\ LockInv'
  BY LockInvBuild DEF FileInv, Builders
<1>2. CASE BuildFails(b) \/ CloseTmp(b) \/ ReplaceFails(b)
  <2>1. /\ UNCHANGED fileVars
        /\ \/ JobMoves(b, "building", "finishing")
           \/ JobMoves(b, "writing", "written")
           \/ JobMoves(b, "written", "finishing")
    BY <1>1, <1>2 DEF BuildFails, CloseTmp, ReplaceFails
  <2>. QED BY <1>1, <2>1, JobMovesFileInv DEF JobStates, Guarded, Early
<1>3. CASE OpenTmp(b)
  BY <1>1, <1>3, OpenTmpFileInv
<1>4. CASE WriteFails(b)
  BY <1>1, <1>4, WriteFailsFileInv
<1>5. CASE ReplaceAndReload(b) \/ ReplaceOnly(b)
  <2>1. /\ Replace /\ UNCHANGED <<fd, wrote>>
        /\ \E to \in {"reloading", "finishing"} : JobMoves(b, "written", to)
    BY <1>1, <1>5 DEF ReplaceAndReload, ReplaceOnly
  <2>. QED BY <1>1, <2>1, ReplaceFileInv
<1>. QED BY <1>2, <1>3, <1>4, <1>5 DEF Build

LEMMA FileInvInductive == FileInv /\ [Next]_vars => FileInv'
<1>. SUFFICES ASSUME FileInv, [Next]_vars PROVE FileInv'
  OBVIOUS
<1>1. ASSUME UNCHANGED <<job, lock, fileVars>> PROVE FileInv'
  BY <1>1 DEF FileInv, LockInv, JobType, LockGuards, FileType, PathWritten,
              TmpWritten, fileVars
<1>2. ASSUME NEW r \in Reindexes, Load(r) PROVE FileInv'
  BY <1>1, <1>2 DEF Load, LoadRead, LoadUnreadable, LoadNormalise, LoadAssign,
     LoadLog, LoadRaises, LoadDropsIndex, LoadDropsUnits, LoadMoves
<1>3. ASSUME NEW s \in Searches, Search(s) PROVE FileInv'
  BY <1>1, <1>3 DEF Search, SearchNotReady, SearchHit, SearchMiss, EmbedFails,
     Embedded, EmbeddedTooLate, ReadChunks, ReadChunksRaises, ReadUnits,
     SearchMoves
<1>4. ASSUME NEW b \in Builders PROVE ~ StartIndexer(b)
  BY DEF StartIndexer, FileInv
<1>5. CASE UNCHANGED vars
  BY <1>1, <1>5 DEF vars
<1>. QED BY <1>2, <1>3, <1>4, <1>5, ReindexFileInv, BuildFileInv DEF Next

(* As long as nobody runs the indexer beside the agent, whatever is at the    *)
(* index's path can be read: no write that fails or is cut gets there.        *)
THEOREM FileWholeAlone == Spec /\ Indexers = {} => []FileWhole
<1>1. FileInv => FileWhole
  <2>. SUFFICES ASSUME FileInv, path # NoIndex PROVE Content(path) # NoIndex
    BY DEF FileWhole
  <2>1. PICK v \in Versions :
          wrote[path] = {v} /\ (v \in Builders => job[v] # "writing")
    BY DEF FileInv, PathWritten
  <2>2. Content(path) = CHOOSE w \in Versions : wrote[path] = {w}
    BY <2>1 DEF Content
  <2>3. Content(path) \in Versions
    BY <2>1, <2>2
  <2>. QED BY <2>3, DocsIndexAssumption
<1>. QED BY <1>1, FileInvAtFirst, FileInvInductive, PTL DEF Spec

-----------------------------------------------------------------------------
CacheType ==
    /\ cache \in Seq(Entry)
    /\ Len(cache) <= CacheSize
    /\ generation \in Nat

(* What the cache keeps when the entry of a query is taken out: entries it    *)
(* had, and fewer if there was one.                                           *)
LEMMA CacheWithoutProperties ==
  ASSUME CacheType, NEW q
  PROVE  /\ CacheWithout(q) \in Seq(Entry)
         /\ Len(CacheWithout(q)) <= Len(cache)
         /\ (\E n \in 1 .. Len(cache) : cache[n].query = q)
               => Len(CacheWithout(q)) < Len(cache)
         /\ \A k \in 1 .. Len(CacheWithout(q)) :
               \E n \in 1 .. Len(cache) : CacheWithout(q)[k] = cache[n]
<1>. DEFINE D == 1 .. Len(cache)
            P == {n \in DOMAIN cache : cache[n].query # q}
<1>1. cache \in Seq(Entry) /\ DOMAIN cache = D /\ Len(cache) \in Nat
  BY LenProperties DEF CacheType
<1>2. P \in SUBSET DOMAIN cache /\ P \subseteq D
  BY <1>1
<1>3. IsFiniteSet(D) /\ Cardinality(D) = Len(cache)
  BY <1>1, FS_Interval
<1>4. \A n \in D : cache[n].query = q => n \notin P
  OBVIOUS
<1>5. CacheWithout(q) = Picked(cache, P)
  BY DEF CacheWithout
<1>. HIDE DEF P, D
<1>6. /\ Picked(cache, P) \in Seq(Entry)
      /\ Len(Picked(cache, P)) = Cardinality(P)
      /\ \A k \in 1 .. Cardinality(P) :
            Nth(P, k) \in P /\ Picked(cache, P)[k] = cache[Nth(P, k)]
  BY <1>1, <1>2, PickedProperties
<1>7. /\ Cardinality(P) <= Len(cache)
      /\ (\E n \in D : n \notin P) => Cardinality(P) # Len(cache)
  BY <1>2, <1>3, FS_Subset
<1>8. Cardinality(P) \in Nat
  BY <1>1, <1>2, PlacesFinite
<1>9. \A k \in 1 .. Cardinality(P) :
         \E n \in D : Picked(cache, P)[k] = cache[n]
  BY <1>2, <1>6
<1>. QED BY <1>1, <1>4, <1>5, <1>6, <1>7, <1>8, <1>9 DEF D

(* What DocsCache.put leaves: the new entry, entries it had, and no more than *)
(* there is room for.                                                         *)
LEMMA PutProperties ==
  ASSUME CacheType, NEW q \in Queries, NEW hits \in Hits, Put(q, hits)
  PROVE  /\ CacheType'
         /\ generation' = generation
         /\ \A k \in 1 .. Len(cache') :
               \/ cache'[k] = [query |-> q, generation |-> generation, hits |-> hits]
               \/ \E n \in 1 .. Len(cache) : cache'[k] = cache[n]
<1>. DEFINE entry == [query |-> q, generation |-> generation, hits |-> hits]
            kept == CacheWithout(q)
            full == Append(kept, entry)
<1>1. /\ kept \in Seq(Entry) /\ Len(kept) <= Len(cache)
      /\ \A k \in 1 .. Len(kept) : \E n \in 1 .. Len(cache) : kept[k] = cache[n]
  BY CacheWithoutProperties
<1>2. /\ cache \in Seq(Entry) /\ Len(cache) \in Nat /\ Len(cache) <= CacheSize
      /\ generation \in Nat /\ CacheSize \in Nat
  BY LenProperties, DocsIndexAssumption DEF CacheType
<1>3. entry \in Entry
  BY <1>2 DEF Entry
<1>4. /\ cache' = IF CacheSize = 0 THEN cache
                  ELSE IF Len(full) > CacheSize THEN Tail(full) ELSE full
      /\ generation' = generation
  BY DEF Put
<1>. HIDE DEF kept, entry
<1>5. /\ full \in Seq(Entry) /\ full # <<>> /\ Len(full) = Len(kept) + 1
      /\ \A k \in 1 .. Len(kept) : full[k] = kept[k]
      /\ full[Len(kept) + 1] = entry /\ Len(kept) \in Nat
  BY <1>1, <1>3, AppendProperties, LenProperties
<1>. HIDE DEF full
<1>6. \A k \in 1 .. Len(full) :
         full[k] = entry \/ \E n \in 1 .. Len(cache) : full[k] = cache[n]
  <2>1. \A k \in 1 .. Len(full) : k \in 1 .. Len(kept) \/ k = Len(kept) + 1
    BY <1>5
  <2>. QED BY <1>1, <1>5, <2>1
<1>7. CASE CacheSize = 0
  BY <1>2, <1>4, <1>7 DEF CacheType
<1>8. CASE CacheSize # 0 /\ ~ (Len(full) > CacheSize)
  <2>1. cache' = full /\ Len(full) <= CacheSize
    BY <1>2, <1>4, <1>5, <1>8
  <2>. QED BY <1>2, <1>4, <1>5, <1>6, <2>1 DEF CacheType, entry
<1>9. CASE CacheSize # 0 /\ Len(full) > CacheSize
  <2>1. cache' = Tail(full)
    BY <1>4, <1>9
  <2>2. /\ Tail(full) \in Seq(Entry) /\ Len(Tail(full)) = Len(full) - 1
        /\ \A k \in 1 .. Len(Tail(full)) : Tail(full)[k] = full[k + 1]
    BY <1>5, HeadTailProperties
  <2>3. Len(Tail(full)) <= CacheSize
    BY <1>1, <1>2, <1>5, <2>2
  <2>4. \A k \in 1 .. Len(Tail(full)) : k + 1 \in 1 .. Len(full)
    BY <1>5, <2>2
  <2>5. \A k \in 1 .. Len(cache') :
           cache'[k] = entry \/ \E n \in 1 .. Len(cache) : cache'[k] = cache[n]
    BY <1>6, <2>1, <2>2, <2>4
  <2>. QED BY <1>2, <1>4, <2>1, <2>2, <2>3, <2>5 DEF CacheType, entry
<1>. QED BY <1>7, <1>8, <1>9

-----------------------------------------------------------------------------
StoreType ==
    /\ loaded \in BOOLEAN
    /\ index \in Versions \cup {NoIndex} /\ units \in Versions \cup {NoIndex}

ReloadType ==
    /\ load \in [Reindexes -> LoadStates]
    /\ local \in [Reindexes -> Versions \cup {NoIndex}]

SearchType ==
    /\ search \in [Searches -> {"new", "embedding", "ranking", "scoring",
                                "answered", "not_ready", "failed"}]
    /\ chunks \in [Searches -> Versions \cup {NoIndex}]
    /\ answer \in [Searches -> Hits]
    /\ \A s \in Searches : search[s] = "scoring" => chunks[s] # NoIndex

LockType == lock \in Reindexes \cup {Free}

LoopType == loop \in Reindexes \cup Searches \cup {Free}

TypeInv ==
    /\ FileType /\ JobType /\ LockType /\ StoreType /\ ReloadType
    /\ CacheType /\ SearchType /\ LoopType

LEMMA TypeInParts == TypeInv => DocsTypeOK
BY DEF TypeInv, DocsTypeOK, FileType, JobType, JobStates, LockType, StoreType, ReloadType,
       LoadStates, CacheType, SearchType, LoopType

LEMMA TypeAtFirst == Init => TypeInv
<1>. SUFFICES ASSUME Init PROVE TypeInv
  OBVIOUS
<1>1. FileType /\ JobType /\ LockType /\ LoopType
  BY DEF Init, FileType, JobType, JobStates, LockType, LoopType, Versions
<1>2. StoreType /\ ReloadType /\ SearchType
  BY DEF Init, StoreType, ReloadType, LoadStates, SearchType, Hits
<1>3. CacheType
  BY EmptySeq, DocsIndexAssumption DEF Init, CacheType
<1>. QED BY <1>1, <1>2, <1>3 DEF TypeInv

LEMMA ContentType == \A file : Content(file) \in Versions \cup {NoIndex}
BY DEF Content

LEMMA GetStoreType ==
  ASSUME StoreType, NEW disk \in Versions \cup {NoIndex}, GetStore(disk)
  PROVE  StoreType'
BY DEF StoreType, GetStore

LEMMA TypeReindex ==
  ASSUME TypeInv, NEW r \in Reindexes, Reindex(r)
  PROVE  TypeInv'
<1>1. /\ FileType /\ JobType /\ LockType /\ StoreType /\ ReloadType
      /\ CacheType /\ SearchType /\ LoopType
  BY DEF TypeInv
<1>2. UNCHANGED <<path, tmp, fd, wrote, loaded, index, units, load, local,
                  search, chunks, answer, loop>>
  BY DEF Reindex, StartReindex, RefuseReindex, Bump, Finish, Cancelled,
         Abandoned, Closed, fileVars, storeVars, threadVars, searchVars
<1>3. \E from, to \in JobStates : JobMoves(r, from, to)
  <2>1. \/ JobMoves(r, "new", "building") \/ JobMoves(r, "new", "refused")
        \/ JobMoves(r, "reloading", "finishing") \/ JobMoves(r, "finishing", "over")
        \/ JobMoves(r, "building", "over") \/ JobMoves(r, "reloading", "cut")
        \/ JobMoves(r, "building", "abandoned")
        \/ JobMoves(r, "finishing", "abandoned")
        \/ JobMoves(r, "abandoned", "over")
    BY DEF Reindex, StartReindex, RefuseReindex, Bump, Finish, Cancelled,
           Abandoned, Closed
  <2>2. {"new", "building", "refused", "reloading", "finishing", "over", "cut",
         "abandoned"} \subseteq JobStates
    BY DEF JobStates, Guarded
  <2>. QED BY <2>1, <2>2
<1>4. lock' \in {lock, r, Free}
  BY DEF Reindex, StartReindex, RefuseReindex, Bump, Finish, Cancelled,
         Abandoned, Closed
<1>5. CacheType'
  <2>1. UNCHANGED cacheVars \/ (cache' = <<>> /\ generation' = generation + 1)
    BY DEF Reindex, StartReindex, RefuseReindex, Bump, Finish, Cancelled,
           Abandoned, Closed
  <2>2. CASE UNCHANGED cacheVars
    BY <1>1, <2>2 DEF CacheType, cacheVars
  <2>3. CASE cache' = <<>> /\ generation' = generation + 1
    <3>1. cache' \in Seq(Entry) /\ Len(cache') = 0 /\ CacheSize \in Nat
      BY <2>3, EmptySeq, DocsIndexAssumption
    <3>. QED BY <1>1, <2>3, <3>1 DEF CacheType
  <2>. QED BY <2>1, <2>2, <2>3
<1>6. JobType'
  BY <1>1, <1>3 DEF JobType, JobMoves
<1>7. LockType'
  BY <1>1, <1>4 DEF LockType
<1>8. FileType' /\ StoreType' /\ ReloadType' /\ SearchType' /\ LoopType'
  BY <1>1, <1>2 DEF FileType, StoreType, ReloadType, SearchType, LoopType
<1>. QED BY <1>5, <1>6, <1>7, <1>8 DEF TypeInv

LEMMA TypeBuild ==
  ASSUME TypeInv, NEW b \in Builders, Build(b)
  PROVE  TypeInv'
<1>1. /\ FileType /\ JobType /\ LockType /\ StoreType /\ ReloadType
      /\ CacheType /\ SearchType /\ LoopType
  BY DEF TypeInv
<1>2. UNCHANGED <<lock, local, cache, generation, search, chunks, answer>>
  BY DEF Build, BuildFails, OpenTmp, CloseTmp, WriteFails, ReplaceAndReload,
         ReplaceOnly, ReplaceFails, threadVars, cacheVars, searchVars
<1>3. /\ \E from, to \in JobStates : JobMoves(b, from, to)
      /\ UNCHANGED loop \/ EnterLoop(b) \/ LeaveLoop(b)
  <2>. DEFINE failed == IF b \in Reindexes THEN "finishing" ELSE "over"
  <2>1. {"building", "writing", "written", "reloading", failed} \subseteq JobStates
    BY DEF JobStates, Guarded
  <2>2. /\ \/ JobMoves(b, "building", failed) \/ JobMoves(b, "building", "writing")
           \/ JobMoves(b, "writing", "written") \/ JobMoves(b, "writing", failed)
           \/ JobMoves(b, "written", "reloading") \/ JobMoves(b, "written", failed)
        /\ UNCHANGED loop \/ EnterLoop(b) \/ LeaveLoop(b)
    BY DEF Build, BuildFails, OpenTmp, CloseTmp, WriteFails, ReplaceAndReload,
           ReplaceOnly, ReplaceFails
  <2>. HIDE DEF failed
  <2>. QED BY <2>1, <2>2
<1>4. JobType' /\ LoopType'
  BY <1>1, <1>3 DEF JobType, JobMoves, EnterLoop, LeaveLoop, LoopType
<1>5. StoreType' /\ ReloadType'
  <2>1. CASE ReplaceAndReload(b)
    BY <1>1, <2>1, GetStoreType, ContentType
       DEF ReplaceAndReload, ReloadType, LoadStates
  <2>2. CASE ~ ReplaceAndReload(b)
    <3>1. UNCHANGED <<storeVars, threadVars>>
      BY <2>2 DEF Build, BuildFails, OpenTmp, CloseTmp, WriteFails, ReplaceOnly,
                  ReplaceFails
    <3>. QED BY <1>1, <3>1 DEF StoreType, ReloadType, storeVars, threadVars
  <2>. QED BY <2>1, <2>2
<1>6. FileType'
  <2>1. CASE OpenTmp(b)
    <3>. DEFINE file == IF tmp = NoIndex THEN b ELSE tmp
                others == {o \in Builders : job[o] = "writing" /\ fd[o] = file}
    <3>1. /\ path' = path /\ tmp' = file /\ fd' = [fd EXCEPT ![b] = file]
          /\ wrote' = [wrote EXCEPT ![file] = {b} \cup others]
      BY <2>1 DEF OpenTmp
    <3>2. file \in Builders
      BY <1>1 DEF FileType
    <3>3. {b} \cup others \subseteq Versions
      BY DEF Versions
    <3>. HIDE DEF file, others
    <3>. QED BY <1>1, <3>1, <3>2, <3>3 DEF FileType
  <2>2. CASE WriteFails(b)
    BY <1>1, <2>2 DEF WriteFails, FileType
  <2>3. CASE UNCHANGED fileVars
    BY <1>1, <2>3 DEF FileType, fileVars
  <2>4. CASE Replace /\ UNCHANGED <<fd, wrote>>
    BY <1>1, <2>4 DEF Replace, FileType, Versions
  <2>. QED BY <2>1, <2>2, <2>3, <2>4
           DEF Build, BuildFails, CloseTmp, ReplaceAndReload, ReplaceOnly,
               ReplaceFails
<1>7. LockType' /\ CacheType' /\ SearchType'
  BY <1>1, <1>2 DEF LockType, CacheType, SearchType
<1>. QED BY <1>4, <1>5, <1>6, <1>7 DEF TypeInv

LEMMA TypeLoad ==
  ASSUME TypeInv, NEW r \in Reindexes, Load(r)
  PROVE  TypeInv'
<1>1. /\ FileType /\ JobType /\ LockType /\ StoreType /\ ReloadType
      /\ CacheType /\ SearchType /\ LoopType
  BY DEF TypeInv
<1>2. /\ UNCHANGED <<path, tmp, fd, wrote, job, lock, loaded, cache, generation,
                     search, chunks, answer, loop>>
      /\ \E to \in LoadStates : load' = [load EXCEPT ![r] = to]
      /\ index' \in {index, NoIndex, Content(path)}
      /\ units' \in {units, NoIndex, local[r]}
      /\ local' = local \/ local' = [local EXCEPT ![r] = index]
  BY DEF Load, LoadRead, LoadUnreadable, LoadNormalise, LoadAssign, LoadLog,
         LoadRaises, LoadDropsIndex, LoadDropsUnits, LoadMoves, LoadStates,
         fileVars, cacheVars, searchVars
<1>3. StoreType' /\ ReloadType'
  BY <1>1, <1>2, ContentType DEF StoreType, ReloadType
<1>4. /\ FileType' /\ JobType' /\ LockType' /\ CacheType' /\ SearchType'
      /\ LoopType'
  BY <1>1, <1>2 DEF FileType, JobType, LockType, CacheType, SearchType, LoopType
<1>. QED BY <1>3, <1>4 DEF TypeInv

LEMMA TypeSearch ==
  ASSUME TypeInv, NEW s \in Searches, Search(s)
  PROVE  TypeInv'
<1>1. /\ FileType /\ JobType /\ LockType /\ StoreType /\ ReloadType
      /\ CacheType /\ SearchType /\ LoopType
  BY DEF TypeInv
<1>2. QueryOf[s] \in Queries
  BY DocsIndexAssumption
<1>3. FileType' /\ JobType' /\ LockType' /\ ReloadType'
  <2>1. UNCHANGED <<fileVars, job, lock, threadVars>>
    BY DEF Search, SearchNotReady, SearchHit, SearchMiss, EmbedFails, Embedded,
           EmbeddedTooLate, ReadChunks, ReadChunksRaises, ReadUnits, SearchMoves
  <2>. QED BY <1>1, <2>1 DEF FileType, JobType, LockType, ReloadType, fileVars,
                             threadVars
<1>4. StoreType'
  <2>1. UNCHANGED storeVars \/ GetStore(Content(path))
    BY DEF Search, SearchNotReady, SearchHit, SearchMiss, EmbedFails, Embedded,
           EmbeddedTooLate, ReadChunks, ReadChunksRaises, ReadUnits
  <2>. QED BY <1>1, <2>1, GetStoreType, ContentType DEF StoreType, storeVars
<1>5. LoopType'
  <2>1. loop' \in {loop, s, Free}
    BY DEF Search, SearchNotReady, SearchHit, SearchMiss, EmbedFails, Embedded,
           EmbeddedTooLate, ReadChunks, ReadChunksRaises, ReadUnits
  <2>. QED BY <1>1, <2>1 DEF LoopType
<1>6. CacheType' /\ SearchType'
  <2>1. CASE SearchHit(s)
    <3>1. PICK n \in 1 .. Len(cache) :
             /\ cache[n].query = QueryOf[s]
             /\ cache' = Append(CacheWithout(QueryOf[s]), cache[n])
             /\ answer' = [answer EXCEPT ![s] = cache[n].hits]
      BY <2>1 DEF SearchHit
    <3>2. /\ search' = [search EXCEPT ![s] = "answered"] /\ chunks' = chunks
          /\ generation' = generation
      BY <2>1 DEF SearchHit, SearchMoves
    <3>3. cache[n] \in Entry
      BY <1>1, ElementOfSeq DEF CacheType
    <3>4. SearchType'
      BY <1>1, <3>1, <3>2, <3>3 DEF SearchType, Entry
    <3>. DEFINE kept == CacheWithout(QueryOf[s])
    <3>5. kept \in Seq(Entry) /\ Len(kept) < Len(cache)
      BY <1>1, <3>1, CacheWithoutProperties
    <3>6. cache' = Append(kept, cache[n])
      BY <3>1
    <3>. HIDE DEF kept
    <3>7. /\ Append(kept, cache[n]) \in Seq(Entry)
          /\ Len(Append(kept, cache[n])) = Len(kept) + 1
          /\ Len(kept) \in Nat
      BY <3>3, <3>5, AppendProperties, LenProperties
    <3>8. Len(cache) \in Nat /\ CacheSize \in Nat /\ Len(cache) <= CacheSize
      BY <1>1, LenProperties, DocsIndexAssumption DEF CacheType
    <3>9. Len(Append(kept, cache[n])) <= CacheSize
      BY <3>5, <3>7, <3>8
    <3>. QED BY <1>1, <3>2, <3>4, <3>6, <3>7, <3>9 DEF CacheType
  <2>2. CASE SearchMiss(s)
    <3>1. /\ search' = [search EXCEPT ![s] = "embedding"]
          /\ cache' = CacheWithout(QueryOf[s])
          /\ UNCHANGED <<generation, chunks, answer>>
      BY <2>2 DEF SearchMiss, SearchMoves
    <3>2. /\ CacheWithout(QueryOf[s]) \in Seq(Entry)
          /\ Len(CacheWithout(QueryOf[s])) <= Len(cache)
      BY <1>1, CacheWithoutProperties
    <3>3. /\ Len(CacheWithout(QueryOf[s])) \in Nat /\ Len(cache) \in Nat
          /\ CacheSize \in Nat /\ Len(cache) <= CacheSize
      BY <1>1, <3>2, LenProperties, DocsIndexAssumption DEF CacheType
    <3>4. Len(CacheWithout(QueryOf[s])) <= CacheSize
      BY <3>2, <3>3
    <3>. QED BY <1>1, <3>1, <3>2, <3>4 DEF CacheType, SearchType
  <2>3. CASE EmbeddedTooLate(s)
    <3>1. NoHits \in Hits
      BY DEF Hits
    <3>2. /\ search' = [search EXCEPT ![s] = "answered"] /\ chunks' = chunks
          /\ answer' = [answer EXCEPT ![s] = NoHits] /\ Put(QueryOf[s], NoHits)
      BY <2>3 DEF EmbeddedTooLate, SearchMoves
    <3>3. SearchType'
      BY <1>1, <3>1, <3>2 DEF SearchType
    <3>4. CacheType'
      BY <1>1, <1>2, <3>1, <3>2, PutProperties
    <3>. QED BY <3>3, <3>4
  <2>4. CASE ReadUnits(s)
    <3>. DEFINE hits == IF units = NoIndex THEN NoHits ELSE <<chunks[s], units>>
    <3>1. /\ search' = [search EXCEPT ![s] = "answered"] /\ chunks' = chunks
          /\ answer' = [answer EXCEPT ![s] = hits] /\ Put(QueryOf[s], hits)
      BY <2>4 DEF ReadUnits, SearchMoves
    <3>2. hits \in Hits
      <4>1. chunks[s] \in Versions
        BY <1>1, <2>4 DEF SearchType, ReadUnits, SearchMoves
      <4>2. units # NoIndex => <<chunks[s], units>> \in Versions \X Versions
        BY <1>1, <4>1 DEF StoreType
      <4>. QED BY <4>2 DEF Hits
    <3>. HIDE DEF hits
    <3>3. SearchType'
      BY <1>1, <3>1, <3>2 DEF SearchType
    <3>4. CacheType'
      BY <1>1, <1>2, <3>1, <3>2, PutProperties
    <3>. QED BY <3>3, <3>4
  <2>5. CASE SearchNotReady(s) \/ EmbedFails(s) \/ Embedded(s) \/ ReadChunks(s)
               \/ ReadChunksRaises(s)
    <3>1. /\ UNCHANGED <<cache, generation, answer>>
          /\ \E to \in {"not_ready", "failed", "ranking", "scoring"} :
                search' = [search EXCEPT ![s] = to]
          /\ \/ chunks' = chunks /\ search'[s] # "scoring"
             \/ chunks' = [chunks EXCEPT ![s] = index] /\ index # NoIndex
      BY <1>1, <2>5 DEF SearchNotReady, EmbedFails, Embedded, ReadChunks,
                  ReadChunksRaises, SearchMoves, cacheVars, SearchType
    <3>. QED BY <1>1, <3>1 DEF CacheType, SearchType, StoreType
  <2>. QED BY <2>1, <2>2, <2>3, <2>4, <2>5 DEF Search
<1>. QED BY <1>3, <1>4, <1>5, <1>6 DEF TypeInv

LEMMA TypeInductive == TypeInv /\ [Next]_vars => TypeInv'
<1>. SUFFICES ASSUME TypeInv, [Next]_vars PROVE TypeInv'
  OBVIOUS
<1>1. ASSUME NEW b \in Builders, StartIndexer(b) PROVE TypeInv'
  <2>1. /\ job' = [job EXCEPT ![b] = "building"]
        /\ UNCHANGED <<path, tmp, fd, wrote, lock, loaded, index, units, load, local,
                       cache, generation, search, chunks, answer, loop>>
    BY <1>1 DEF StartIndexer, JobMoves, fileVars, storeVars, threadVars, cacheVars,
                searchVars
  <2>2. JobType'
    BY <2>1 DEF TypeInv, JobType, JobStates, Guarded
  <2>. QED BY <2>1, <2>2 DEF TypeInv, FileType, LockType, StoreType, ReloadType,
                             CacheType, SearchType, LoopType
<1>2. CASE UNCHANGED vars
  BY <1>2 DEF vars, fileVars, storeVars, threadVars, cacheVars, searchVars, TypeInv,
              FileType, JobType, LockType, StoreType, ReloadType, CacheType,
              SearchType, LoopType
<1>. QED BY <1>1, <1>2, TypeReindex, TypeBuild, TypeLoad, TypeSearch DEF Next

(* Everything stays in its range, and the cache never holds more than         *)
(* max_entries: a put makes room, and a hit takes out what it puts back.      *)
THEOREM DocsTypeOKHolds == Spec => []DocsTypeOK
BY TypeAtFirst, TypeInductive, TypeInParts, PTL DEF Spec

-----------------------------------------------------------------------------
(* A command that writes the file, and a search that has its query's vector,  *)
(* keep the event loop: nobody bumps, cancels or begins a reload meanwhile.   *)
LoopHeld ==
    /\ \A r \in Reindexes : job[r] \in {"writing", "written"} => loop = r
    /\ \A s \in Searches : search[s] \in {"ranking", "scoring"} => loop = s

(* Before get_store() was called no search got past it, and nothing was put.  *)
NotAsked ==
    ~ loaded => /\ cache = <<>>
                /\ \A s \in Searches :
                      search[s] \notin {"embedding", "ranking", "scoring"}

NoReload == \A r \in Reindexes : ~ Reloading(r)

CacheFresh == \A n \in 1 .. Len(cache) :
                 cache[n].generation = generation => cache[n].hits = Current

ChunksFresh == \A s \in Searches : search[s] = "scoring" => chunks[s] = index

(* While no command waits for a reload, what can be found in the cache is of  *)
(* the index that is there, and so is what a search will put there.           *)
Fresh == NeverCut /\ NoReload => CacheFresh /\ ChunksFresh

CacheInv ==
    /\ TypeInv /\ StoreInv
    /\ LoopHeld /\ NotAsked /\ Fresh

-----------------------------------------------------------------------------
LEMMA CacheInvAtFirst == Init => CacheInv
<1>. SUFFICES ASSUME Init PROVE CacheInv
  OBVIOUS
<1>1. TypeInv /\ StoreInv
  BY TypeAtFirst, StoreInvAtFirst
<1>2. LoopHeld
  BY DEF Init, LoopHeld, Builders
<1>3. NotAsked /\ CacheFresh /\ ChunksFresh
  BY EmptySeq DEF Init, NotAsked, CacheFresh, ChunksFresh
<1>. QED BY <1>1, <1>2, <1>3 DEF CacheInv, Fresh

(* A step that leaves store, cache and searches alone, and ends no reload.    *)
LEMMA SameFresh ==
  ASSUME Fresh, UNCHANGED <<cache, generation, index, search, chunks>>,
         NeverCut' /\ NoReload' => NeverCut /\ NoReload
  PROVE  Fresh'
<1>1. Current' = Current
  BY DEF Current
<1>. QED BY <1>1 DEF Fresh, CacheFresh, ChunksFresh

(* What a move of a command means for the two. *)
LEMMA MoveKeepsQuiet ==
  ASSUME JobType, NEW b \in Builders, NEW from \in JobStates \ {"cut", "reloading"},
         NEW to, JobMoves(b, from, to)
  PROVE  NeverCut' /\ NoReload' => NeverCut /\ NoReload
BY DEF JobType, JobMoves, NeverCut, NoReload, Reloading, Builders

LEMMA LoopHeldReindex ==
  ASSUME JobType, LoopHeld, NEW r \in Reindexes, Reindex(r)
  PROVE  LoopHeld'
<1>1. /\ loop' = loop /\ search' = search
      /\ \E to \in JobStates \ {"writing", "written"} : job' = [job EXCEPT ![r] = to]
  BY DEF Reindex, StartReindex, RefuseReindex, Bump, Finish, Cancelled,
         Abandoned, Closed, JobMoves, JobStates, Guarded, searchVars
<1>. QED BY <1>1 DEF JobType, LoopHeld, Builders

LEMMA LoopHeldBuild ==
  ASSUME JobType, LoopHeld, NEW b \in Builders, Build(b)
  PROVE  LoopHeld'
<1>1. search' = search /\ \A r \in Reindexes : r \in Builders
  BY DEF Build, BuildFails, OpenTmp, CloseTmp, WriteFails, ReplaceAndReload,
         ReplaceOnly, ReplaceFails, searchVars, Builders
<1>2. b \notin Searches /\ Free \notin Reindexes /\ Free \notin Searches
  BY DocsIndexAssumption DEF Builders, Versions
<1>3. CASE OpenTmp(b)
  <2>1. job' = [job EXCEPT ![b] = "writing"] /\ EnterLoop(b)
    BY <1>3 DEF OpenTmp, JobMoves
  <2>2. CASE b \in Reindexes
    BY <1>1, <1>2, <2>1, <2>2 DEF EnterLoop, LoopHeld, JobType
  <2>3. CASE b \notin Reindexes
    BY <1>1, <2>1, <2>3 DEF EnterLoop, LoopHeld, JobType
  <2>. QED BY <2>2, <2>3
<1>4. CASE CloseTmp(b)
  BY <1>1, <1>4 DEF CloseTmp, JobMoves, LoopHeld, JobType
<1>5. CASE BuildFails(b) \/ WriteFails(b) \/ ReplaceAndReload(b) \/ ReplaceOnly(b)
             \/ ReplaceFails(b)
  <2>1. /\ loop' = loop \/ LeaveLoop(b)
        /\ \E to \in {"finishing", "over", "reloading"} : job' = [job EXCEPT ![b] = to]
    BY <1>5 DEF BuildFails, WriteFails, ReplaceAndReload, ReplaceOnly, ReplaceFails,
                JobMoves
  <2>2. job'[b] \notin {"writing", "written"}
           /\ \A r \in Builders : r # b => job'[r] = job[r]
    BY <2>1 DEF JobType
  <2>3. loop # b => loop' = loop
    BY <2>1 DEF LeaveLoop
  <2>. QED BY <1>1, <1>2, <2>2, <2>3 DEF LoopHeld
<1>. QED BY <1>3, <1>4, <1>5 DEF Build

LEMMA LoopHeldSearch ==
  ASSUME SearchType, LoopHeld, NEW s \in Searches, Search(s)
  PROVE  LoopHeld'
<1>1. job' = job
  BY LoadOrSearchKeepsJobs
<1>2. Searches \cap Reindexes = {} /\ Free \notin Reindexes /\ Free \notin Searches
  BY DocsIndexAssumption DEF Builders, Versions
<1>3. CASE Embedded(s)
  BY <1>1, <1>2, <1>3 DEF Embedded, SearchMoves, SearchType, LoopHeld
<1>4. CASE ReadChunks(s)
  BY <1>1, <1>4 DEF ReadChunks, SearchMoves, SearchType, LoopHeld
<1>5. CASE ReadChunksRaises(s) \/ ReadUnits(s)
  <2>1. /\ loop = s
        /\ \E to \in {"failed", "answered"} : search' = [search EXCEPT ![s] = to]
    BY <1>5 DEF ReadChunksRaises, ReadUnits, SearchMoves, LoopHeld
  <2>. QED BY <1>1, <1>2, <2>1 DEF SearchType, LoopHeld
<1>6. CASE SearchNotReady(s) \/ SearchHit(s) \/ SearchMiss(s) \/ EmbedFails(s)
             \/ EmbeddedTooLate(s)
  <2>1. /\ loop' = loop
        /\ \E to \in {"not_ready", "answered", "embedding", "failed"} :
              search' = [search EXCEPT ![s] = to]
    BY <1>6 DEF SearchNotReady, SearchHit, SearchMiss, EmbedFails, EmbeddedTooLate,
                SearchMoves
  <2>. QED BY <1>1, <2>1 DEF SearchType, LoopHeld
<1>. QED BY <1>3, <1>4, <1>5, <1>6 DEF Search

(* A search has called get_store(). *)
LEMMA SearchLoads ==
  ASSUME NotAsked, loaded \in BOOLEAN, NEW s \in Searches, Search(s)
  PROVE  loaded'
BY DEF NotAsked, Search, SearchNotReady, SearchHit, SearchMiss, EmbedFails, Embedded,
       EmbeddedTooLate, ReadChunks, ReadChunksRaises, ReadUnits, SearchMoves, GetStore,
       storeVars

(* What a search does to the cache, while no command waits for a reload.      *)
LEMMA SearchFresh ==
  ASSUME TypeInv, StoreInv, NotAsked, NEW s \in Searches, Search(s),
         NeverCut, NoReload, CacheFresh, ChunksFresh
  PROVE  CacheFresh' /\ ChunksFresh'
<1>1. units = index
  BY DEF StoreInv, StoreOfOneIndex, NoReload
<1>2. CacheType /\ SearchType /\ QueryOf[s] \in Queries /\ NoHits \in Hits
  BY DocsIndexAssumption DEF TypeInv, Hits
<1>3. CASE (SearchNotReady(s) \/ SearchHit(s) \/ SearchMiss(s)) /\ loaded
  <2>1. /\ index' = index /\ chunks' = chunks /\ generation' = generation
        /\ \E to \in {"not_ready", "answered", "embedding"} :
              search' = [search EXCEPT ![s] = to]
    BY <1>3 DEF SearchNotReady, SearchHit, SearchMiss, GetStore, SearchMoves,
                cacheVars
  <2>2. ChunksFresh'
    BY <1>2, <2>1 DEF ChunksFresh, SearchType
  <2>3. \A k \in 1 .. Len(cache') : \E n \in 1 .. Len(cache) : cache'[k] = cache[n]
    <3>1. CASE SearchNotReady(s)
      BY <3>1 DEF SearchNotReady, cacheVars
    <3>2. CASE SearchMiss(s)
      BY <1>2, <3>2, CacheWithoutProperties DEF SearchMiss
    <3>3. CASE SearchHit(s)
      <4>1. PICK n \in 1 .. Len(cache) :
               cache' = Append(CacheWithout(QueryOf[s]), cache[n])
        BY <3>3 DEF SearchHit
      <4>. DEFINE kept == CacheWithout(QueryOf[s])
      <4>2. /\ kept \in Seq(Entry)
            /\ \A k \in 1 .. Len(kept) : \E m \in 1 .. Len(cache) : kept[k] = cache[m]
        BY <1>2, CacheWithoutProperties
      <4>3. cache' = Append(kept, cache[n])
        BY <4>1
      <4>4. cache[n] \in Entry
        BY <1>2, ElementOfSeq DEF CacheType
      <4>. HIDE DEF kept
      <4>5. /\ Len(cache') = Len(kept) + 1 /\ cache'[Len(kept) + 1] = cache[n]
            /\ \A k \in 1 .. Len(kept) : cache'[k] = kept[k]
            /\ Len(kept) \in Nat
        BY <4>2, <4>3, <4>4, AppendProperties, LenProperties
      <4>6. \A k \in 1 .. Len(cache') : k \in 1 .. Len(kept) \/ k = Len(kept) + 1
        BY <4>5
      <4>. QED BY <4>2, <4>5, <4>6
    <3>. QED BY <1>3, <3>1, <3>2, <3>3
  <2>4. Current' = Current
    BY <2>1 DEF Current
  <2>. QED BY <2>1, <2>2, <2>3, <2>4 DEF CacheFresh
<1>4. CASE (SearchNotReady(s) \/ SearchHit(s) \/ SearchMiss(s)) /\ ~ loaded
  <2>1. cache = <<>> /\ \A x \in Searches : search[x] # "scoring"
    BY <1>4 DEF NotAsked
  <2>2. Len(cache) = 0
    BY <2>1, EmptySeq
  <2>3. ~ SearchHit(s)
    BY <2>2 DEF SearchHit
  <2>4. CacheType' /\ Len(cache') = 0
    <3>1. CASE SearchNotReady(s)
      BY <1>2, <2>2, <3>1 DEF SearchNotReady, CacheType, cacheVars
    <3>2. CASE SearchMiss(s)
      <4>1. /\ cache' = CacheWithout(QueryOf[s]) /\ generation' = generation
        BY <3>2 DEF SearchMiss
      <4>2. /\ CacheWithout(QueryOf[s]) \in Seq(Entry)
            /\ Len(CacheWithout(QueryOf[s])) <= 0
        BY <1>2, <2>2, CacheWithoutProperties
      <4>3. Len(CacheWithout(QueryOf[s])) = 0 /\ 0 <= CacheSize
        BY <4>2, LenProperties, DocsIndexAssumption
      <4>. QED BY <1>2, <4>1, <4>2, <4>3 DEF CacheType
    <3>. QED BY <1>4, <2>3, <3>1, <3>2
  <2>5. CacheFresh'
    BY <2>4 DEF CacheFresh
  <2>6. \E to \in {"not_ready", "embedding"} : search' = [search EXCEPT ![s] = to]
    BY <1>4, <2>3 DEF SearchNotReady, SearchMiss, SearchMoves
  <2>7. ChunksFresh'
    BY <1>2, <2>1, <2>6 DEF ChunksFresh, SearchType
  <2>. QED BY <2>5, <2>7
<1>5. CASE EmbedFails(s) \/ Embedded(s) \/ ReadChunks(s) \/ ReadChunksRaises(s)
  <2>1. /\ UNCHANGED <<index, units, loaded, cache, generation>>
        /\ \/ chunks' = chunks
                /\ \E to \in {"failed", "ranking"} : search' = [search EXCEPT ![s] = to]
           \/ /\ chunks' = [chunks EXCEPT ![s] = index]
              /\ search' = [search EXCEPT ![s] = "scoring"]
    BY <1>5 DEF EmbedFails, Embedded, ReadChunks, ReadChunksRaises, SearchMoves,
                storeVars, cacheVars
  <2>2. ChunksFresh'
    BY <1>2, <2>1 DEF ChunksFresh, SearchType
  <2>3. CacheFresh'
    BY <2>1 DEF CacheFresh, Current
  <2>. QED BY <2>2, <2>3
<1>6. ASSUME NEW hits \in Hits, hits = Current, Put(QueryOf[s], hits),
             search' = [search EXCEPT ![s] = "answered"],
             UNCHANGED <<index, chunks>>
      PROVE  CacheFresh' /\ ChunksFresh'
  <2>1. ChunksFresh'
    BY <1>2, <1>6 DEF ChunksFresh, SearchType
  <2>. DEFINE entry == [query |-> QueryOf[s], generation |-> generation, hits |-> hits]
  <2>2. /\ generation' = generation
        /\ \A k \in 1 .. Len(cache') :
              cache'[k] = entry \/ \E n \in 1 .. Len(cache) : cache'[k] = cache[n]
    BY <1>2, <1>6, PutProperties
  <2>3. entry.hits = Current /\ Current' = Current
    BY <1>6 DEF Current
  <2>. HIDE DEF entry
  <2>. QED BY <2>1, <2>2, <2>3 DEF CacheFresh
<1>7. CASE EmbeddedTooLate(s)
  <2>1. /\ Put(QueryOf[s], NoHits) /\ NoHits = Current
        /\ search' = [search EXCEPT ![s] = "answered"] /\ UNCHANGED <<index, chunks>>
    BY <1>1, <1>7 DEF EmbeddedTooLate, SearchMoves, storeVars, Current
  <2>. QED BY <1>2, <1>6, <2>1
<1>8. CASE ReadUnits(s)
  <2>. DEFINE hits == IF units = NoIndex THEN NoHits ELSE <<chunks[s], units>>
  <2>1. chunks[s] = index
    BY <1>8 DEF ReadUnits, SearchMoves, ChunksFresh
  <2>2. hits = Current
    BY <1>1, <2>1 DEF Current
  <2>3. hits \in Hits
    <3>1. index # NoIndex => <<index, index>> \in Versions \X Versions
      BY DEF TypeInv, StoreType
    <3>. QED BY <2>2, <3>1 DEF Current, Hits
  <2>4. /\ Put(QueryOf[s], hits)
        /\ search' = [search EXCEPT ![s] = "answered"] /\ UNCHANGED <<index, chunks>>
    BY <1>8 DEF ReadUnits, SearchMoves, storeVars
  <2>. HIDE DEF hits
  <2>. QED BY <1>6, <2>2, <2>3, <2>4
<1>. QED BY <1>3, <1>4, <1>5, <1>7, <1>8 DEF Search, TypeInv, StoreType

LEMMA CacheInvInductive == CacheInv /\ [Next]_vars => CacheInv'
<1>. SUFFICES ASSUME CacheInv, [Next]_vars PROVE CacheInv'
  OBVIOUS
<1>1. TypeInv' /\ StoreInv'
  BY TypeInductive, StoreInvInductive DEF CacheInv
<1>2. /\ JobType /\ SearchType /\ CacheType /\ loaded \in BOOLEAN
      /\ LoopHeld /\ NotAsked /\ Fresh
  BY DEF CacheInv, TypeInv, StoreType
<1>3. ASSUME NEW r \in Reindexes, Reindex(r) PROVE LoopHeld' /\ NotAsked' /\ Fresh'
  <2>1. r \in Builders
    BY DEF Builders
  <2>2. LoopHeld'
    BY <1>2, <1>3, LoopHeldReindex
  <2>3. /\ UNCHANGED <<loaded, index, search, chunks>> /\ loop = Free
        /\ UNCHANGED cacheVars \/ Bump(r)
    BY <1>3 DEF Reindex, StartReindex, RefuseReindex, Bump, Finish, Cancelled,
                Abandoned, Closed, storeVars, searchVars
  <2>4. NotAsked'
    BY <1>2, <2>3 DEF NotAsked, Bump, cacheVars
  <2>5. CASE Bump(r)
    <3>1. \A s \in Searches : search'[s] # "scoring"
      BY <1>2, <2>3, DocsIndexAssumption DEF LoopHeld
    <3>2. Len(cache') = 0
      BY <2>5, EmptySeq DEF Bump
    <3>. QED BY <2>2, <2>4, <3>1, <3>2 DEF Fresh, CacheFresh, ChunksFresh
  <2>6. CASE UNCHANGED cacheVars
    <3>1. CASE Bump(r)
      BY <2>5, <3>1
    <3>2. CASE Cancelled(r) /\ JobMoves(r, "reloading", "cut")
      <4>1. ~ NeverCut'
        BY <1>2, <2>1, <3>2 DEF JobMoves, JobType, NeverCut
      <4>. QED BY <2>2, <2>4, <4>1 DEF Fresh
    <3>3. CASE ~ Bump(r) /\ ~ (Cancelled(r) /\ JobMoves(r, "reloading", "cut"))
      <4>1. \E from \in JobStates \ {"cut", "reloading"}, to \in JobStates :
               JobMoves(r, from, to)
        <5>1. \/ JobMoves(r, "new", "building") \/ JobMoves(r, "new", "refused")
              \/ JobMoves(r, "finishing", "over") \/ JobMoves(r, "building", "over")
              \/ JobMoves(r, "building", "abandoned")
              \/ JobMoves(r, "finishing", "abandoned")
              \/ JobMoves(r, "abandoned", "over")
          BY <1>3, <3>3 DEF Reindex, StartReindex, RefuseReindex, Finish, Cancelled,
                            Abandoned, Closed
        <5>2. /\ {"new", "finishing", "building", "abandoned"}
                    \subseteq JobStates \ {"cut", "reloading"}
              /\ {"building", "refused", "over", "abandoned"} \subseteq JobStates
          BY DEF JobStates, Guarded
        <5>. QED BY <5>1, <5>2
      <4>2. NeverCut' /\ NoReload' => NeverCut /\ NoReload
        BY <1>2, <2>1, <4>1, MoveKeepsQuiet
      <4>. QED BY <1>2, <2>2, <2>3, <2>4, <2>6, <4>2, SameFresh DEF cacheVars
    <3>. QED BY <3>1, <3>2, <3>3
  <2>. QED BY <2>3, <2>5, <2>6
<1>4. ASSUME NEW b \in Builders, Build(b) PROVE LoopHeld' /\ NotAsked' /\ Fresh'
  <2>1. LoopHeld'
    BY <1>2, <1>4, LoopHeldBuild
  <2>2. /\ UNCHANGED <<cache, generation, search, chunks>>
        /\ loaded' => loaded \/ ReplaceAndReload(b)
        /\ loaded => loaded'
    BY <1>4 DEF Build, BuildFails, OpenTmp, CloseTmp, WriteFails, ReplaceAndReload,
                ReplaceOnly, ReplaceFails, GetStore, cacheVars, searchVars, storeVars
  <2>3. NotAsked'
    BY <1>2, <2>2 DEF NotAsked
  <2>4. CASE ReplaceAndReload(b)
    <3>1. b \in Reindexes /\ Reloading(b)'
      BY <1>2, <2>4 DEF ReplaceAndReload, JobMoves, JobType, Reloading
    <3>. QED BY <2>1, <2>3, <3>1 DEF Fresh, NoReload
  <2>5. CASE ~ ReplaceAndReload(b)
    <3>. DEFINE failed == IF b \in Reindexes THEN "finishing" ELSE "over"
    <3>1. /\ index' = index
          /\ \/ JobMoves(b, "building", failed) \/ JobMoves(b, "building", "writing")
             \/ JobMoves(b, "writing", "written") \/ JobMoves(b, "writing", failed)
             \/ JobMoves(b, "written", failed)
      BY <1>4, <2>5 DEF Build, BuildFails, OpenTmp, CloseTmp, WriteFails, ReplaceOnly,
                        ReplaceFails, storeVars
    <3>2. {"building", "writing", "written"} \subseteq JobStates \ {"cut", "reloading"}
      BY DEF JobStates, Guarded
    <3>. HIDE DEF failed
    <3>3. NeverCut' /\ NoReload' => NeverCut /\ NoReload
      BY <1>2, <3>1, <3>2, MoveKeepsQuiet
    <3>. QED BY <1>2, <2>1, <2>2, <2>3, <3>1, <3>3, SameFresh
  <2>. QED BY <2>4, <2>5
<1>5. ASSUME NEW b \in Builders, StartIndexer(b) PROVE LoopHeld' /\ NotAsked' /\ Fresh'
  <2>1. /\ UNCHANGED <<cache, generation, index, search, chunks, loaded, loop>>
        /\ JobMoves(b, "new", "building") /\ b \notin Reindexes
    BY <1>5, DocsIndexAssumption DEF StartIndexer, storeVars, cacheVars, searchVars
  <2>2. NeverCut' /\ NoReload' => NeverCut /\ NoReload
    BY <1>2, <2>1, MoveKeepsQuiet DEF JobStates
  <2>3. \A r \in Reindexes : job'[r] = job[r]
    BY <1>2, <2>1 DEF JobMoves, JobType, Builders
  <2>4. LoopHeld' /\ NotAsked'
    BY <1>2, <2>1, <2>3 DEF LoopHeld, NotAsked
  <2>. QED BY <1>2, <2>1, <2>2, <2>4, SameFresh
<1>6. ASSUME NEW r \in Reindexes, Load(r) PROVE LoopHeld' /\ NotAsked' /\ Fresh'
  <2>1. /\ UNCHANGED <<job, loaded, cache, generation, search, chunks, loop>>
        /\ load[r] \notin {"idle", "done"}
    BY <1>6 DEF Load, LoadRead, LoadUnreadable, LoadNormalise, LoadAssign, LoadLog,
                LoadRaises, LoadDropsIndex, LoadDropsUnits, LoadMoves, cacheVars,
                searchVars
  <2>2. LoopHeld' /\ NotAsked'
    BY <1>2, <2>1 DEF LoopHeld, NotAsked
  <2>3. NeverCut => Reloading(r)
    BY <2>1 DEF CacheInv, StoreInv, StoreOfOneIndex
  <2>4. ~ (NeverCut' /\ NoReload')
    BY <2>1, <2>3 DEF NeverCut, NoReload, Reloading
  <2>. QED BY <2>2, <2>4 DEF Fresh
<1>7. ASSUME NEW s \in Searches, Search(s) PROVE LoopHeld' /\ NotAsked' /\ Fresh'
  <2>1. LoopHeld' /\ loaded' /\ job' = job
    BY <1>2, <1>7, LoopHeldSearch, SearchLoads, LoadOrSearchKeepsJobs
  <2>2. NeverCut' /\ NoReload' => NeverCut /\ NoReload
    BY <2>1 DEF NeverCut, NoReload, Reloading
  <2>3. Fresh'
    BY <1>2, <1>7, <2>2, SearchFresh DEF Fresh, CacheInv
  <2>. QED BY <2>1, <2>3 DEF NotAsked
<1>8. ASSUME UNCHANGED vars PROVE LoopHeld' /\ NotAsked' /\ Fresh'
  <2>1. UNCHANGED <<job, loaded, index, cache, generation, search, chunks, loop>>
    BY <1>8 DEF vars, cacheVars, storeVars, searchVars
  <2>2. LoopHeld' /\ NotAsked'
    BY <1>2, <2>1 DEF LoopHeld, NotAsked
  <2>3. NeverCut' /\ NoReload' => NeverCut /\ NoReload
    BY <2>1 DEF NeverCut, NoReload, Reloading
  <2>. QED BY <1>2, <2>1, <2>2, <2>3, SameFresh
<1>9. LoopHeld' /\ NotAsked' /\ Fresh'
  BY <1>3, <1>4, <1>5, <1>6, <1>7, <1>8 DEF Next
<1>. QED BY <1>1, <1>9 DEF CacheInv

(* Between reloads all the cache can give is what the present index gives,    *)
(* unless a /reindex was cancelled in its reload.                             *)
THEOREM CacheCurrentHolds == Spec => []CacheCurrentUnlessCut
<1>1. CacheInv => CacheCurrentUnlessCut
  BY DEF CacheInv, Fresh, NoReload, Reloading, CacheFresh, CacheCurrentUnlessCut,
         CacheCurrent, Quiet
<1>. QED BY <1>1, CacheInvAtFirst, CacheInvInductive, PTL DEF Spec
=============================================================================
