---------------------------- MODULE IndexSupply ----------------------------
(***************************************************************************)
(* Where the documentation index comes from: the indexer (agent/rag/       *)
(* indexer.py), run by the workflow that publishes it as a release         *)
(* (.github/workflows/rebuild-docs-index.yml) or by hand on the agent's    *)
(* volume, and the agent's boot, which downloads the release               *)
(* (agent/rag/bootstrap.py) and may be killed at any point of it.          *)
(*                                                                         *)
(* How one indexer shares its files with /reindex and its own like is      *)
(* DocsIndex's subject; here a build is alone and its file is whole.       *)
(***************************************************************************)
EXTENDS Chunker

CONSTANTS
    Documents,    \* what the paths may hold: a document for each, in order
    Skipped,      \* a 404, or an error
    EmbedBatch,   \* EMBED_BATCH
    MaxBuilds, MaxCrashes,
    NoPin,        \* no AGENT_INDEX_BOOTSTRAP_SHA256
    NoFile

Builds == 1 .. MaxBuilds
Foreign == 0      \* whatever else the URL comes to serve

ASSUME IndexSupplyAssumption ==
    /\ \A paths \in Documents :
          /\ paths \in Seq(ToSet(paths))
          /\ \A i \in DOMAIN paths : IsDocument(paths[i]) /\ paths[i] # Skipped
    /\ EmbedBatch \in Nat \ {0}
    /\ MaxBuilds \in Nat /\ MaxCrashes \in Nat
    /\ NoPin \notin Builds

VARIABLES
    docs,       \* what the paths do hold
    (* The indexer. *)
    build,      \* how many runs there have been
    phase,      \* where the last one is
    fetched,    \* its documents
    chunks,     \* its chunks, each with the path it comes from
    embeddings, \* the chunk that each of its vectors was computed from
    batch,      \* i, in the loop over the batches
    content,    \* of each build's file: chunks with their vectors
    release,    \* the file at the URL, or NoFile
    (* The agent. *)
    https, pin, \* its configuration
    boot,       \* where it is in its boot
    tmp, path,  \* the files on its volume, or NoFile
    loaded,     \* get_store() has been called
    index,      \* what it then found, or NoFile
    (* History variables. *)
    short,      \* builds that were given too few vectors for a batch
    local,      \* builds that were run on the volume
    crashes

releaseVars == <<docs, build, release, content>>
runVars == <<phase, fetched, chunks, embeddings, batch, short>>
configVars == <<https, pin>>
fileVars == <<tmp, path, local>>
storeVars == <<loaded, index>>
agentVars == <<configVars, boot, fileVars, storeVars, crashes>>
vars == <<releaseVars, runVars, agentVars>>

File == [by : Builds \cup {Foreign}, whole : BOOLEAN]

Booting == {"checking", "requesting", "streaming", "verifying", "installing"}

(* Files, builds and boots in their ranges; only tmp is ever half written.  *)
SupplyTypeOK ==
    /\ build \in 0 .. MaxBuilds
    /\ phase \in {"idle", "embedding", "built", "publishing"}
    /\ \A i \in DOMAIN fetched : fetched[i] \in {docs[i], Skipped}
    /\ \A i \in DOMAIN chunks : chunks[i].source \in DOMAIN docs
    /\ embeddings \in Seq(ToSet(chunks))
    /\ batch \in Nat
    /\ DOMAIN content = Builds
    /\ release \in File \cup {NoFile}
    /\ https \in BOOLEAN /\ pin \in Builds \cup {NoPin}
    /\ boot \in {"down", "up", "broken"} \cup Booting
    /\ tmp \in File \cup {NoFile}
    /\ \A file \in {path, index, release} \ {NoFile} : file.whole
    /\ path \in File \cup {NoFile}
    /\ loaded \in BOOLEAN
    /\ index \in File \cup {NoFile}
    /\ short \subseteq Builds /\ local \subseteq Builds
    /\ crashes \in 0 .. MaxCrashes

Init ==
    /\ docs \in Documents
    /\ build = 0 /\ phase = "idle"
    /\ fetched = <<>> /\ chunks = <<>> /\ embeddings = <<>> /\ batch = 0
    /\ content = [b \in Builds |-> <<>>]
    /\ release = NoFile
    /\ https \in BOOLEAN /\ pin \in Builds \cup {NoPin}
    /\ boot = "down"
    /\ tmp = NoFile /\ path = NoFile
    /\ loaded = FALSE /\ index = NoFile
    /\ short = {} /\ local = {} /\ crashes = 0
-----------------------------------------------------------------------------
FileChunks(i) ==
    LET of_file == ChunkMarkdown(docs[i])
    IN  [k \in DOMAIN of_file |-> [source |-> i, chunk |-> of_file[k]]]

(* _fetch_markdown of every path, and the chunks of those that came. *)
Fetch ==
    /\ phase = "idle" /\ build < MaxBuilds
    /\ build' = build + 1
    /\ \E missing \in SUBSET DOMAIN docs :
          /\ fetched' = [i \in DOMAIN docs |->
                             IF i \in missing THEN Skipped ELSE docs[i]]
          /\ chunks' = FlattenSeq([i \in DOMAIN docs |->
                            IF i \in missing THEN <<>> ELSE FileChunks(i)])
    /\ embeddings' = <<>> /\ batch' = 0
    /\ phase' = IF chunks' = <<>> THEN "idle" ELSE "embedding"   \* IndexerError
    /\ UNCHANGED <<docs, release, content, short, agentVars>>

Least(m, n) == IF m < n THEN m ELSE n

BatchEnd == Least(batch + EmbedBatch, Len(chunks))

(* One batch.  embed() promises a vector for every text, in order, and hands
   on as many as the answer has.                                            *)
Embed ==
    /\ phase = "embedding" /\ batch < Len(chunks)
    /\ LET asked == SubSeq(chunks, batch + 1, BatchEnd)
       IN  \/ embeddings' = embeddings \o asked /\ UNCHANGED short
           \/ /\ embeddings' = embeddings \o Tail(asked)
              /\ short' = short \cup {build}
    /\ batch' = batch + EmbedBatch
    /\ UNCHANGED <<releaseVars, phase, fetched, chunks, agentVars>>

(* The endpoint fails, or the disk, or the run is killed.                   *)
BuildFails ==
    /\ phase = "embedding"
    /\ phase' = "idle"
    /\ UNCHANGED <<releaseVars, fetched, chunks, embeddings, batch, short,
                   agentVars>>

(* zip(chunks, chunk_urls, embeddings), written.                            *)
Write ==
    /\ phase = "embedding" /\ batch >= Len(chunks)
    /\ content' = [content EXCEPT ![build] =
          [i \in 1 .. Least(Len(chunks), Len(embeddings)) |->
              [text |-> chunks[i], vector |-> embeddings[i]]]]
    /\ phase' = "built"
    /\ UNCHANGED <<docs, build, release, fetched, chunks, embeddings, batch,
                   short, agentVars>>

Whole(b) == [by |-> b, whole |-> TRUE]

(* The run was one on the agent's volume. *)
InstallLocally ==
    /\ phase = "built" /\ phase' = "idle"
    /\ path' = Whole(build)
    /\ local' = local \cup {build}
    /\ UNCHANGED <<releaseVars, fetched, chunks, embeddings, batch, short,
                   configVars, boot, tmp, storeVars, crashes>>

(* gh release delete, then gh release create, which may fail. *)
Unpublish ==
    /\ phase = "built" /\ phase' = "publishing"
    /\ release' = NoFile
    /\ UNCHANGED <<docs, build, content, fetched, chunks, embeddings, batch,
                   short, agentVars>>

Publish ==
    /\ phase = "publishing" /\ phase' = "idle"
    /\ release' \in {Whole(build), NoFile}
    /\ UNCHANGED <<docs, build, content, fetched, chunks, embeddings, batch,
                   short, agentVars>>

(* The URL comes to serve something that no build made. *)
ForeignRelease ==
    /\ release # Whole(Foreign)
    /\ release' = Whole(Foreign)
    /\ UNCHANGED <<docs, build, content, runVars, agentVars>>
-----------------------------------------------------------------------------
Moves(from, to) == boot = from /\ boot' = to

Start ==
    /\ Moves("down", "checking")
    /\ UNCHANGED <<releaseVars, runVars, configVars, fileVars, storeVars,
                   crashes>>

(* No https URL, or a file that is there already: nothing is downloaded. *)
CheckPath ==
    /\ Moves("checking", IF https /\ path = NoFile THEN "requesting" ELSE "up")
    /\ UNCHANGED <<releaseVars, runVars, configVars, fileVars, storeVars,
                   crashes>>

(* raise_for_status has passed; tmp is opened anew. *)
Request ==
    /\ Moves("requesting", "streaming")
    /\ release # NoFile
    /\ tmp' = [release EXCEPT !.whole = FALSE]
    /\ UNCHANGED <<releaseVars, runVars, configVars, path, local, storeVars,
                   crashes>>

(* Slip: a body that was cut short passes for whole. *)
StreamBreaks ==
    /\ Moves("streaming", "verifying")
    /\ UNCHANGED <<releaseVars, runVars, configVars, fileVars, storeVars,
                   crashes>>

StreamEnds ==
    /\ Moves("streaming", "verifying")
    /\ tmp' = [tmp EXCEPT !.whole = TRUE]
    /\ UNCHANGED <<releaseVars, runVars, configVars, path, local, storeVars,
                   crashes>>

(* Slip: without the file of another digest out of the way. *)
VerifyUnpinned ==
    /\ Moves("verifying", "installing")
    /\ UNCHANGED <<releaseVars, runVars, configVars, fileVars, storeVars,
                   crashes>>

(* A digest other than the pin's: the file goes to .bootstrap.reject.       *)
Verify ==
    /\ boot = "verifying"
    /\ \/ /\ pin \in {NoPin, tmp.by}
          /\ boot' = "installing" /\ UNCHANGED tmp
       \/ /\ pin \notin {NoPin, tmp.by}
          /\ boot' = "up" /\ tmp' = NoFile
    /\ UNCHANGED <<releaseVars, runVars, configVars, path, local, storeVars,
                   crashes>>

(* tmp.replace(path), whatever has come to path since it was looked at. *)
Install ==
    /\ Moves("installing", "up")
    /\ path' = tmp /\ tmp' = NoFile
    /\ UNCHANGED <<releaseVars, runVars, configVars, local, storeVars, crashes>>

(* Slip: a download that fails is let through to the lifespan. *)
GiveUpForGood ==
    /\ boot \in Booting \ {"checking"}
    /\ boot' = "broken"
    /\ UNCHANGED <<releaseVars, runVars, configVars, fileVars, storeVars,
                   crashes>>

(* The except: tmp is removed if it can be, and the agent is up without an
   index.                                                                   *)
GiveUp ==
    /\ boot \in Booting \ {"checking"}
    /\ boot' = "up"
    /\ tmp' \in {tmp, NoFile}
    /\ UNCHANGED <<releaseVars, runVars, configVars, path, local, storeVars,
                   crashes>>

(* The process dies: it is killed, or cannot make the index's directory. *)
Crash ==
    /\ boot # "down" /\ crashes < MaxCrashes
    /\ boot' = "down" /\ crashes' = crashes + 1
    /\ loaded' = FALSE /\ index' = NoFile
    /\ UNCHANGED <<releaseVars, runVars, configVars, fileVars>>

(* The first search: get_store() loads what there is, once. *)
Load ==
    /\ boot = "up" /\ ~ loaded
    /\ loaded' = TRUE /\ index' = path
    /\ UNCHANGED <<releaseVars, runVars, configVars, boot, fileVars, crashes>>
-----------------------------------------------------------------------------
BootStep ==
    Start \/ CheckPath \/ Request \/ StreamEnds \/ Verify \/ Install \/ GiveUp

BuildStep ==
    \/ Fetch \/ Embed \/ BuildFails \/ Write
    \/ InstallLocally \/ Unpublish \/ Publish

Next == BuildStep \/ ForeignRelease \/ BootStep \/ Crash \/ Load

(* The boot goes on: a download either ends or times out. *)
Spec == Init /\ [][Next]_vars /\ WF_vars(BootStep)
-----------------------------------------------------------------------------
(* A build's chunks are its documents', in order, each under its headings.  *)
ChunksFaithful ==
    \A i \in DOMAIN fetched :
        LET of_file == Picked(chunks, {n \in DOMAIN chunks : chunks[n].source = i})
        IN  FaithfulTo(IF fetched[i] = Skipped THEN <<>> ELSE docs[i],
                       [k \in DOMAIN of_file |-> of_file[k].chunk])

(* Every text goes with the vector computed from it, unless the embedding
   endpoint left one out.                                                   *)
Aligned(b) ==
    b \in Builds \ short =>
        \A i \in DOMAIN content[b] : content[b][i].text = content[b][i].vector

(* What is on the volume, and what the agent answers from, is a whole index:
   one built there, or one that came by https and is the pinned one if one is
   pinned; its texts and vectors belong together.                           *)
ServedTrusted ==
    \A file \in {path, index} \ {NoFile} :
        /\ file.whole
        /\ file.by \in local \/ (https /\ pin \in {NoPin, file.by})
        /\ Aligned(file.by)

(* Whatever becomes of the download, the boot comes to its end, unless the
   process dies.                                                            *)
BootEnds ==
    \A n \in 0 .. MaxCrashes :
        boot \in Booting /\ crashes = n ~> boot = "up" \/ crashes > n
=============================================================================
