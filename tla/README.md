# Certmate-agent in TLA+

Certmate-agent is a FastAPI service that answers questions about CertMate: a
chat endpoint streams the events of a turn, a turn asks a language model (with a
second provider to fall back on) and lets it search the documentation, slash
commands do the same without a model, and a browser widget shows the result.
This directory models the parts of it whose correctness depends on the order of
steps, checks the models with TLC and proves what matters most with TLAPS.

The source is the reference. Every definition that stands for code is listed in
`PROJECT.json` under `map` with the lines it stands for.

## 1. The system

| Part | State | Operations | Talks to |
|---|---|---|---|
| Rate limiter (`rate_limit.py`) | a bucket per caller key | `check`, `gc`, `enforce` | called by `chat()` |
| Concurrency limiter (`rate_limit.py`) and endpoint (`api/chat.py`) | count of streams per key; one `stream()` generator per request | `acquire`, `release`, the gates of `chat()`, iterating and closing the generator | limiters, the turn, the HTTP server |
| LLM chain (`llm/chain.py`, `lmstudio.py`, `openrouter.py`) | failures in a row, `tripped_until`, the call in progress | `chat_stream`: ask, hand over, give up | two HTTP providers |
| Chat loop (`chat_loop.py`) | messages, tool calls gathered from the stream, iteration | `run_turn`: request, stream, call tools, save, bail out | chain, tools, store, slash commands |
| Slash commands (`slash.py`) | `_reindex_lock` | `/help`, `/docs`, `/reindex`, unknown | index, audit log |
| Documentation index (`rag/indexer.py`, `store.py`, `cache.py`, `tools/registry.py`) | file and temporary file, `_index`, `_unit_chunks`, cache with a generation | build and rename, `load`/`reload` in a thread, `rank`, `get`/`put`, bump | disk, embedding server |
| Conversation store (`db.py`), API (`api/conversations.py`), scheduler (`scheduler.py`) | one sqlite connection and its transaction; two tables | load, append, clear, prune, audit | threads of `asyncio.to_thread`, the event loop |
| Index bootstrap (`rag/bootstrap.py`), embed client (`llm/shared.py`) | a download beside the index; a singleton client | download, verify, install; open, close | disk, network |
| Widget (`widget/*.js`) | session id and token, history, streaming bubble, pending tool cards | send, parse events, new session, restore | endpoint, local storage |

What is hard about each, and what would make it correct:

* **Rate limiter.** Refill is lazy and amounts are cut off at the capacity; the
  class can forget idle buckets, though nothing in the agent calls `gc`. Correct:
  no window of time lets a caller through more often than burst plus refill.
* **Endpoint.** The slot is taken in the handler and given back in the `finally`
  of a generator that somebody else runs, and may never run. Correct: the count
  is the number of slots really taken; nobody is refused below the limit; a slot
  comes back, whatever ends the stream.
* **Chain.** A provider may fail before the first chunk, after it, or never.
  Correct: the answer of one call is one provider's; a failing primary rests for
  its cooldown; a working one is not passed over.
* **Chat loop.** Every `await` is a place where the client may be gone, and every
  one of provider, tool and database may fail. Correct: each request to the model
  is a well-formed conversation (a call has its answer, an answer its call), a
  turn that returns leaves no half of an exchange, the client sees a stream it can
  follow, with an end, and the turn ends.
* **Index.** A reload runs in a thread beside the event loop, a second process
  writes the same file, and commands are cancelled in the middle. Correct: texts
  and vectors are of one index; the cache does not outlive a reload; the file can
  always be read.
* **Store.** Threads share one connection and so one transaction. Correct: what
  was acknowledged is there, through failures and restarts; nothing is left open.
* **Supply of the index.** Headings stack up and are forgotten, chunks and
  vectors meet by position over batches, a download may break, be replaced, or be
  repeated after a crash. Correct: a text stands under its own headings and goes
  with its own vector; nothing is answered from an index that is not whole, or
  not the pinned one; the agent boots whatever becomes of the download.
* **Widget.** Two tabs, an aborted stream, a new session while a turn runs, a
  history that arrives late. Correct: what is shown and remembered belongs to the
  session it is shown in, a result goes into its own card, and the composer comes
  back.

The list of hazards, each at its line, is `hazards` in `PROJECT.json`.

## 2. The modules

```
TokenBucket  <- RateLimiter        (refinement)          LimiterProofs
     ^
     | INSTANCE
ChatEndpoint                                             LimiterProofs

ChatLLM  <- Breaker  (EXTENDS: turn after turn)          BreakerProofs
     ^
     | EXTENDS
ChatTurn  -> TurnProtocol  (refinement) <- INSTANCE - Widget
                                                       |  ChatTurnProofs, WidgetProofs
ConversationDb -> ConversationStore (refinement) <-----+  ConversationDbProofs

DocsIndex                                                DocsIndexProofs
Chunker <- IndexSupply  (EXTENDS)                        IndexSupplyProofs

Picking  (used by ChatTurn, DocsIndex, ConversationStore, ConversationDb,
          Widget, Chunker)                               SequenceLemmas
```

**TokenBucket** is the promise of the rate limiter: a level per key that rises
with time and is spent a token at a time. **RateLimiter** is `rate_limit.py`:
`CheckNewKey`, `CheckSpend`, `CheckDisabled` and the refusal are the outcomes of
`check`, `Gc` is `gc`, and `RetryAfterSeconds` the header of `enforce`. A token
is `Period` units and a tick refills `Capacity` units, so amounts are exact
integers; what the code's floats round away is not modelled. Both methods hold
an `asyncio.Lock` without awaiting under it, so a call is one step. `gc` has no
caller in the agent, where buckets are never forgotten: the module is of the class
and lets `Gc` come at any time, and what is shown holds also if it never does.
`Abstract == INSTANCE TokenBucket WITH level <- ...` maps a bucket to its level
now, and a missing bucket to a full one.

**ChatEndpoint** composes the abstract limiter with the concurrency limiter and
the generator. `chat()` does not suspend between its first and last line, so
each of its outcomes is one action: `Forbid`, `RateLimited`, `TooMany`,
`AdminCheckRaises`, `Respond`. The generator is then run by the server:
`StartBody`, `YieldEvent`, `Sent`, `LeaveTry`, `Finalise`, with `HeadFails` (the
client is gone before the body is iterated) and `Abandon` (it is gone while the
server sends). `pc` holds the place of each request. A client that is connected
and does not read keeps its generator at `sending` (`Stalls`): nothing times out
a send.

**ChatLLM** is one object of `chain.py`: `ChatStream` chooses the provider,
`Chunk`, `PrimaryEnds`, `PrimaryFailsBeforeEmit`, `PrimaryFailsAfterEmit`,
`FallbackEnds` and `FallbackFails` are what the providers may do. What a provider
does is the environment's choice; time is `clock`. **Breaker** runs it over calls
and turns (`NewTurn` is the fresh `ChatLLM` of every `run_turn`) and keeps the
history the properties speak of.

**ChatTurn** extends ChatLLM with `run_turn` and the forwarding `stream()`. `pc`
follows the code from await to await; `tc_acc` is the table of tool calls by
index, `messages` what the next request carries (role, and the id of a call or of
what it answers), `saved` the roles appended. `Drop` can end the turn at any
await. The slash commands are their possible sequences of events
(`SlashFollows`). `Ended` tells apart how a turn ends: `run_turn` returned (`over`),
`stream()` told an exception of it (`failed`), or it was dropped. `ExchangeKept`
says what `done` and the end of a turn mean for the conversation. `run_turn`'s own
`done` comes after the whole exchange was saved. A slash command's does not: its
handler sends it, and only when it is exhausted the appends begin
(`chat_loop.py:163-176`), so a client that leaves at the `done` may drop them, and
one of them that fails adds an error and a second `done`. `stream()`'s `done` comes
after an error and with less than the exchange saved. Half of an exchange is left
only by an exception or a dropped turn.

**TurnProtocol** is what a client may rely on: `Follows` says which event may come
after which, `Send` and `Close` that a stream that was not cut off has `done` or
`error` for its last event. One ending it does not promise, as the code gives two
after a slash command whose exchange could not be saved. `FollowsProtocol` says
that ChatTurn implements it; `beat`, flipped by every event, makes a repeated event
visible to the refinement.

**DocsIndex** has the directory as files with writers (a name, and who wrote to
the file behind it), the builders' progress, the reindex lock, the two fields of
the store which a reload thread writes at different times, the cache with its
generations, and searches suspended between look-up, embedding and ranking.
`loop` says who is in the middle of a step of the event loop: threads and other
processes may act there, coroutines not.

**Chunker** is `chunk_markdown`, computed with folds over the sections that
`_split_sections` returns: `Under` is the stack of headings, `Flush` and
`PackParagraphs` cut what has gathered. A paragraph is its place and its length,
so an answer can be compared with `Lineage` and `FaithfulTo`, which say what is
expected without a stack. **IndexSupply** extends it with the life of an index:
`Fetch`, `Embed` (a batch at a time; the endpoint may leave a vector out) and
`Write` are the indexer, `InstallLocally` a run of it on the agent's volume,
`Unpublish` and `Publish` the two commands of the workflow, `ForeignRelease`
whatever else the URL may come to serve. `Start`, `CheckPath`, `Request`,
`StreamEnds`, `Verify`, `Install` and `GiveUp` are `maybe_bootstrap_index` from
await to await, with `Crash` between any two, and `Load` is the one time
`get_store()` looks. A file is known by the build that made it, which is what a
digest tells apart.

**ConversationStore** is what `db.py` promises: a table of messages that changes
by whole appends and removals. **ConversationDb** has the connection at the grain of the sqlite3 module's
calls. `Check` and `Leave` look whether a transaction is open, under the GIL;
`Begin`, `Execute`, `CommitMade`, `Rollback` act, without it. `call` is the
function of `db.py` an actor is in or comes to next, so turns, deletes and the
scheduler are their sequences of calls (`CallsAfter`, `CallsAfterRaise`). `rows`
is the table as the connection sees it, `durable` as committed. A turn makes one
audit and its retry at most; `audit_log`'s contents are not kept. `audit` runs
on the event loop itself: nothing new starts while it is in the database.
`overlap`, chosen at the start from `Overlaps`, is the number of calls that may be
in the connection at once: 1 is what `_conn`'s docstring relies on, more is what
the thread pool does. `ImplementsStore` holds with 1.

**Widget** is the page's side: tabs over one `localStorage`, with what a page
holds (`sid`, `tok`, `history`, `cards`, the `turn` its `_send` is in) and what it
waits for (`restore`, `leaving`). Its handlers run from await to await:
`Open`, `Send`, `Accept` and `Refuse`, one `On...` for each event that leaves
something behind, `EndOfStream`, `NewSession` up to its DELETE and `Swap` after
it, `ServeGet` and `RestoreHistory`. The server is what the other modules show it
to be: the events a tab may get are those of `TurnProtocol!Follows`, which
ChatTurn is shown to keep, and conversations are in a ConversationStore. A turn
that nobody reads any more may still save what it has (`Save`), also after its
session's DELETE. History variables say what a property must except: `split` (two
tabs were in different sessions), `crossed` (a request was open when the session
was swapped, or a message was sent while the history was loading), `mixed` and
`unanswered` (whose card a result went into; whose call had none). Both sides
have persistence switched on; a DELETE that was not served when the page is
reloaded is lost.

**Picking** has part of a sequence in its order: `Picked(seq, places)` is what
stands at some of its places, `Without(seq, gone)` what is left when elements are
removed. These are the deletions and the last messages of `db.py`, the named tool
calls of a response in `chat_loop.py`, the entries of other queries in `cache.py`,
the levels of a stack of headings that are not empty and the chunks that are not
too short in `chunker.py`. `SelectSeq` would say the same, but by recursion, and
then nothing of the result could be proved.

Modules whose names begin with `MC` give constants their values for TLC. An
operator marked "Slip" is a mistake the code might have made; no specification
uses it, and it is there to see that a property would notice (`mutants` in
`PROJECT.json`).

## 3. What is checked

| Run | Question | Answer |
|---|---|---|
| `rate_limiter` | Does the lazy bucket keep the promise of TokenBucket, and every window its bound? | Yes; Retry-After may be half a second short |
| `endpoint` | Is the count exact, the cap kept, a refusal justified? Does a started stream give its slot back? | Yes, the last unless its client stays and reads nothing |
| `endpoint_orphans` | Are callers refused only for streams they have? | **No** (finding) |
| `breaker` | One provider per call? Does the primary rest, and only when it should? | Yes, within a turn |
| `turn` | Are requests well-formed and streams as the protocol says, with an end? Does a turn that returns leave the whole exchange or nothing, and is it saved before `done`? Does every turn end? | Yes, but a slash command says `done` before anything is saved |
| `docs` | Is the store of one index, the cache current, the lock exact, with the command-line indexer at work? | Yes, unless a `/reindex` is cancelled in its reload |
| `docs_alone` | Without that indexer: can the file always be read, and does every `/reindex` end and free the lock? | Yes |
| `docs_torn` | Do a search's texts and scores come from one index? | **No** (finding) |
| `db` | One call at a time: is everything acknowledged kept, does the table change by whole appends and removals, through a refusal and a crash? Two at a time as well: is the connection clean when nobody uses it, and is the backlog pruned in the end? | Yes |
| `db_lost` | Two calls at a time: is everything acknowledged kept? | **No** (finding) |
| `widget` | Do id and token belong together, is the history of the page's session, does a result find its card, is the composer given back? | Yes, with the exceptions the properties name |
| `index_supply` | Is a document cut as its headings say, does the agent answer only from an index it may trust, does it always boot? | Yes |

The findings quote the line that says otherwise. `db_lost` is the gravest: with
two appends at once and no failure anywhere, sqlite3's implicit transactions
collide, and one thread's rollback takes the other's uncommitted row with it,
which is then acknowledged. `docs_torn`: the "local snapshot" of `rank` is two
reads, and a reload writes between them. `endpoint_orphans`: a stream that never
starts keeps its slot.

The models also show where a document says more than the code does. These are
consequences of a line or two, so they have no run of their own:

* `CHANGELOG.md:72` has "a per-process circuit breaker"; `chat_loop.py:193`
  makes a new one for every turn, so what Breaker proves holds within a turn and
  ends with it.
* `chat_loop.py:155` has the user/assistant pair appended after the turn; the two
  appends (`chat_loop.py:263-269`) are separate, and `Drop` or a database error
  between them leaves one half.
* `chat_loop.py:8` calls tokens "final assistant content"; text that precedes a
  tool call is sent as tokens too (`chat_loop.py:209`).
* `cache.py:7-9` has old hits dropped after a `/reindex`; a command cancelled
  during its reload (`slash.py:266`) never bumps the generation, hence the
  condition `NeverCut`. It also leaves its thread running without the lock, and
  two reloads that meet can leave the store torn for good.
* `indexer.py:147` has an atomic swap; the temporary name is the same for every
  builder, so the command-line indexer and a `/reindex` can rename what the other
  is still writing, hence `docs_alone` for `FileWhole`.
* `README.md:120-121` of the repository needs no restart after a rebuild; a store
  that was created before the first index is not loaded again (`store.py:228`).
* `README.md:178` falls back "only when the primary errors out (connection,
  timeout, 5xx)"; every status from 400 on is an `LMStudioError`
  (`lmstudio.py:111-113`), and retriable, so a request that is refused as
  malformed is sent to the fallback too, and trips the breaker.
* `chat_loop.py:198-199` keeps tool calls back "until complete so we can dispatch
  once finish_reason fires"; `finish_reason` is read and dropped (221-222). A stream
  that ends without it, or without `[DONE]`, counts as whole: its text is saved
  as the answer, and a tool whose arguments were cut off is called with `{}`
  while the cut-off text goes back to the model in the next request. A call cut
  off before its id or its name came is in ChatTurn, and does no harm there.
* `README.md:152-153` has the server ignore the client's history; the request is
  validated first, and a history of more than 40 items is refused with 422
  (`api/chat.py:66`). The widget never shortens `_history`, and a restored one has
  up to 200: after enough turns every message of the tab fails until a new
  session. `TabFree` has the tab usable after such a refusal, no more.
* `README.md:153` has conversations survive multi-tab use; two tabs that are in
  different sessions (`split`) mix the two entries of `localStorage`, and a page
  that loads then, or a New session, shows one session's id with the other's token
  and is answered 404.
* `README.md:64` embeds the widget in any page; `main.py:62-63` allows other
  origins neither DELETE nor the `X-Session-Token` header, so there the restore
  and the DELETE of a New session fail in the browser, silently. Both failures are
  steps of Widget.
* `certmate-agent.js:404-407` has cards "match in invocation order"; a turn cut
  off between a call and its result leaves its card in the queue, the next turn's
  result goes into it, and from then on every result of the page goes into the card
  before its own (hence "that turn or one before it" in `CardsPaired`).
* `certmate-agent.js:162-164`: a message sent while New session awaits its DELETE
  runs in the old session, comes back after the DELETE in the server's
  conversation, and is pushed into the new session's history (hence `crossed` in
  `HistoryOfSession`).
* `certmate-agent.js:34` reads `localStorage` outside the `try` that guards every
  other access: where it is blocked, a `persist` widget is not rendered.
* `chunker.py:3-5` packs short sibling sections together; siblings have different
  headings, so each is cut under its own, and one below `min_chars` is dropped, as
  is the short tail of a long section.
* `README.md:245` and `.github/workflows/deploy-fly.yml:81` have a restart fetch the new index; it
  is skipped because the old file is on the volume (`bootstrap.py:59`,
  `fly.toml:89`).
* `bootstrap.py:15-16`: failures are "never fatal", but the directory is made
  outside the `try` (62); and there is no "next pass": the boot tries once.
* `lmstudio.py:124` returns "one vector per input text"; the number is the
  server's, and `zip` in the indexer shifts every later pair by one if it is short
  (hence `short` in `ServedTrusted`).
* `README.md:171-172` has the backlog cleaned before traffic is served; the boot
  pass is a task like any other (`scheduler.py:77`).

### Bounds

* Rate limiter: two keys (a third adds nothing: keys share no state), a burst of
  two refilled in seven ticks so that refills are fractions of a token and the
  header asks for one second or two (two ticks a second), eight ticks, enough for
  a bucket to be dropped after `IdleTicks` and its key to return. The configured
  values satisfy `IdleTicks >= Period` (300 s and 60 s). That a capacity of 0 lets
  everything through is proved, not run.
* Endpoint: three requests of one caller against two slots, so that the third
  can be refused and a slot can come back and be taken again; a burst of two, a
  token a tick, so that either limiter can be the one that refuses. Callers share
  no slots; the proofs are for any number of requests, callers and slots, 0 included.
* Breaker: threshold and cooldown of two, six failures, seven ticks: a trip, the
  cooldown, a further failure at once after it, and a second trip. That the
  breaker also keeps its promise without a fallback is proved. In the turn
  the first failure trips the breaker.
* Turn: two iterations, two tool calls a response, one known tool and one
  invented name, calls with and without id and name. Two calls are what it takes
  to confuse one's answer with the other's; the second iteration is the first
  whose request carries answers.
* Index: two `/reindex`, at most one run of the indexer, two searches (of one query, or of
  two), a cache of one entry. Two builders are what it takes to meet on the
  temporary file, two reloads to tear the store for good. `docs` identifies
  states that differ by which command or which search is which (`MCAlike`): the
  code treats them alike, and the run has no liveness property.
* Store: two turns, one DELETE, the scheduler, one session; a refused statement
  or commit, one crash. With two calls at once there is one turn beside the DELETE
  and the scheduler. `db_lost` needs neither refusal nor crash.
* Widget: three messages in one tab, two in one tab that changes its session once
  at most, or one message in two tabs with three sessions (`Small`): a card needs
  two turns to get the wrong result and a third to be wrong though no call of its
  own turn was cut off, and two tabs need a session of their own each and one to
  change to. Two page loads: a reload, or the second tab. `MaxHistory` is 2 for 40
  and `Window` 3 for 200, so that a second exchange makes the history too long and a
  restored history can be cut.
* Supply: 2,356 documents of up to three sections, two levels and two titles, with
  paragraphs below the minimum, below the target and above it, each cut in one
  build; the rest (two builds, batches of two, one crash, three pins, a foreign
  release) with two documents that make four chunks. Lengths are a hundredth of
  the code's, except that paragraphs still stand two characters apart.

`CHECK_DEADLOCK FALSE` stands where a behaviour has a finite number of requests,
turns or commands and the system is idle when they are over.

### Fairness

* `ChatEndpoint`: the server begins the body of a response or fails at its head,
  notices a client that is gone, a turn comes to its end (its loop is bounded and
  its HTTP calls time out), and dropped generators are closed. Clients owe nothing,
  so there is no fairness on `Sent`: a client that stays and reads nothing keeps
  its slot as long as it likes, for neither `chat.py` nor the server times out a
  send. `SlotReturned` therefore has a premise: again and again the client has read
  what was sent to it, or is gone (`[]<> ~ Stalls(r)`).
* `ChatTurn`: the event loop resumes what is ready, and the client reads what is
  sent or leaves, the same premise put into the fairness of the steps that send; a
  request to a provider ends, because HTTP calls have a timeout; a slash command's
  handler sends its message and its done (strong fairness, as it may send others in
  between). A model owes nothing: it may ask for tools for ever.
* `DocsIndex`: builds end or fail, threads run on, and a command that waits for
  the event loop gets it, whose queue is first in first out (strong fairness,
  since others use the loop in between).
* `ConversationDb`: threads run on, `sleep` ends, and the scheduler's call starts
  in its turn (strong fairness, as above). Refusals are bounded by `MaxFailures`:
  a disk that is full for ever prunes nothing.
* `Widget`: a request is answered or fails, and a stream ends, with the turn
  (`TurnEnds` of ChatTurn) or with the line. A DELETE or a GET owes nothing.
* `IndexSupply`: the boot goes on; a download ends or times out after 60 seconds
  of silence. Builds and releases owe nothing.

## 4. What is proved

For every value of the constants that satisfies the named assumptions:

* `LimiterProofs`, of RateLimiter: `BucketTypes`, `WindowBoundHolds`, `RetryAfterHolds`,
  `RateLimiterRefines`. The window bound is not inductive: it says nothing of
  what the bucket holds now. The invariant `Inv` adds `Paid`: for every grant in
  the history, the grants since then plus what is left in the bucket were paid
  for by the burst and the refill since (`PaidWithBucket`), or, once `gc` has
  dropped the bucket, by the refill alone (`PaidByRefill`), which is where
  `IdleTicks >= Period` is needed. The refinement rests on the types and on
  `LevelAfterGc`: what `gc` drops would have been full. That the header is short by
  half a second at most is arithmetic of the two divisions.
* `LimiterProofs`, of ChatEndpoint: `EndpointTypes`, `CountsExactHolds`, `CapHoldsAlways`,
  `RefusedOnlyAtLimitAlways`. The count is related to the cardinality of the set
  of holders; the lemmas `HoldingSame`, `HoldingTaken` and `HoldingGivenBack` say
  how a move of one request changes that set, and every action is one of the
  three. The cap follows with `CountsBounded`, since `acquire` adds to no count at
  the limit.
* `BreakerProofs`: `TypeInvariant`, `OneProviderPerCallHolds`,
  `PrimaryRestsInTurnHolds`, `SkippedOnlyWhenTrippedHolds`. `TripInv` says that
  the code's count is the primary's failures in a row, and that `tripped_until`
  was set from the last of them and only at the threshold; both promises follow
  from it at the step that asks or passes over the primary.
* `ChatTurnProofs`: `FollowsProtocolHolds`, `ExchangeKeptHolds`,
  `TurnTypeOKHolds`, `RequestWellFormedHolds`. Which event may come next depends on
  the one last sent, the code on where it is; `Said` ties the two together (and
  `SlashAllowed` says that what a command may say next, a turn may), and
  `SavedSoFar` says what the conversation has got by then, an exception on its way
  to the client included. The refinement needs every action: one that sends, sends
  what may follow, and the others are stutters or the end of the stream, which
  comes after `done` or `error` (`Silent`). `WhoSaysDone` names the four steps that
  say `done`, which is what `ExchangeKeptHolds` goes through. That a request is well-formed concerns one moment, the
  call of the model; what is inductive is `Conversation`: at every moment the calls
  that the last assistant message announced are those answered since, in order,
  followed by those in `todo`, and everything before it is complete.
* `DocsIndexProofs`: `LockGuardsHolds`, `StoreWholeHolds`, `FileWholeAlone`,
  `DocsTypeOKHolds`, `CacheCurrentHolds`. That the lock's holder is the one command
  in the guarded section is inductive itself. It leaves room for one reload, so
  `StoreInv` can follow the one thread at work: how much of the new index it has
  put into the store (`StoreFits`), and that the store is of one index while none
  works (`StoreOfOneIndex`). Both hold until a command is cut off, which is why
  `NeverCut` is a premise. `FileWholeAlone` assumes that there is no indexer:
  `FileInv` has the temporary file written by the one command in the section and
  the file at the path by a builder that finished. `CacheInv` adds that the event
  loop is held by whoever is in the middle of a step (`LoopHeld`), that nothing is
  in the cache before the store was first asked for (`NotAsked`), and `Fresh`:
  while no reload is on its way, the entries of this generation and the texts of a
  search that is scoring are of the index in the store. Between a reload and the
  bump of the generation this is false, which is why it has that premise.
* `ConversationDbProofs`: `NothingPendingHolds`, `DbTypeOKHolds`,
  `AppendsKeptOneByOneHolds`, `RemovalsKeptHolds`, `QuestionBeforeAnswerHolds`,
  `ImplementsStoreHolds`. A transaction belongs to the connection and not to a
  thread, so the one that opened it need not be the one that closes it; `Pending`
  says that an open one has some call that will still look at it, and that without
  one the connection sees what is committed. What is promised for one call at a
  time rests on `OneByOne`: one actor is in the connection (`Alone`), an open
  transaction is its own and the table it sees is the committed one changed by its
  statement and nothing else (`OwnTransaction`), and `Tables` relates both tables to
  what was acknowledged and removed. With these, a step of the connection is a step
  of ConversationStore exactly when it commits, and a stutter otherwise.
* `WidgetProofs`: `WidgetTypeOKHolds`, `TokensMatchHolds`, `CardsPairedHolds`,
  `HistoryOfSessionHolds`. `OneSession`: as long as no two tabs have been in
  different sessions, every page is in the session of `localStorage`.
  `CardsQueued`: a card in a page's queue is there because of a turn that was cut
  off, its own or one before it (`Behind`), or it is the last one and the turn at
  work waits for its result (`Awaited`). `HistoryOfSession` needs the server's side
  too (`Saved`): no message is stored twice, each in the session it was sent in and
  no sooner than its turn saved it; and `Shown`: what a page shows, and what a
  history on its way to it holds, is of its session, was sent, and has nothing of
  the turn at work, and a history arrives only before the first message.
* `IndexSupplyProofs`: `ChunkMarkdownFaithful`, `ChunksFaithfulHolds`,
  `ServedTrustedHolds`, `SupplyTypeOKHolds`. The first is about `chunk_markdown`
  alone: whatever `_split_sections` returns (`IsDocument`), and whatever the target
  and the minimum are, its answer is what `FaithfulTo` asks for. The loop is a fold
  over the sections, with another in it over the paragraphs of a text that is too
  long, and lengths are a third. A fold of the community modules is a function on
  sets of places that calls itself; `FoldExists` shows that there is such a
  function, `FoldSteps` that it can be read as a row of states, one for each place,
  and `UpTo` carries a fact from each state to the next. For `_pack_paragraphs` that
  fact is `Packed`, for the loop `Whereabouts`: what has been cut is faithful to the
  sections so far and what waits stands under one path (`Cut`), and the stack holds
  at each level the last heading of it that has not been ended (`Standing`), which
  makes its path the `Lineage` (`PathIsLineage`). The invariant of the supply is
  `SupplyInv`, with one part for each way it could go wrong. `Origin`: a file at
  the path was built on the volume, or came by https from a release that the pin
  admits and went through the stages of the boot in order. `Gathering`: what a build
  has is the chunks of the documents it fetched, each with its path, so that
  `RowsOfFlattened` finds each document's own. `Building` (with `InStep`): as long
  as no batch came back short, the k-th vector is the k-th chunk's, and so are those
  of a build that is written. `BuilderTypes` and `AgentTypes` are the types.
* `SequenceLemmas`: the lemmas on sequences that the modules above rest on, the
  limiters' and the breaker's aside.
  `NthProperties` (the k-th of a finite set of numbers is one of them, and later
  ones are greater), `PickedProperties` and `PickedInjective` (length, range and order
  of what was picked), `WithoutProperties` and `WithoutNothing` (exactly the
  elements that are not gone are left, in their order), `FoldExists`, `FoldSteps`
  and `FlattenSteps` (what a fold, or rows put one after another, come to, step by
  step) and `UpTo` (what holds of 0, and of k if of k - 1, holds up to n).

The assumptions are those a configuration and a caller satisfy: numbers are
natural, a batch has room for one text, `IdleTicks >= Period`, documents are as
`_split_sections` returns them (a heading is not empty, and only what comes first
has none), and what stands for a path that could not be fetched is no document.

TLC checks the same properties on the instances above, and the inductive
invariants were checked there first. Three attempts showed that the model or a
property was wrong. Guards that overlapped in a `CASE` left open which value the
model takes where the code has an `elif`; they are nested `IF`s now. `CardsPaired`
used to except only results of the turn right after the one cut off; its proof
failed where the queue stays shifted, and a third message shows it to TLC too. The
types of DocsIndex are inductive only when a search that is scoring is known to
have texts.

What stays with TLC is liveness under fairness: `ENABLED` is out of TLAPS's reach.
Induction on an arbitrary predicate is too, as the library's theorems take it as a
parameter that no backend can instantiate; the proofs induct on sets of numbers
instead (`UpTo`), and where the model computes over data it uses folds, whose
values are functions. Every safety property of the runs that are expected to pass
is proved.

## 5. What is not modelled, and why

* The shared embed client (`llm/shared.py`): opening it awaits nothing inside, so
  its lock never has a second holder to wait for, and it is closed when requests
  are over.
* Of the widget: mode discovery, the welcome and the admin token, a browser that
  blocks `localStorage`, the bubble that is being streamed, and every way of
  rendering. Of the chunker: which lines are headings (`_split_sections`; a `#` in
  a fenced block of code is one to it).
* The text of answers, prompts, excerpts and tool output, markdown, markup,
  headers, request ids, configuration parsing: no property here is about them.
* `ChatLLM.chat` and `ChatLLM.embed`: nothing in the agent calls them.
* HMAC tokens of the conversations API and the comparison of the admin token:
  pure functions of their inputs. That the comparison may raise is an outcome
  of `chat()` and is modelled; that a token fits one session only is in Widget,
  where the secret stays the same.
* Clocks that are set back: `chain.py` and `cache.py` read wall-clock time, the
  models' clocks only advance.
* The Q&A generator, the evaluation scripts and the site.

## 6. Plan

1. **Proofs**: the other side of two findings. A search's texts and scores are of
   one index unless a reload ran into it, and a caller is refused only for streams
   of its own unless one of them was never started; `db_lost` has its other side
   in what is proved for one call at a time.
2. **Arguments of tool calls**: gathering of deltas cut off at any point, with
   what the next request then carries.
3. **A DELETE that overtakes a turn**: which of the two should win is not said
   anywhere; Widget has the behaviour.
4. **Cleaning of the client's history** (`api/chat.py`) against a reference
   definition.
