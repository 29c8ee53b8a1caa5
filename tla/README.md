# RetrievaAI in TLA+

RetrievaAI is a retrieval-augmented chat service: a FastAPI backend
(`src/backend`) with Postgres, Redis, a vector store and Celery workers, and a
Next.js frontend (`src/frontend`). These modules model the parts of the backend
whose correctness depends on the order in which several processes act, and the
algorithms that every document and every question pass through. Paths below are
relative to `src/backend` unless they say otherwise.

To check a run: `tlc -workers 2 -config SyncOverlap.cfg MCConnectorSync`. To
check the proofs of a module: `tlapm ConnectorSyncProofs.tla`, and likewise for the
other modules whose names end in `Proofs`.

## The system

| Part | State | Operations | Talks to |
|---|---|---|---|
| Connector sync (`connectors/orchestrator.py`, `connectors/tasks.py`, `connectors/scheduler.py`, `services/connector_service.py`, `services/connector_scheduler.py`) | rows `connectors`, `connector_sync_states`, `connector_files`; Celery tasks in flight | connect, sync, pause, resume, disconnect; discover and download tasks; beat; refresh and status scans | provider APIs, broker, ingestion jobs |
| Adapters (`connectors/<provider>/`) | a position in a listing; a cursor is passed in | authenticate, list, incremental listing, download | provider APIs |
| Ingestion jobs (`routes/ingestion.py`, `tasks/ingestion_tasks.py`) | rows `ingestion_jobs`, `ingestion_job_logs`, `documents`; one thread per upload | submit, cancel, delete, stream the log | pipeline, Redis pub/sub, blob store |
| Ingestion pipeline (`pipeline/`) | a vector-store collection, two threads per job, a client per indexer, a manifest file | extract, clean, deduplicate, chunk, embed, index | embedding API, vector store |
| Questions (`routes/query.py`, `services/rag_pipeline.py`) | a coroutine per request; `conversations`, `conversation_messages` | `/query`, `/stream`, persist tasks | LLM, retrieval, the two stores below |
| Conversation store (`services/conversation.py`) | a Redis list per session | add, read, trim, summarise | Redis, LLM |
| Semantic cache (`services/semantic_cache.py`) | two Redis keys per user and question | get, set | Redis |
| Retrieval and correction (`retrieval/`, `agents/`, `services/query_decomposer.py`) | one question's chunks | decompose, hybrid search, merge, unite, grade, correct, rerank | vector store, LLM, web |
| Accounts (`services/auth_service.py`, `security/auth.py`) | users, sessions, invites, mail tokens | signup, login, invite, verify, reset, revoke | mail, Redis counters |
| Workspace and settings (`services/workspace/`, `services/runtime_settings.py`) | providers, runtime settings, process caches | create, switch, test, read | Postgres, LLM providers |
| Health, analytics, audit, notifications | append-only rows | insert, list, prune | Postgres |
| Frontend (`../frontend`) | view state | calls of the API | the backend |

`PROJECT.json` lists every component with what is and is not modelled.

What is hard here, and hard to reach with a test:

- *Interleaving.* Celery tasks, the beat process, an asyncio scheduler and HTTP
  handlers all write the same connector rows; nothing stops two syncs of one
  connector. An upload's thread, the user's cancel and delete requests and a
  log stream share a job. Coroutines share a session's Redis list, and two
  unordered tasks persist the two messages of one turn.
- *Crashes and redelivery.* Tasks are acknowledged late and redelivered
  (`tasks/celery_app.py:29-44`); upload threads and request coroutines are not,
  and die with their process.
- *Stale copies.* Sessions are opened with `expire_on_commit=False`, so a task
  acts on the row it read at its start; a summary replaces the list it read
  before the LLM was asked; a cache entry's two keys expire separately.
- *Boundaries.* The chunker's overlap; the history's limits in turns and tokens;
  the length of a merged text.
- *Long sequences.* A chunk passes a merge, a union, several gradings, corrections
  and a selection before it is cited; each may lose it, repeat it or let in one that
  the user may not see.

## The modules

| Module | What it is |
|---|---|
| `ConnectorSync` | one connector with all its tasks, schedulers and requests |
| `ChangeFeed` | what an incremental sync promises, abstractly; `ConnectorSync` implements it |
| `ConnectorSyncProofs` | theorems about `ConnectorSync` |
| `IngestionJobs` | uploads, their threads, the user's requests, the catalogue and a log stream |
| `Chat` | questions, the history in Redis, the cache and the persisted messages |
| `Chunker` | the merge of segments into overlapping chunks, and the hard split |
| `Listing` | how each of the thirteen adapters walks a source that changes meanwhile |
| `WalkProofs` | theorems about `Listing` and `Chunker` |
| `Extraction` | from a file to the text that is chunked: extractors, cleaning, deduplication |
| `Splitter` | `chunk_document`: the four strategies, down to the chunks |
| `Pipeline` | ingest jobs, searches and removals on one collection; uses the two above |
| `PipelineProofs` | theorems about `Pipeline` |
| `IngestionProofs` | theorems about `IngestionJobs` |
| `Accounts` | accounts, sessions, invitations and mail tokens, as transactions |
| `Workspace` | a user's providers and models, and a setting with its caches |
| `WorkspaceProofs` | theorems about `Workspace` |
| `ChatProofs`, `AccountsProofs` | theorems about `Chat` and `Accounts` |
| `Retrieval` | from a question to the chunks that the answer cites |
| `RetrievalProofs` | theorems about `Retrieval` |
| `MC...` | small instances for TLC |

A definition marked *Variant* is a plausible wrong version of the one after it.
It is never part of a specification; `PROJECT.json` pairs each with the property
that fails when it takes the other's place, which shows that the property can
fail at all. `TypeOK` in each module states the shape of its state; where a module
has proofs, their invariants contain the types they need.

How they compose: `ConnectorSync` takes an adapter for its constants and `Listing`
shows which adapters keep what it assumes of a cursor. `IngestionJobs` takes a job's
pipeline for one step with an outcome; `Pipeline` is that step. `Pipeline` extends
`Splitter`, which extends `Extraction`. `Chat` takes retrieval for one step and
`Retrieval` is that step; it takes a default provider, which `Workspace` chooses.

### ConnectorSync

An action is the code between two points another process can see: a commit, a
provider call, a publication.

| Code | Model |
|---|---|
| provider | `clock`, `ver`, `live`; `Change`, `Remove` |
| `Connector.status`, `auto_sync` | `status` ("gone" once deleted), `autoSync` |
| `ConnectorSyncState` | `due` (interval elapsed), `age` (of the last start), `token` |
| `ConnectorFile` rows of one remote file | `row[f][r]`, several slots since nothing makes the pair unique |
| `discover_files_task` and the orchestrator's loops | `sync[s]`: `Start`, `Begin`, `Lookup`, `Write`, `Send`, `Finish`, `Raise`; `SyncFails`, `SyncCrashes` |
| `download_and_enqueue_task` | `load[l]`: `Download`, `Save`, `Ingest`, `LoadMissing`; `IngestFails`, `LoadFails`, `SaveFails`, `LoadCrashes` |
| `connector_service` | `Trigger`, `TriggerLost`, `Pause`, `Resume`, `Disconnect`; connecting is `Init` |
| Celery beat, `connector_scheduler` | `Beat`, `RefreshScan`/`RefreshEnds`, `StatusScan`/`StatusEnds` |

Four constants describe the adapter and the database session: `YieldsChanges`
(incremental listing yields `FileChange`, what the orchestrator reads and the
adapter of the tests yields), `CursorMode` and `GivesToken` (when the token is
written), `EagerLoads` (relationships can be read in an async session). The
passing runs describe the framework as its contract states it: `YieldsChanges`
and `EagerLoads` hold, the adapter writes its cursor. The shipped adapters yield
plain metadata, which `SyncShipped` shows to stop every incremental sync. The
relationships are in fact lazy, so that `services/connector_scheduler.py:80`, `:125`,
`:229` and `services/connector_service.py:241` raise MissingGreenlet: without
`EagerLoads` no `Disconnect`, token refresh or status scan gets to its end, and a sync
that died is never written off, against the comment at `:233`. The proofs cover both.

`seen` and `indexed` are history variables: the provider time up to which a file
was handed to a download, and the newest version indexed.

Properties. `NoLostChange`: the stored token never claims a change of a file
that no sync dispatched. `NoOrphanRows`: no task in flight writes rows for a
deleted connector. `Accounted`: a dispatched version is indexed, in flight or
marked failed. `OneRowPerFile`, `TokenNeverRegresses`. `FeedSpec`: every behaviour is one of `ChangeFeed`.
Liveness: `CatchesUp`, a change reaches the index. That a connector does not stay syncing is
not among them, since it is false: see "Seen while modelling".

### IngestionJobs

`job`, `logs`, `docs` are the three tables; `worker[j]` is the thread that runs
`run_ingestion_job`, one action per commit, flush or publication: `Load`, `Mark`,
`Say` and `Store` (a log line is published before it is committed), `Ingest`,
`Report`, `Select`, `Commit`; `GivesUp`, `Fails` and `DatabaseFails` are the
exception handler in its three fates. Cancel and delete requests read and then
write (`CancelRead`/`CancelWrite`, `DeleteRead`/`DeleteWrite`), so the thread can
act in between; `Locked` and `Updated` are the row locks Postgres holds for the
thread's open transaction. `stream` and `shown` are one client of the log stream.
`Restart` takes every thread.

`LogOnce`: no line is shown twice or out of order, whenever the client connects.
`Catalogued`: a completed job has its document. `DeleteIsFinal`: a thread does
not bring a deleted job back. `JobEnds`: a job does not stay queued or processing,
as long as the server does not restart.

### Chat

`req[r]` is the coroutine of a request. It keeps its process's event loop between
two awaits (`HasLoop`), and the Redis client of the stores is synchronous, so the
steps of one replica interleave only where `Waiting` says so. `hist`, `ttl` are
the Redis lists; `emb`, `resp` the two keys of a cache entry; `task`, `conv`,
`rows` the persist tasks and Postgres. `Push`, `Expire`, `Trim`, `Weigh`, `Pop` are
`add_message`; `ReadHistory`, `Summarise`, `Delete`, `Replace` are
`summarize_if_needed`; `Scan`, `Fetch`, `FillEmbedding`, `FillResponse` the cache;
`Find`, `Insert`, `Save` are `_persist_message`, whose insert waits for another
uncommitted one of the same unique `session_id`. Retrieval, grading, reranking
and generation are one step with its outcomes.

`ServedOwn`: an answer from the cache was given in full, to that user, for an
accepted question. `InOrder`: the history reads in order. `SummaryFresh`: a
summary deletes only what it read. `NoPartialAnswer`: an answer that was cut off
is kept nowhere. `Ends`: all requests and tasks end.

### Chunker

A text is the number of its segments and the tokens before each (`n`, `before`);
the parts of the chunk under way are always segments `first .. next - 1`. `Emit`,
`DropPart`, `Take`, `Finish` are the branches of `_merge_with_overlap`. `Slice(k)` is the
window `k` of the hard split. `Limit` is what the loop really guarantees: the
docstring says "up to `chunk_size`", but the overlap is not counted when the next
segment is added, so a chunk may hold `Overlap + MaxSeg` tokens. `_recursive_split`
merges the results of finer separators again, so each level may add an overlap.

### Retrieval

One question goes through `RAGPipeline.run`'s steps in one thread; `pc` is the step.
`Search` is `HybridRetriever.retrieve` up to its deduplicated points, with any of the
`Visible` ones in any order: the vector leg may find any `TopDense` of them (`Dense`), the
keyword leg the `TopSparse` best of those that share a term (`Sparse`, `Keyword`). One filter
goes to both legs (`:130`, `:142`), where the docstring at `retrieval/hybrid_retriever.py:76`
says "dense leg only". The code and the docstring disagree: `ContextSound` says what the code
does, and with the docstring's keyword leg (`SparseUnfiltered`) it is violated. In `Retrieve` the
one chunk with a term of the question is one that the filter hides, so the answers are
all rankings of up to three points; another such chunk could only be added to them. `TakeNext`, `Ahead`, `Emit`, `Merged` are the two loops
of `_process_and_merge_chunks` (`i`, `j`, `skip`, `current`, `merged`). A text that was
joined is the sequence of the indices in it, so "reads as the document does" can be
said. `Collect` is the union over sub-queries, by chunk id. `Grade`, `Assess`, `Fetch`
are `CragAgent.correct`: a grade and a score for each chunk that need not agree, the
loop's four ways out, and what a web or code search finds. `Rank` picks any `TopK` in
any order. Scores only order things, so they are not modelled.

`Consecutive`, `Fitting` and `Partition` say what the merge promises: joined texts in
the document's order and without gaps, below the limit (but for the last blank line,
which the test of the limit does not count), and every point found in exactly one
chunk. `ContextSound`, `CitedOnce`, `NeverEmptied`, `Terminates` follow the chunks
through sub-queries and corrections.

### Listing

A file is a number, its place in the order of names; `at[f]` is the time of its last
change. An adapter is a record that says how it walks the source: the order of pages
and what a position means (`paging`: by key, by offset, by a delta feed, by time of
change, at once, or a first page alone), one container or several, what it does when a
page is refused or fails, whether it hands on pages as it reads them. `Begin`, `Read`,
`RateLimited`, `PageFails`, `Yield` and `Drop` are the generator (`full_sync`,
`incremental_sync` and the helpers below them); `Put` and `Remove` are the users of the
source between two of its pages. Dropbox and the database move a cursor
(`TokensNow`, `NewTokens`); the database compares marks as text, which `TextOrder` is for.

`Complete`: a listing that ends well handed on all that its kind of paging promises
(`Steady`). `MarkSafe`: the token never covers a file that was not handed on as it is,
through failures, dropped generators and full listings between. `Stops`.

Assumed of the database source: marks are distinct and become visible in order. A row
that is committed late with a smaller mark is lost by any adapter of this kind.

### Extraction, Splitter, Pipeline

A text is a sequence of words with separators; a word has a length, so limits in
characters and tokens are the code's. `Extract` is each extractor: which parts of a file
become its text, and when there is none. `Clean` is `Preprocessor.clean` with its repeated
lines (`RepeatLimit`, `Boilerplate`); `Deduplicate` keeps the first of texts that count as
the same. `Recursive` is `_recursive_split`: separators from the coarsest to the finest,
merged at each level with overlap (`Merge`), windows for a word that no separator cuts
(`Windows`). `Markdown`, `Ast` and `Semantic` choose segments and leave large ones to it.
`LongEnough` is the filter on `min_chunk_size`.

`Pipeline` runs them in jobs. A job (`Prepare`) has its chunks, then the dense thread
sends batches with retries while the sparse one runs, then the indexer makes its client
and looks at the collection, creates it or drops the one with the old schema, and upserts
in batches. Searches share the retriever's indexer and go the same way to the
collection; a removal deletes by path. Every call may fail. The collection is a service,
with calls that are atomic.

`Whole`: after a job that reports "indexed", each character of its cleaned text is in
the collection, in a chunk that its own vector finds, unless only a piece below
`min_chunk_size` holds it. It assumes that a provider answers with one vector per text, as
its API promises: nothing checks it. `zip` cuts a shorter answer (`pipeline/embedder.py:190`),
the indexer skips a chunk without a vector (`pipeline/indexer.py:149-151`), and the job still
reports "indexed". `Kept`: no step takes away a point but a removal those under
its path. `Ends`: each thread ends. `Whole` and `Kept` say nothing of a collection that had
the old schema at the start: see "Seen while modelling".

### Accounts

An action is the code between two statements of one request's transaction; what it wrote
shows at its commit, and until then `held` keeps rivals from the row or index entry.
`Arrive` is the endpoints with what a caller can know; `Count`, `Expire`, `LimitUnknown`
and `Elapse` are the counter of mails in Redis; the `...Reads`, `Find...`, `Insert`,
`Flush` and `...Commits` are the services; `AuthUser`, `AuthSession` and `Revoke` are what
`get_current_user` does and the end of a session; `Lapse` is a deadline, `RollBack` a crash
or an error anywhere. A token, an invitation or a session is named by the request that
made it.

`EndedUnlessBetween`: a session that had ended when a request came does not let it pass, though the
version and the session row are two reads and a login may commit after a reset that it did
not see; unless it read its version while a reset that had counted from an older row was
still to write (`between`). That is the one way in which the code breaks what
`security/auth.py:15-16` says of `token_version`, that a reset "kills every session at once": two
resets of one account that overlap, the same link submitted twice, store the same version
(`services/auth_service.py:309`), so the second ends no session opened after the first, and a late
one may even lower the version. `InviteOnce`: two that accept an invitation at once do not
both succeed. `VerifiedByProof`: no account is verified without a proof of its address.

### Workspace

`row[p]` is the row of provider `p` of one user and type, `models` the rows of its models;
`value` counts the writes of a setting, `cache` and `lock` are each process's. A row is
known by the request that inserted it. `ProviderRequest`, `ModelRequest`, `SettingRequest`
are the endpoints, with the copy that `get_provider` gave them; then `Create`,
`UpdateRead`/`UpdateWrite`, `Delete`, `ClearBegin`/`Clear`/`Choose` (the two UPDATEs of one
transaction that make a default), `Validate`/`Tested`, `Resolve` (what a question is
answered with), `Forget`/`GetModels`/`PersistBegin`/`Persist`, `Favorite`,
`DefaultModel`; and for a setting, the same code in three services, `SetRead`/`SetCommit`/
`SetPop`, `GetLock`/`GetFetch`/`GetStore`, `Expire`.

The testers in `Unasked` ask nobody: local providers, and several for embeddings, whose
types have no endpoint to ask, pass with any key that is not empty. The models of those in
`Static` are a table. `Type` is the kind of rows: a question takes only the key from what
is resolved (`services/rag_pipeline.py:124-130`), and for the language model the user's `Preference`
comes before the row's own key (`services/workspace/provider_factory.py:73-78`).

`OneSettledDefault`: one default at most among the rows that were not inserted while a default
was being chosen (`late`). `TestedUnlessRaced`: an embedding key that a question is answered
with has passed a test, or was written by an update beside one (`raced`). `FreshAfterSet`: in
a process a read that begins after an acknowledged write does not return an older value.

Three comments say more than the first two, and the code breaks them:

- "clearing any previous default" (`services/workspace/provider_service.py:153`): an UPDATE that
  waits for another choice does not see a row that was inserted after it began and that
  the other choice has made the default, so both stay marked.
- "re-validate after config change" (`:130`): a test that ends after an update marks as
  connected a configuration that it did not test (`routes/workspace.py:168`).
- "1. Workspace default provider" (`services/workspace/provider_factory.py:6-8`): every question has
  to come from a user with the preference `GROQ_API_KEY` (`routes/query.py:120-121`), which replaces
  the key of the workspace's provider. So a test of the workspace says nothing about
  the key a language model is asked with, and `TestedUnlessRaced` allows it.

`late` and `raced` hold exactly what these interleavings make, and the properties say that
nothing else does.

## Runs

| Run | Shows | Result |
|---|---|---|
| `SyncOverlap` | two overlapping syncs, user requests, a disconnect and a crash: `NoLostChange`, `NoOrphanRows`, `Accounted`, `FeedSpec` | holds |
| `SyncSerial` | one sync at a time with every actor and every kind of fault: `OneRowPerFile`, `TokenNeverRegresses` | holds |
| `SyncLive` | beat alone and a crash: `CatchesUp` | holds |
| `SyncShipped` | the shipped adapters: `CatchesUp` | violated |
| `IngestUser` | two uploads of one name, a user who follows, cancels and deletes, a restart or a failing database | holds |
| `ChatOneReplica` | a question and a stream in one session, earlier turns, another user's cache, any one fault or expiry | holds |
| `ChunkMerge` | every text of up to five segments of one to five tokens | holds |
| `Retrieve` | two sub-queries, each with any three of five visible chunks, every grade and score, the web searched where it is forced | holds |
| `Listing` | thirteen adapters, two listings each, of three files in two containers that change at any point | holds |
| `Pipeline` | 26 files of every kind through every strategy, two jobs at once, jobs beside a removal and beside searches, two failing calls | holds |
| `Accounts` | three requests of any kind after a login, a reset mail and an invitation, with one crash, Redis error or deadline; four resets, logins and uses of one account | holds |
| `Workspace` | three requests of any kind at two embedding providers and a setting in two processes | holds |

The violated run is a disagreement between the code and a test plan of the repository, which
`PROJECT.json` quotes under `findings`. Disagreements with comments are said where the module
is described, and under "Seen while modelling".

### Bounds, and why they are enough

- One file and two syncs for the orders in which a token, a row and a task can
  overlap: files do not interact but through the token, and `NoLostChange` for
  several files is the conjunction over files. A second row slot shows duplicates.
- `MaxClock` 2 in `SyncOverlap`: a change before, during and after a sync; two
  syncs can then hold different cursors. `MaxRetries` 0 or 1, against the code's
  larger number: each retry is the same transition. `MaxFaults` 1: every property
  is of one fault among concurrent correct steps; the theorems below have no bound.
- `IngestUser`: two jobs of one name are what the catalogue can confuse, and the
  user attends to one of them, so the other is the undisturbed rival.
- `ChatOneReplica`: history limits so small that two turns trim, exceed the token
  budget and trigger a summary, and that a stream waits while another request
  writes to the same list. Two similar questions of one user and an entry of
  another user are the three cases of the cache. Only `b`'s persist tasks are
  followed: what a first turn loses is under "Seen while modelling".
- `ChunkMerge`: `ChunkSize` 4, `Overlap` 2 and segments up to 5 tokens, so segments
  that are alone too large, chunks that keep none, one or two segments, and texts
  of none. The theorems have no bound.
- `Retrieve`: four chunks of one document (a head with neighbours on both sides, and
  one that is a neighbour of none of the first two), one of another, one that a filter
  hides, one of another user; three are found by a search, which is enough for a head
  and both neighbours in any order. `MaxText` 6 lets three short chunks join and not
  the long one. Two sub-queries can find a chunk alone and joined. `MaxRetries` is 1
  where the default is 2: a second correction starts as the first one did, and the
  theorems have no bound.
- `Listing`: with `PageSize` 1 three files are a first, a middle and a last page; one of
  them is alone in its container and one is of a kind that some adapters skip. Marks 1 to 5 stand for
  8 to 12, so that text and number disagree. `MaxRuns` 2: a listing and the one that
  goes on from its token.
- `Pipeline`: `ChunkSize` 3 and `Overlap` 1 tokens, `MinChunk` 4 characters, words of 3 to
  21 characters: words that fit together, alone, and that have to be cut. Batches
  of 2, so that a text has full and partial ones; `MaxRetries` 1 and `MaxFaults` 2, so a
  batch can exhaust its retries. Two clients are enough for one to act
  between the look and the creation of another; the theorems have no bound. Its other
  threads have done nothing when it starts, and the collection is in any of its three states.
- `Accounts`: an account that has logged in and asked for a reset, an address that is
  invited, and three more requests: the reset, a login beside it, and the use of either
  session; or two that accept one invitation and one that rolls back. `MaxFaults` 1 is one
  crash, Redis error or deadline that passes. Two resets that overlap, a login between their
  commits and the use of its session are four requests, which `Few` allows at one address.
  The theorems have no bound.
- `Workspace`: three requests are a choice, its rival and what they disturb; a provider
  whose test asks it and one whose test asks nobody. The theorems have no bound.
- `CHECK_DEADLOCK FALSE` everywhere: the provider's clock, the fault budget and the
  set of requests are finite, so every instance may come to rest.

### Fairness

- `SyncLive`, `SyncShipped`: weak fairness of each task's steps (a
  worker takes every queued task; late acknowledgement brings back those of a lost
  worker), of beat, of the scheduler's cycle and of time. The provider, the user
  and the faults are never obliged to act.
- `IngestUser`: weak fairness of each started thread.
- `ChatOneReplica`: weak fairness of a replica's event loop as a whole, not of each
  coroutine in it: asyncio promises no more while a coroutine blocks it.
- `ChunkMerge`: the loop goes on. `Retrieve`: the one thread of the question does.
- `Listing`: weak fairness of the generator, which its worker runs to the end.
- `Pipeline`: weak fairness of each thread: a thread of a pool runs on, and every call has a
  timeout. `Accounts` and `Workspace` have no liveness: a request ends by its handler's end.

## Theorems

`ConnectorSyncProofs`, for any sets of files, rows and tasks, any retry and fault
bound, any adapter and either kind of session, assuming only
`ConnectorSyncAssumption` (types of the constants):

- `TypeCorrect`: `Spec => []TypeOK`. `TypeOK` is not inductive: `Write` indexes the
  rows with the task's file, which its record type lets be `NoFile`. `TInv` adds
  `Assigned`: a task past its lookup has a file, and a row if it found one.
- `NoOrphans`: `Spec => []NoOrphanRows`. Inductive with the types: the only INSERT
  needs the connector, and `Disconnect` leaves every row absent.
- `NothingLost`: `ASSUME ~GivesToken PROVE Spec => []NoLostChange`. `LInv` says
  that every sync's cursor, and the time it began its listing, lie in the past,
  and that for a sync at work, whatever changed up to its cursor is dispatched or
  still in its `todo`. A later change raises `ver` above every
  cursor (`Onward`), so one sync's claim is stable under every step of another,
  which is why overlaps, retries and redeliveries do no harm. The assumption is
  needed: an adapter that asks for its first token after the full listing
  (`connectors/orchestrator.py:85`) has a gap in between.
- `ImplementsFeed`: `ASSUME ~GivesToken PROVE Spec => FeedSpec`: the refinement of `ChangeFeed`.
  Besides the types it rests on the invariant of `NothingLost`: storing a token is a step of
  the feed only where everything up to it was handed on. `HandsOn` is the step that the
  feed sees, a stutter when a later version went before. `SyncOverlap` checks the
  same refinement on its instance.
- `OneRow`: `Spec /\ []Apart => []OneRowPerFile`, `TokenForward`: `Spec /\ []Apart =>
  TokenNeverRegresses`. `Apart`, no two syncs at work at once, is a condition on the
  behaviour and not on a constant: nothing in the code keeps syncs apart, and with
  overlapping ones both fail (see "Seen while modelling"). `SyncSerial` has one sync, so
  it satisfies `Apart`; the theorems have any number of them, queued and one after the
  other. `RowInv`: a sync that found no row still has none to find when it inserts
  (`Fresh`), since no other task inserts (`StepWriters`). `TokenInv`: the cursor of a sync at
  work is no older than the token and no newer than the clock.
- `HandedArrives`: `ASSUME Mild PROVE Spec => []Accounted`. `AInv` adds that nothing was handed on
  from the future and that a file read as deleted is gone or back in a later version
  (`Listing`); so a step that makes a version newer than what was handed on owes nothing yet
  (`Turns`), and any other leaves a task that brings it (`Carries`) or ends it by indexing. `Mild` leaves crashes, redeliveries and overlaps, and excludes the
  errors with which the property is false: an ingestion that fails, or a job that is not stored, leaves
  no mark; a download that gives up marks the row failed, and an older one sets
  it to "syncing" again. `SyncOverlap` has crashes, as `Mild` allows.

`WalkProofs`, for any numbers of files and containers, pages of any size and any
number of listings, with the thirteen adapters of the repository (`Shipped`: what the
theorems say is of their kinds of paging, not of any kind one could write down):

- `ListingTypeCorrect`: `Spec => []TypeOK`, from `ShapeInv`: the token, the marks of the files
  and those of a page lie in the past, and only an adapter with a feed lists changes.
- `NothingMissed`: `Spec => []Complete`. `WalkInv`: each file the listing must find (`Due`) is
  handed on or given up already, in the page, or still to come where the walk goes
  (`Owed`, `Still`). What a file of an earlier page may do is what tells the kinds
  apart: removed, it shifts the offsets of those behind it, and an offset promises
  only what `Steady` says.
- `CursorSafe`: `Spec => []MarkSafe`, from `CursorInv` on top of both: a page holds each file once
  (`Once`), as it is unless it changed after the mark (`Fresh`), and whatever lies at or
  before the position of a listing of changes is handed on or in the page (`Safe`).

`WalkProofs` again, for texts of any length, any `chunk_size` and any smaller
overlap, assuming `ChunkerAssumption` (what `__init__` checks) and
`TextsAssumption` (a segment has at least one token):

- `MergeTypeCorrect`, `MergeBounded`, `MergeCovers`, `MergeSlides` from one
  inductive invariant, `MInv`. `Carried` is its heart: while parts are dropped the
  last chunk ends just before `next`; once a segment has been taken, at most the
  overlap of that chunk is left, and it ends before the segment taken last.
  `Placed`: every segment taken is in a chunk or in the one under way.
- `HardSplitCovers`: every character lies in a window that starts in the text.

`RetrievalProofs`, for any collection, owners, filters, limits and numbers of
sub-queries and corrections, assuming only `RetrievalAssumption` (types of the
constants; a document has one chunk of an index; pages are not points):

- `TypeCorrect`. `TInv` adds that a chunk under way is a chunk, and that a correction
  is only fetched while one is left.
- `MergeReadsOn`, `MergeFits`, `MergePartitions`, from `MInv`. Neighbours are compared
  with the head's index although its text grows; this is right because a chunk is
  always a run of at most one index to either side of the head (`Reads`), and because
  what is in a chunk is marked or passed (`Marked`): a neighbour that is not marked is
  therefore the index just before or just after the run, never one inside it
  (`JoinedReads`). `Apart` and `Covered` make the chunks a partition of what was found.
- `ContextIsSound`, `ContextCitesOnce`, from `CInv` on top of `MInv`: what was graded
  GOOD so far are chunks graded already (`Graded`), so keeping one more repeats none.
- `NeverLeftEmpty`, an action property, from the types.

`PipelineProofs`, for any files, threads, clients, batch sizes, retries and failures,
assuming `PipelineAssumption` (the shape of the constants) and those it extends:

- `KeepsPoints`: `Spec => Kept`. `KInv`: a collection that did not have the old schema at the
  start never has it, so no client that has looked is on its way to drop one. Without
  that invariant a client could be dropping what another has just made.
- `EveryChunkStored`: `ASSUME SplitsToSequences PROVE Spec => []Delivered`: a job that reports
  "indexed" has each chunk of its file in the collection with its own vector. `DInv`
  ties the two threads' vectors to the chunks by position through batches and
  retries (`InStep`), and what is counted as sent to the collection (`Stored`), which
  `KeepsPoints` protects from the others. The assumption is that a splitter gives a
  sequence.
- `WholeStored`: `ASSUME SplitsToSequences, CutsKeepAll PROVE Spec => []Whole`: what `Delivered`
  says of chunks, said of characters. `CutsKeepAll` is the cutting alone: the chunks of a
  cleaned text hold each of its characters, but for pieces below `min_chunk_size`. It is
  about constants only, and true of every text by induction over it; TLC evaluates it
  for the 26 files of `Pipeline` with `Whole`, each of which some job indexes there. What
  is proved is all the rest: threads, batches, retries, clients and removals.

`IngestionProofs`, for any jobs, names and restarts:

- `CompletedIsCatalogued`: `Spec => []Catalogued`, from `IInv`. `Shown` is the property per
  job; it needs `Link` (a thread about to update a catalogue row has one of its own
  name, or its user removed that) and `RTypes`.
- `DeletedStays`: `Spec => DeleteIsFinal`. `Gone`: of a deleted job there is no line, and no thread
  holds its row, so that none of them can commit it back.
- `LinesOnce`: `Spec => []LogOnce`, from `SInv` on top of `IInv`. `Told`: every stored line lies before
  those that the thread may still publish (`Past`), since it was published before it was
  stored. `Follows`: so does every line that a client has been shown once it has read
  the stored ones, however late it subscribes.

`WorkspaceProofs`, for any providers, models, processes and requests:

- `ReadsAreFresh`: `Spec => []FreshAfterSet`. `SInv`: a value that was
  fetched and not stored yet is no older than the last acknowledged write, because its
  reader holds the lock under which writers drop the entry.
- `DefaultIsUnique`: `Spec => []OneSettledDefault`. `OInv`: between the two UPDATEs of a choice
  the first has seen every row that is still there, but for those inserted meanwhile, which are in
  `late`. It needs `NInv`: a row is never mistaken for one that was deleted and created again.
- `OnlyTestedAnswers`: `Spec => []TestedUnlessRaced`. `UInv`: a connected row's configuration
  passed a test or is in `raced`; a test under way is of the configuration that the row
  still has, unless an update raced it; and an update that leaves the status alone has
  nothing connected before it, unless a test raced it. It needs `NInv` too.

None has an assumption about what requests do at the same time.

`ChatProofs`, for any requests, sessions, users, questions and faults:

- `AnswersAreOwn`: `Spec => []ServedOwn`, for any number of replicas. `Fits`: the phase of a
  request says whose answer it has, and what it has taken from an entry matches it
  (`Serves`). `Filled`: an entry holds an answer to its own question, given to its own
  user. What was given in full stays given (`Lasting`), so neither can turn wrong later.
- `SummariesAreFresh`: `ASSUME OneReplica PROVE Spec => []SummaryFresh`. `FInv`: from the
  read of a history to its replacement the list is what was read, unless it has expired
  (`Settled`); in one process no other request runs in between (`Alone`). Another replica's
  could, so the assumption is needed.
- `NothingPartial`: `Spec => []NoPartialAnswer`, for any number of replicas. `LInv`: a request that
  has still to store its question has no answer in a history, nor in a copy of one that a
  summary has read (`Unsaid`), and stores only what its phase allows (`Plain`). `KInv`: a
  task or a row of an answer is there only once the request has it, or was refused (`Kept`).
- `HistoriesInOrder`: `ASSUME OneReplica PROVE Spec => []InOrder`, from `OInv` on top of `LInv`: each
  list is `Ordered`, and so is what a summary has read, and the history that a summary is about to
  replace is empty. Another replica could push between its two commands.

`AccountsProofs`, for any addresses, requests and faults, assuming `AccountsAssumption` (the shape
of the constants), and with any number of resets of one account at once:

- `EndedStays`: `Spec => []EndedUnlessBetween`. `Session`: an ended session shows it in its row,
  or in a `token_version` above its own, or is in `between`. `Version`: a version that was not
  read between overlapping resets is at most its account's, and below what any reset under
  way will write; so whichever of several resets writes last, and if it takes the version
  back, an ended session stays behind it (`Outlives`). Together a late request that passes the first
  check fails the second (`Late`).
- `InvitedOnce`: `Spec => []InviteOnce`. `Holder`: who holds an address is about to commit, and
  there is no account yet that it would create; so of two that both read the invitation
  as open one finds the other's row (`OneAccept`).
- `Verifications`: `Spec => []VerifiedByProof`, from `Cause`. It needs `Way`: a used token was
  given in a request that had ended, so no commit writes over its mark.

Only model-checked: liveness (`CatchesUp`, `JobEnds`, `Stops`, `Ends`,
`Terminates`), which rests on fairness and `ENABLED`, out of the prover's reach; and what
the splitters compute for a text (`SplitsToSequences`, `CutsKeepAll`), an induction over
data. The theorems that need the latter have it as a hypothesis. Every
invariant and every safety property of a step that a passing run checks is stated by a theorem. No
module with a theorem uses a RECURSIVE operator.

## Seen while modelling, without a run

Connectors

- A pause during a sync is overwritten by "connected" at the sync's end, from the
  copy of the row the task read; `auto_sync` stays off, so only the display is wrong.
- A download in flight when its file is deleted turns the tombstone of
  `connector_files` back to "syncing".
- With two syncs at work a token may be taken back to an older one; the changes in
  between are dispatched again, none is lost (`SyncSerial` therefore has one sync).
- A file whose download failed for good is not tried again until it changes. If an older
  download of it is still under way, the mark "failed" is lost with it: that download
  sets the row to "syncing" when it saves (`connectors/tasks.py:127`).
- A connector may stay "syncing" for good, against the comment at
  `services/connector_scheduler.py:233`, also when relationships can be read: the scan skips one
  whose `last_sync_started_at` is not set (`:234`), which only a sync that has begun sets, and
  beat takes only connected ones. So nothing ends a first sync that was never published
  (`services/connector_service.py:324-332`) or that failed for good before it began; a
  publication that is lost is not among the faults of `SyncLive`, where `CatchesUp` would fail too.
- Two overlapping syncs of a new file both find no row and insert one
  (`connectors/orchestrator.py:52`): nothing makes the pair unique.
- Every shipped adapter yields `ConnectorFileMetadata`, without the `change_type` that
  `connectors/orchestrator.py:138` reads. Google Drive's incremental listing calls
  `get_changes`, which its client does not have.
- A download makes an adapter of its own (`connectors/tasks.py:64`), so what Slack and GitHub keep in
  the listing's instance (threads, releases) is never found; SharePoint downloads from
  the default drive only. Dropbox's full listing stores no cursor. For the local
  filesystem and GitHub a file's id is the hash of its content, so each change is another file.
- A credential connected without OAuth has no expiry, so each sync posts it to Google for a
  refresh and fails (`tasks/connector_tasks.py:65`), though it does not expire
  (`services/connector_service.py:57`); the refresh of every provider uses
  Google's endpoint; a rotated refresh token is dropped.
- `connectors.manager` and `tasks.sync_tasks` are imported and absent.
  `tasks/connector_tasks.py`'s syncs, `services/ingestion_orchestrator.py`, `connectors/base.py`
  (hidden by the package of that name) and `services/document_cleanup.py` can only fail.

Uploads and the pipeline

- Two uploads of one name at once insert two catalogue rows, and each later upload of it
  ends in MultipleResultsFound (`tasks/ingestion_tasks.py:202`).
- Cancelling a job that runs is overwritten by the thread
  (`routes/ingestion.py:298` says so).
- Two clients that both see the old schema: the second drops the collection that the
  first has made (`pipeline/indexer.py:95-103`), with the points of a job that has
  completed. Two that both create it: one of the jobs fails (`:114`). A failing upsert leaves
  the points of its earlier batches.
- A line that is repeated is removed with all its copies from two on in a short text, rows
  of a table included (`pipeline/preprocessor.py:154`). A sparse PDF page is replaced by its OCR
  even when that is empty (`pipeline/extractors/pdf_extractor.py:245`).
- Caches of embeddings belong to an embedder that is made for each job, so they never hit.
  The manifest is never read, since all callers set `force`. The routes of
  `routes/ingest.py` lack an argument of what they call.
- Chunks are indexed under the path of a temporary copy and ids made by the
  extractor, and deletions ask for them by file name or row id: no chunk of a
  deleted document leaves the vector store.

Questions

- The two messages of a session's first turn are persisted by two tasks that both create the
  conversation: one of them is lost (`routes/query.py:51`).
- A search whose calls fail answers as one that found nothing (`retrieval/hybrid_retriever.py:90`).
- With two corrections the pages that were graded GOOD are kept and the same search
  is made again, so a page may be cited twice. A neighbour's text may be cited joined
  to one sub-query's chunk and alone for another.
- The correction searches the web only when a chunk was graded below the bad
  threshold (`agents/crag.py:124-130`): with nothing retrieved, or every score in
  between, it does not, where the prompt's grades (`prompts/grading.py:55`) would.
- `/search` calls `rerank` with a keyword it does not have (`routes/search.py:59-63`).
  The embedder wraps every provider error before its retry decorator sees it, so none
  is tried again (`pipeline/embedder.py:15` says otherwise).
- `run()` stores the question twice; a stream that is refused persists an empty
  answer; the list a summary writes gets no expiry; answers stay cached after
  their documents are gone; with several replicas `SummaryFresh` and `InOrder` no
  longer hold, since nothing but the event loop orders two requests of a session.

Accounts and workspaces

- A crash between INCR and EXPIRE leaves a counter that never expires, and its address gets no
  mail again (`services/auth_service.py:68-70`).
- Creating an API key imports a function that `security/auth.py` does not have
  (`routes/settings.py:146`); signup gives the role "admin", which that
  route (`:142`) does not accept.
- Nothing reports a provider's failures, so the circuit breaker never opens
  (`services/workspace/provider_factory.py:14`). Two partial updates of one provider at once
  lose one's field. A rediscovery forgets favourites and defaults; a crash in a test leaves
  "validating". "Changes take effect immediately" (`routes/workspace.py:311`) is true of the
  process that served the request; another may keep the old value for a minute.

## Not modelled, and why

Provider calls, the libraries that read files, embedding and ranking arithmetic, prompts,
guards' regular expressions, e-mail, telemetry, analytics, migrations and the frontend
hold no state whose order matters, or are I/O. OAuth is one exchange per call, and what the
code does with a stored credential mostly stops early. The registry and the abstract
classes of connectors are tables and signatures. The legacy tasks and the webhook route
stop at an import, so they have no behaviour beyond it. Reciprocal rank fusion is done by the
vector store, and the scores it gives only order what is found; the routers pick a prompt
and sizes from a table.

## Plan

Done: `ConnectorSync` with `ChangeFeed`, `IngestionJobs`, `Chat`, `Chunker`, `Retrieval`, `Accounts`,
`Workspace`, `Listing`, `Extraction`, `Splitter` and `Pipeline`, with eight modules of proofs.
Left, in this order:

1. Theorems that need fewer hypotheses: `Accounted` with errors, for a file with one
   download at a time.
2. An abstract specification of a job, with `IngestionJobs` shown to implement it, and one of
   a chunk store for `Pipeline`.
3. `Chat` with several replicas, once the code orders the requests of a session: today the
   event loop alone does.
