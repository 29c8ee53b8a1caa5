------------------------------ MODULE Pipeline ------------------------------
(***************************************************************************)
(* Ingest jobs, searches and removals on one Qdrant collection.             *)
(*                                                                         *)
(* A job turns its file into chunks, embeds them in two threads, and writes *)
(* them to the collection, which the first client to look creates, or        *)
(* replaces when it has the old schema.  An Indexer is made for every job   *)
(* and every removal; the searches of a process share the retriever's.       *)
(*                                                                         *)
(* The collection is a service: calls to it are atomic, and any of them may *)
(* fail.  The vector of a text is the piece of text it was computed from.   *)
(* A provider that answers is taken to give one vector per text: the code   *)
(* does not count them, and pairs chunks and vectors up to the shorter list. *)
(***************************************************************************)
EXTENDS Splitter

CONSTANTS
  Jobs, Searches, Removals,  \* the threads
  Indexers, Uses,            \* the Indexers, and the one each thread uses
  Path,                      \* the path a job indexes under, or a removal asks for
  Loads,                     \* which threads there may be, and the jobs' files
  EmbedBatch, UpsertBatch,   \* texts in a request, points in an upsert
  MaxRetries,                \* EmbeddingSettings.max_retries
  MaxFaults                  \* bound: calls that fail in a behaviour

Threads == Jobs \cup Searches \cup Removals

ASSUME PipelineAssumption ==
  /\ Uses \in [Threads -> Indexers]
  /\ \A t \in Jobs \cup Removals, u \in Threads : Uses[t] = Uses[u] => t = u
  /\ DOMAIN Path = Jobs \cup Removals
  /\ EmbedBatch \in Nat \ {0} /\ UpsertBatch \in Nat \ {0}
  /\ MaxRetries \in Nat /\ MaxFaults \in Nat

VARIABLES
  file,     \* what each job is to ingest
  pc,       \* what each thread does next
  chunks,   \* the chunks of each job
  vectors,  \* what its dense thread has computed
  attempt,  \* failed attempts at the current batch
  dense,    \* "running", "ok" or "failed"
  sparse,   \* the same of its sparse thread
  sent,     \* points it has upserted
  result,   \* "none", or how the thread ended
  client,   \* Indexers whose _client is set
  schema,   \* of the collection: "none", "dense" (the old one) or "dual"
  points,   \* its points
  first,    \* history: the schema in the first state
  faults    \* calls that have failed

embedVars == <<chunks, vectors, attempt, dense, sparse>>
collection == <<schema, points>>
vars == <<file, pc, embedVars, sent, result, client, collection, first, faults>>

Schemas == {"none", "dense", "dual"}
Results == {"none", "indexed", "skipped", "failed", "answered", "empty", "removed"}

TypeOK ==
  /\ file \in {load.files : load \in Loads}
  /\ pc \in [Threads -> {"prepare", "query", "embed", "enter", "make", "look", "inspect",
                         "drop", "create", "call", "done"}]
  /\ \A t \in Jobs : Len(vectors[t]) <= Len(chunks[t]) /\ sent[t] <= Len(chunks[t])
  /\ attempt \in [Jobs -> 0 .. MaxRetries]
  /\ dense \in [Jobs -> {"running", "ok", "failed"}]
  /\ sparse \in [Jobs -> {"running", "ok", "failed"}]
  /\ result \in [Threads -> Results]
  /\ client \subseteq Indexers
  /\ schema \in Schemas /\ first \in Schemas
  /\ faults \in 0 .. MaxFaults

Init ==
  /\ \E load \in Loads :
       /\ file = load.files
       /\ pc = [t \in Threads |-> IF t \notin load.threads THEN "done"
                                 ELSE IF t \in Jobs THEN "prepare"
                                 ELSE IF t \in Searches THEN "query" ELSE "enter"]
  /\ chunks = [t \in Jobs |-> <<>>]
  /\ vectors = [t \in Jobs |-> <<>>]
  /\ attempt = [t \in Jobs |-> 0]
  /\ dense = [t \in Jobs |-> "running"]
  /\ sparse = [t \in Jobs |-> "running"]
  /\ sent = [t \in Jobs |-> 0]
  /\ result = [t \in Threads |-> "none"]
  /\ client = {}
  /\ schema \in Schemas
  /\ points = {}
  /\ first = schema
  /\ faults = 0

At(t, label) == pc[t] = label
Goto(t, label) == pc' = [pc EXCEPT ![t] = label] /\ UNCHANGED result
End(t, how) == pc' = [pc EXCEPT ![t] = "done"] /\ result' = [result EXCEPT ![t] = how]

\* Where a call fails a search goes on with nothing found.
Fails(t) == End(t, IF t \in Searches THEN "empty" ELSE "failed")

Fault == faults < MaxFaults /\ faults' = faults + 1

-----------------------------------------------------------------------------
(* _ingest_file: up to the chunks, all in the job's own memory. *)

Files == UNION {{load.files[t] : t \in Jobs} : load \in Loads}

\* The text of each file once it is cleaned, none where there is no extractor.
Text == [f \in Files |-> IF f.kind \in Supported THEN Clean(Extract(f).text) ELSE NoText]

Pieces == [f \in Files |-> IF Text[f] = NoText THEN <<>>
                           ELSE Split(Deduplicate(<<Text[f]>>)[1], f)]
ChunksOf == [f \in Files |-> SelectSeq(Pieces[f], LongEnough)]

\* A job sets force, so the manifest is not asked.  BaseChunker refuses a job's own
\* chunk_size that is not above the overlap.
Prepare(t) ==
  /\ At(t, "prepare")
  /\ LET f == file[t] IN
       \/ f.kind \notin Supported /\ End(t, "skipped") /\ UNCHANGED chunks
       \/ /\ f.kind \in Supported
          /\ ~Extract(f).ok \/ ~f.sized \/ ChunksOf[f] = <<>>
          /\ End(t, "failed")
          /\ UNCHANGED chunks
       \/ /\ f.kind \in Supported
          /\ Extract(f).ok /\ f.sized /\ ChunksOf[f] # <<>>
          /\ chunks' = [chunks EXCEPT ![t] = ChunksOf[f]]
          /\ Goto(t, "embed")
  /\ UNCHANGED <<file, vectors, attempt, dense, sparse, sent, client, collection,
                 first, faults>>

-----------------------------------------------------------------------------
(* embed_chunks: a dense and a sparse thread, and the join of both. *)

Embedding(t) == At(t, "embed") /\ dense[t] = "running"

\* The texts of the next batch, in order.
Batch(t) ==
  SubSeq(chunks[t], Len(vectors[t]) + 1, Min({Len(vectors[t]) + EmbedBatch, Len(chunks[t])}))

\* The provider's answer: a vector for each text of the batch (assumed, not checked).
EmbedBatchOf(t) ==
  /\ Embedding(t)
  /\ LET all == vectors[t] \o Batch(t) IN
       /\ vectors' = [vectors EXCEPT ![t] = all]
       /\ dense' = [dense EXCEPT ![t] = IF Len(all) >= Len(chunks[t]) THEN "ok" ELSE "running"]
  /\ attempt' = [attempt EXCEPT ![t] = 0]
  /\ UNCHANGED <<file, pc, chunks, sparse, sent, result, client, collection, first, faults>>

\* The provider's own errors are raised as EmbeddingError, which is not retried.
EmbedRaises(t) ==
  /\ Embedding(t)
  /\ Fault
  /\ dense' = [dense EXCEPT ![t] = "failed"]
  /\ UNCHANGED <<file, pc, chunks, vectors, attempt, sparse, sent, result, client,
                 collection, first>>

\* Any other error, as an import that fails, is tried again.
EmbedRetries(t) ==
  /\ Embedding(t)
  /\ Fault
  /\ \/ /\ attempt[t] < MaxRetries
        /\ attempt' = [attempt EXCEPT ![t] = @ + 1]
        /\ UNCHANGED dense
     \/ /\ attempt[t] = MaxRetries
        /\ dense' = [dense EXCEPT ![t] = "failed"]
        /\ UNCHANGED attempt
  /\ UNCHANGED <<file, pc, chunks, vectors, sparse, sent, result, client, collection, first>>

EmbedSparse(t) ==
  /\ At(t, "embed") /\ sparse[t] = "running"
  /\ \/ sparse' = [sparse EXCEPT ![t] = "ok"] /\ UNCHANGED faults
     \/ sparse' = [sparse EXCEPT ![t] = "failed"] /\ Fault
  /\ UNCHANGED <<file, pc, chunks, vectors, attempt, dense, sent, result, client,
                 collection, first>>

\* The executor waits for both threads, also when one has failed.
JoinEmbeddings(t) ==
  /\ At(t, "embed") /\ dense[t] # "running" /\ sparse[t] # "running"
  /\ IF dense[t] = "ok" /\ sparse[t] = "ok" THEN Goto(t, "enter") ELSE End(t, "failed")
  /\ UNCHANGED <<file, embedVars, sent, client, collection, first, faults>>

\* retrieve: without a vector the collection is not asked.
Query(t) ==
  /\ At(t, "query")
  /\ \/ Goto(t, "enter") /\ UNCHANGED faults
     \/ Fails(t) /\ Fault
  /\ UNCHANGED <<file, embedVars, sent, client, collection, first>>

-----------------------------------------------------------------------------
(* _get_client and _ensure_collection. *)

\* A client that is set is used, whether or not the collection is ready.
Enter(t) ==
  /\ At(t, "enter")
  /\ Goto(t, IF Uses[t] \in client THEN "call" ELSE "make")
  /\ UNCHANGED <<file, embedVars, sent, client, collection, first, faults>>

\* Outside the lock, which covers the imports alone.
Make(t) ==
  /\ At(t, "make")
  /\ client' = client \cup {Uses[t]}
  /\ Goto(t, "look")
  /\ UNCHANGED <<file, embedVars, sent, collection, first, faults>>

Look(t) ==
  /\ At(t, "look")
  /\ Goto(t, IF schema = "none" THEN "create" ELSE "inspect")
  /\ UNCHANGED <<file, embedVars, sent, client, collection, first, faults>>

\* Variant: every collection is thought to be the old one.
InspectAny(t) ==
  /\ At(t, "inspect")
  /\ \/ schema # "none" /\ Goto(t, "drop")
     \/ schema = "none" /\ Fails(t)
  /\ UNCHANGED <<file, embedVars, sent, client, collection, first, faults>>

\* get_collection; one that another client has just dropped is an error.
Inspect(t) ==
  /\ At(t, "inspect")
  /\ \/ schema = "dual" /\ Goto(t, "call")
     \/ schema = "dense" /\ Goto(t, "drop")
     \/ schema = "none" /\ Fails(t)
  /\ UNCHANGED <<file, embedVars, sent, client, collection, first, faults>>

\* The collection goes, whatever it has become since it was inspected.
Drop(t) ==
  /\ At(t, "drop")
  /\ schema' = "none" /\ points' = {}
  /\ Goto(t, "create")
  /\ UNCHANGED <<file, embedVars, sent, client, first, faults>>

Create(t) ==
  /\ At(t, "create")
  /\ \/ schema = "none" /\ schema' = "dual" /\ Goto(t, "call")
     \/ schema # "none" /\ UNCHANGED schema /\ Fails(t)
  /\ UNCHANGED <<file, embedVars, sent, client, points, first, faults>>

-----------------------------------------------------------------------------
(* What the thread came for. *)

Point(t, k) == [of |-> t, chunk |-> chunks[t][k], vector |-> vectors[t][k]]

\* Variant: an upsert that is not the last is thought to have left the rest to do again.
UpsertAgain(t) ==
  /\ t \in Jobs /\ At(t, "call") /\ schema = "dual"
  /\ LET upto == Min({sent[t] + UpsertBatch, Len(chunks[t])}) IN
       /\ points' = points \cup {Point(t, k) : k \in sent[t] + 1 .. upto}
       /\ IF upto = Len(chunks[t]) THEN sent' = [sent EXCEPT ![t] = upto] /\ End(t, "indexed")
          ELSE Goto(t, "call") /\ UNCHANGED sent
  /\ UNCHANGED <<file, embedVars, client, schema, first, faults>>

\* upsert_chunks, a batch at a time.
Upsert(t) ==
  /\ t \in Jobs /\ At(t, "call") /\ schema = "dual"
  /\ LET upto == Min({sent[t] + UpsertBatch, Len(chunks[t])}) IN
       /\ points' = points \cup {Point(t, k) : k \in sent[t] + 1 .. upto}
       /\ sent' = [sent EXCEPT ![t] = upto]
       /\ IF upto = Len(chunks[t]) THEN End(t, "indexed") ELSE Goto(t, "call")
  /\ UNCHANGED <<file, embedVars, client, schema, first, faults>>

\* query_points
Search(t) ==
  /\ t \in Searches /\ At(t, "call") /\ schema = "dual"
  /\ End(t, "answered")
  /\ UNCHANGED <<file, embedVars, sent, client, collection, first, faults>>

\* delete_by_source_path
RemoveSource(t) ==
  /\ t \in Removals /\ At(t, "call") /\ schema # "none"
  /\ points' = {p \in points : Path[p.of] # Path[t]}
  /\ End(t, "removed")
  /\ UNCHANGED <<file, embedVars, sent, client, schema, first, faults>>

\* No collection to call, or not one with the vectors' names.
Refused(t) ==
  /\ At(t, "call")
  /\ schema = "none" \/ (schema = "dense" /\ t \notin Removals)
  /\ Fails(t)
  /\ UNCHANGED <<file, embedVars, sent, client, collection, first, faults>>

\* The client stays set, whether or not the collection was made.
QdrantFails(t) ==
  /\ pc[t] \in {"look", "inspect", "drop", "create", "call"}
  /\ Fault
  /\ Fails(t)
  /\ UNCHANGED <<file, embedVars, sent, client, collection, first>>

ClientStep(t) ==
  \/ Query(t) \/ Enter(t) \/ Make(t) \/ Look(t) \/ Inspect(t) \/ Drop(t) \/ Create(t)
  \/ Upsert(t) \/ Search(t) \/ RemoveSource(t) \/ Refused(t) \/ QdrantFails(t)
JobStep(t) ==
  \/ Prepare(t) \/ EmbedBatchOf(t) \/ EmbedRaises(t) \/ EmbedRetries(t)
  \/ EmbedSparse(t) \/ JoinEmbeddings(t)

Next ==
  \/ \E t \in Threads : ClientStep(t)
  \/ \E t \in Jobs : JobStep(t)

Spec == Init /\ [][Next]_vars

\* Threads run, and calls to the services return or raise: each has a timeout.
FairSpec ==
  /\ Spec
  /\ \A t \in Threads : WF_vars(ClientStep(t))
  /\ \A t \in Jobs : WF_vars(Prepare(t)) /\ WF_vars(EmbedBatchOf(t))
                     /\ WF_vars(EmbedSparse(t)) /\ WF_vars(JoinEmbeddings(t))

-----------------------------------------------------------------------------
(* Properties *)

Characters(text) == UNION {{<<i, c>> : c \in WordChars(text, i)} : i \in DOMAIN text}

Removed(t) == \E r \in Removals : Path[r] = Path[t]

\* What a search finds of a job by the vectors of its chunks, and what no search can.
Findable(t) == UNION {p.chunk.holds : p \in {q \in points : q.of = t /\ q.vector = q.chunk}}
TooShort(f) ==
  UNION {Pieces[f][k].holds : k \in {i \in DOMAIN Pieces[f] : ~LongEnough(Pieces[f][i])}}

\* A job that reports "indexed" has every character of its cleaned text in the
\* collection, in a chunk that is found by its own vector, unless the character is only
\* in pieces below min_chunk_size: through the recursion, the merging with overlaps, the
\* hard split, the batches of both services, retries and other jobs' failures.  Not where the
\* collection had the old schema, nor where its points were asked to be removed.
Whole ==
  \A t \in Jobs :
    result[t] = "indexed" /\ first # "dense" /\ ~Removed(t) =>
      Characters(Text[file[t]]) \subseteq Findable(t) \cup TooShort(file[t])

\* No step of a job, a search or a removal takes away a point that is not under the path a
\* removal asked for, whichever of several clients finds the collection missing first:
\* _ensure_collection never drops one that has the present schema from the start.
Kept ==
  [][first # "dense" =>
       \A p \in points : p \notin points' =>
         \E r \in Removals : ~At(r, "done") /\ At(r, "done")' /\ Path[r] = Path[p.of]]_vars

\* Every thread ends: failed requests are retried a bounded number of times, the batches
\* run out, and a thread that meets the collection being made or dropped does not wait.
Ends == \A t \in Threads : <>At(t, "done")
=============================================================================
