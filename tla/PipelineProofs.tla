--------------------------- MODULE PipelineProofs ---------------------------
(* Theorems about Pipeline, for any number of jobs, searches, removals and         *)
(* failures: what their steps may take out of the collection, and what a job that  *)
(* reports success has stored in it.                                               *)
EXTENDS Pipeline, TLAPS

Labels == {"prepare", "query", "embed", "enter", "make", "look", "inspect",
           "drop", "create", "call", "done"}

\* A collection that has not been found with the old schema never gets it, so no
\* client is on its way to drop one.
KInv ==
  /\ pc \in [Threads -> Labels]
  /\ first # "dense" => schema # "dense"
  /\ first # "dense" => \A t \in Threads : pc[t] # "drop"

\* The behaviour starts with a collection as it may be found and with no thread dropping.
LEMMA KInit == Init => KInv
<1> SUFFICES ASSUME Init PROVE KInv
  OBVIOUS
<1>1. PICK load \in Loads :
        pc = [t \in Threads |-> IF t \notin load.threads THEN "done"
                                ELSE IF t \in Jobs THEN "prepare"
                                ELSE IF t \in Searches THEN "query" ELSE "enter"]
  BY DEF Init
<1>2. pc \in [Threads -> Labels] /\ \A t \in Threads : pc[t] # "drop"
  BY <1>1 DEF Labels
<1>3. first = schema
  BY DEF Init
<1> QED
  BY <1>2, <1>3 DEF KInv

\* A thread's own step leaves the others where they are.
LEMMA Moves ==
  ASSUME NEW t \in Threads, NEW l \in Labels, pc \in [Threads -> Labels],
         pc' = [pc EXCEPT ![t] = l]
  PROVE  /\ pc' \in [Threads -> Labels]
         /\ pc'[t] = l
         /\ \A u \in Threads : u # t => pc'[u] = pc[u]
OBVIOUS

\* A step that makes no old collection and does not start to drop one keeps KInv.
LEMMA KMove ==
  ASSUME KInv, NEW t \in Threads, NEW l \in Labels, pc' = [pc EXCEPT ![t] = l],
         l = "drop" => first = "dense",
         first' = first, schema' # "dense" \/ schema' = schema
  PROVE  KInv'
<1>1. /\ pc' \in [Threads -> Labels]
      /\ pc'[t] = l
      /\ \A u \in Threads : u # t => pc'[u] = pc[u]
  BY Moves DEF KInv
<1>2. first' # "dense" => schema' # "dense"
  BY DEF KInv
<1>3. ASSUME first' # "dense", NEW u \in Threads PROVE pc'[u] # "drop"
  BY <1>1, <1>3 DEF KInv
<1> QED
  BY <1>1, <1>2, <1>3 DEF KInv

\* A step that moves no thread.
LEMMA KStay ==
  ASSUME KInv, UNCHANGED <<pc, first, schema>>
  PROVE  KInv'
BY DEF KInv

\* Every step of a thread keeps KInv.
LEMMA KClient ==
  ASSUME KInv, NEW t \in Threads, ClientStep(t)
  PROVE  KInv'
<1> USE DEF Goto, End, Fails, Labels, At, collection
<1>1. CASE Query(t)
  <2>1. CASE Goto(t, "enter")
    BY <1>1, <2>1, KMove DEF Query
  <2>2. CASE Fails(t)
    BY <1>1, <2>2, KMove DEF Query
  <2> QED
    BY <1>1, <2>1, <2>2 DEF Query
<1>2. CASE Enter(t)
  <2>1. CASE Uses[t] \in client
    BY <1>2, <2>1, KMove DEF Enter
  <2>2. CASE Uses[t] \notin client
    BY <1>2, <2>2, KMove DEF Enter
  <2> QED
    BY <2>1, <2>2
<1>3. CASE Make(t)
  BY <1>3, KMove DEF Make
<1>4. CASE Look(t)
  <2>1. CASE schema = "none"
    BY <1>4, <2>1, KMove DEF Look
  <2>2. CASE schema # "none"
    BY <1>4, <2>2, KMove DEF Look
  <2> QED
    BY <2>1, <2>2
<1>5. CASE Inspect(t)
  <2>1. CASE schema = "dual" /\ Goto(t, "call")
    BY <1>5, <2>1, KMove DEF Inspect
  <2>2. CASE schema = "dense" /\ Goto(t, "drop")
    <3>1. first = "dense"
      BY <2>2 DEF KInv
    <3> QED
      BY <1>5, <2>2, <3>1, KMove DEF Inspect
  <2>3. CASE schema = "none" /\ Fails(t)
    BY <1>5, <2>3, KMove DEF Inspect
  <2> QED
    BY <1>5, <2>1, <2>2, <2>3 DEF Inspect
<1>6. CASE Drop(t)
  BY <1>6, KMove DEF Drop
<1>7. CASE Create(t)
  <2>1. CASE schema = "none" /\ schema' = "dual" /\ Goto(t, "call")
    BY <1>7, <2>1, KMove DEF Create
  <2>2. CASE schema # "none" /\ UNCHANGED schema /\ Fails(t)
    BY <1>7, <2>2, KMove DEF Create
  <2> QED
    BY <1>7, <2>1, <2>2 DEF Create
<1>8. CASE Upsert(t)
  <2>1. CASE End(t, "indexed")
    BY <1>8, <2>1, KMove DEF Upsert
  <2>2. CASE Goto(t, "call")
    BY <1>8, <2>2, KMove DEF Upsert
  <2> QED
    BY <1>8, <2>1, <2>2 DEF Upsert
<1>9. CASE Search(t)
  BY <1>9, KMove DEF Search
<1>10. CASE RemoveSource(t)
  BY <1>10, KMove DEF RemoveSource
<1>11. CASE Refused(t)
  BY <1>11, KMove DEF Refused
<1>12. CASE QdrantFails(t)
  BY <1>12, KMove DEF QdrantFails
<1> QED
  BY <1>1, <1>2, <1>3, <1>4, <1>5, <1>6, <1>7, <1>8, <1>9, <1>10, <1>11, <1>12
     DEF ClientStep

\* So does every step of a job in its own memory.
LEMMA KJob ==
  ASSUME KInv, NEW t \in Jobs, JobStep(t)
  PROVE  KInv'
<1> t \in Threads
  BY DEF Threads
<1> USE DEF Goto, End, Labels, collection
<1>1. CASE Prepare(t)
  <2>1. CASE End(t, "skipped")
    BY <1>1, <2>1, KMove DEF Prepare
  <2>2. CASE End(t, "failed")
    BY <1>1, <2>2, KMove DEF Prepare
  <2>3. CASE Goto(t, "embed")
    BY <1>1, <2>3, KMove DEF Prepare
  <2> QED
    BY <1>1, <2>1, <2>2, <2>3 DEF Prepare
<1>2. CASE EmbedBatchOf(t)
  BY <1>2, KStay DEF EmbedBatchOf
<1>3. CASE EmbedRaises(t)
  BY <1>3, KStay DEF EmbedRaises
<1>4. CASE EmbedRetries(t)
  BY <1>4, KStay DEF EmbedRetries
<1>5. CASE EmbedSparse(t)
  BY <1>5, KStay DEF EmbedSparse
<1>6. CASE JoinEmbeddings(t)
  <2>1. CASE Goto(t, "enter")
    BY <1>6, <2>1, KMove DEF JoinEmbeddings
  <2>2. CASE End(t, "failed")
    BY <1>6, <2>2, KMove DEF JoinEmbeddings
  <2> QED
    BY <1>6, <2>1, <2>2 DEF JoinEmbeddings
<1> QED
  BY <1>1, <1>2, <1>3, <1>4, <1>5, <1>6 DEF JobStep

LEMMA KNext == KInv /\ [Next]_vars => KInv'
<1> SUFFICES ASSUME KInv, [Next]_vars PROVE KInv'
  OBVIOUS
<1>1. ASSUME NEW t \in Threads, ClientStep(t) PROVE KInv'
  BY <1>1, KClient
<1>2. ASSUME NEW t \in Jobs, JobStep(t) PROVE KInv'
  BY <1>2, KJob
<1>3. CASE UNCHANGED vars
  BY <1>3, KStay DEF vars, collection
<1> QED
  BY <1>1, <1>2, <1>3 DEF Next

\* What a step takes from the points is under the path that a removal asked for.
TakesNone ==
  first # "dense" =>
    \A p \in points : p \notin points' =>
      \E r \in Removals : ~At(r, "done") /\ At(r, "done")' /\ Path[r] = Path[p.of]

LEMMA KTakes == KInv /\ [Next]_vars => TakesNone
<1> SUFFICES ASSUME KInv, [Next]_vars, first # "dense",
                    NEW p \in points, p \notin points'
             PROVE  \E r \in Removals :
                      ~At(r, "done") /\ At(r, "done")' /\ Path[r] = Path[p.of]
  BY DEF TakesNone
<1>1. ASSUME NEW t \in Threads, Drop(t) PROVE FALSE
  BY <1>1 DEF Drop, At, KInv
<1>2. ASSUME NEW t \in Threads, Upsert(t) PROVE FALSE
  BY <1>2 DEF Upsert
<1>3. ASSUME NEW t \in Threads, RemoveSource(t)
      PROVE  t \in Removals /\ ~At(t, "done") /\ At(t, "done")' /\ Path[t] = Path[p.of]
  <2>1. pc' = [pc EXCEPT ![t] = "done"]
    BY <1>3 DEF RemoveSource, End
  <2>2. pc'[t] = "done"
    BY <2>1 DEF KInv
  <2> QED
    BY <1>3, <2>2 DEF RemoveSource, At
<1>4. ASSUME NEW t \in Threads, ClientStep(t),
             ~Drop(t), ~Upsert(t), ~RemoveSource(t)
      PROVE  FALSE
  BY <1>4 DEF ClientStep, Query, Enter, Make, Look, Inspect, Create, Search, Refused,
              QdrantFails, collection
<1>5. ASSUME NEW t \in Jobs, JobStep(t) PROVE FALSE
  BY <1>5 DEF JobStep, Prepare, EmbedBatchOf, EmbedRaises, EmbedRetries, EmbedSparse,
              JoinEmbeddings, collection
<1>6. CASE UNCHANGED vars
  BY <1>6 DEF vars, collection
<1> QED
  BY <1>1, <1>2, <1>3, <1>4, <1>5, <1>6 DEF Next

\* No step of a job or a search takes a point away, and a removal only what it was asked
\* to, with any number of clients that find the collection missing or half made
\* (_ensure_collection, delete_by_source_path).
THEOREM KeepsPoints == Spec => Kept
<1>1. KInv /\ [Next]_vars => [TakesNone]_vars
  BY KTakes
<1> QED
  BY KInit, KNext, <1>1, PTL DEF Spec, Kept, TakesNone

-----------------------------------------------------------------------------
(* What a job that reports "indexed" has stored. *)

AllChunks == UNION {{ChunksOf[f][k] : k \in DOMAIN ChunksOf[f]} : f \in Files}

\* That the splits and the filter give sequences is what the recursion computes, which
\* TLC evaluates for the files of an instance.
SplitsToSequences == \A f \in Files : ChunksOf[f] \in Seq(AllChunks)

\* Every chunk of the job's file is a point of the job, with the vector of its own text.
Delivered ==
  \A t \in Jobs :
    result[t] = "indexed" /\ first # "dense" /\ ~Removed(t) =>
      \A k \in 1 .. Len(ChunksOf[file[t]]) :
        LET chunk == ChunksOf[file[t]][k]
        IN [of |-> t, chunk |-> chunk, vector |-> chunk] \in points

Calling == {"enter", "make", "look", "inspect", "drop", "create", "call"}

DTypes ==
  /\ \A t \in Jobs : file[t] \in Files
  /\ chunks \in [Jobs -> Seq(AllChunks)]
  /\ vectors \in [Jobs -> Seq(AllChunks)]
  /\ dense \in [Jobs -> {"running", "ok", "failed"}]
  /\ sent \in [Jobs -> Nat]
  /\ result \in [Threads -> Results]

\* The vectors are those of the first chunks, of all of them once the threads have
\* been joined, and nothing is upserted before.
InStep(t) ==
  /\ pc[t] # "query"
  /\ Len(vectors[t]) <= Len(chunks[t])
  /\ \A k \in 1 .. Len(vectors[t]) : vectors[t][k] = chunks[t][k]
  /\ dense[t] = "ok" => Len(vectors[t]) = Len(chunks[t])
  /\ pc[t] = "prepare" => vectors[t] = <<>> /\ dense[t] = "running"
  /\ pc[t] \in {"prepare", "embed"} => sent[t] = 0
  /\ sent[t] <= Len(vectors[t])
  /\ pc[t] \in Calling => Len(vectors[t]) = Len(chunks[t])
  /\ pc[t] \in Calling \cup {"embed"} => chunks[t] = ChunksOf[file[t]]
  /\ result[t] = "indexed" => /\ pc[t] = "done"
                              /\ sent[t] = Len(vectors[t])
                              /\ sent[t] = Len(chunks[t])
                              /\ chunks[t] = ChunksOf[file[t]]

\* What is counted as sent is there.
Stored(t) ==
  first # "dense" /\ ~Removed(t) => \A k \in 1 .. sent[t] : Point(t, k) \in points

DInv ==
  /\ DTypes
  /\ \A t \in Jobs : InStep(t)
  /\ \A t \in Jobs : Stored(t)

\* Nothing is computed, sent or reported at the start.
LEMMA DInit == Init => DInv
<1> SUFFICES ASSUME Init PROVE DInv
  OBVIOUS
<1> USE DEF Threads
<1>1. PICK load \in Loads :
        /\ file = load.files
        /\ pc = [t \in Threads |-> IF t \notin load.threads THEN "done"
                                   ELSE IF t \in Jobs THEN "prepare"
                                   ELSE IF t \in Searches THEN "query" ELSE "enter"]
  BY DEF Init
<1>2. \A t \in Jobs : file[t] \in Files
  BY <1>1 DEF Files
<1>3. /\ chunks = [t \in Jobs |-> <<>>] /\ vectors = [t \in Jobs |-> <<>>]
      /\ dense = [t \in Jobs |-> "running"] /\ sent = [t \in Jobs |-> 0]
      /\ result = [t \in Threads |-> "none"]
  BY DEF Init
<1>4. DTypes
  BY <1>2, <1>3 DEF DTypes, Results
<1>5. ASSUME NEW t \in Jobs PROVE InStep(t) /\ Stored(t)
  <2>1. pc[t] \in {"prepare", "done"} /\ chunks[t] = <<>> /\ vectors[t] = <<>>
        /\ sent[t] = 0 /\ dense[t] = "running" /\ result[t] = "none"
    BY <1>1, <1>3
  <2>2. InStep(t)
    BY <2>1 DEF InStep, Calling
  <2>3. Stored(t)
    BY <2>1 DEF Stored
  <2> QED
    BY <2>2, <2>3
<1> QED
  BY <1>4, <1>5 DEF DInv

\* InStep(t) speaks of t's own values alone.
LEMMA Bystander ==
  ASSUME NEW t \in Jobs, InStep(t), file' = file,
         pc'[t] = pc[t], chunks'[t] = chunks[t], vectors'[t] = vectors[t],
         dense'[t] = dense[t], sent'[t] = sent[t], result'[t] = result[t]
  PROVE  InStep(t)'
BY DEF InStep

\* A step that changes neither what t has sent nor the collection.
LEMMA SameStored ==
  ASSUME NEW t \in Jobs, Stored(t), first' = first, points' = points,
         chunks'[t] = chunks[t], vectors'[t] = vectors[t], sent'[t] = sent[t]
  PROVE  Stored(t)'
BY DEF Stored, Point, Removed

\* What a call to the collection leaves alone when it is not an upsert.
LEMMA ClientShape ==
  ASSUME NEW u \in Threads, ClientStep(u), ~Upsert(u)
  PROVE  /\ UNCHANGED <<file, chunks, vectors, dense, sent, first>>
         /\ pc[u] \in Calling \cup {"query"}
         /\ \E l \in Calling \cup {"done"} : pc' = [pc EXCEPT ![u] = l]
         /\ \/ result' = result
            \/ \E how \in Results \ {"indexed"} : result' = [result EXCEPT ![u] = how]
<1> USE DEF Goto, End, Fails, Calling, At, embedVars, Results
<1>1. CASE Query(u)
  BY <1>1 DEF Query
<1>2. CASE Enter(u)
  BY <1>2 DEF Enter
<1>3. CASE Make(u)
  BY <1>3 DEF Make
<1>4. CASE Look(u)
  BY <1>4 DEF Look
<1>5. CASE Inspect(u)
  BY <1>5 DEF Inspect
<1>6. CASE Drop(u)
  BY <1>6 DEF Drop
<1>7. CASE Create(u)
  BY <1>7 DEF Create
<1>8. CASE Search(u)
  BY <1>8 DEF Search
<1>9. CASE RemoveSource(u)
  BY <1>9 DEF RemoveSource
<1>10. CASE Refused(u)
  BY <1>10 DEF Refused
<1>11. CASE QdrantFails(u)
  BY <1>11 DEF QdrantFails
<1> QED
  BY <1>1, <1>2, <1>3, <1>4, <1>5, <1>6, <1>7, <1>8, <1>9, <1>10, <1>11 DEF ClientStep

\* A point of a job that no removal asks for stays through every step.
LEMMA Stays ==
  ASSUME TakesNone, NEW t \in Jobs, first # "dense", ~Removed(t),
         NEW k, Point(t, k) \in points
  PROVE  Point(t, k) \in points'
<1>1. Point(t, k).of = t
  BY DEF Point
<1> QED
  BY <1>1 DEF TakesNone, Removed

LEMMA DClient ==
  ASSUME KInv, DInv, TakesNone, NEW u \in Threads, ClientStep(u), ~Upsert(u)
  PROVE  DInv'
<1>1. /\ UNCHANGED <<file, chunks, vectors, dense, sent, first>>
      /\ pc[u] \in Calling \cup {"query"}
  BY ClientShape
<1>2. PICK l \in Calling \cup {"done"} : pc' = [pc EXCEPT ![u] = l]
  BY ClientShape
<1>3. \/ result' = result
      \/ \E how \in Results \ {"indexed"} : result' = [result EXCEPT ![u] = how]
  BY ClientShape
<1>4. pc \in [Threads -> Labels] /\ result \in [Threads -> Results]
  BY DEF KInv, DInv, DTypes
<1>5. DTypes'
  <2>1. result' \in [Threads -> Results]
    BY <1>3, <1>4
  <2> QED
    BY <1>1, <2>1 DEF DInv, DTypes
<1>6. ASSUME NEW t \in Jobs PROVE InStep(t)'
  <2>1. t \in Threads /\ InStep(t)
    BY DEF Threads, DInv
  <2>2. CASE t # u
    <3>1. pc'[t] = pc[t] /\ result'[t] = result[t]
      BY <1>2, <1>3, <1>4, <2>1, <2>2
    <3> QED
      BY <1>1, <2>1, <3>1, Bystander
  <2>3. CASE t = u
    <3>1. pc[t] \in Calling
      BY <1>1, <2>1, <2>3 DEF InStep
    <3>2. pc'[t] = l /\ result'[t] # "indexed"
      BY <1>2, <1>3, <1>4, <2>1, <2>3, <3>1 DEF InStep, Calling
    <3>3. l \in Calling \cup {"done"} /\ l \notin {"query", "prepare", "embed"}
      BY DEF Calling
    <3> QED
      BY <1>1, <2>1, <3>1, <3>2, <3>3 DEF InStep
  <2> QED
    BY <2>2, <2>3
<1>7. ASSUME NEW t \in Jobs PROVE Stored(t)'
  <2>1. Stored(t)
    BY DEF DInv
  <2>2. Removed(t)' = Removed(t)
    BY DEF Removed
  <2>3. SUFFICES ASSUME first # "dense", ~Removed(t), NEW k \in 1 .. sent[t]
                 PROVE  Point(t, k)' \in points'
    BY <1>1, <2>2 DEF Stored
  <2>4. Point(t, k)' = Point(t, k)
    BY <1>1 DEF Point
  <2>5. Point(t, k) \in points
    BY <2>1, <2>3 DEF Stored
  <2> QED
    BY <2>3, <2>4, <2>5, Stays
<1> QED
  BY <1>5, <1>6, <1>7 DEF DInv

\* The smaller of two integers.
LEMMA MinOfTwo ==
  ASSUME NEW a \in Int, NEW b \in Int
  PROVE  /\ Min({a, b}) \in {a, b}
         /\ Min({a, b}) <= a /\ Min({a, b}) <= b
<1>1. CASE a <= b
  BY <1>1 DEF Min
<1>2. CASE b < a
  BY <1>2 DEF Min
<1> QED
  BY <1>1, <1>2

LEMMA DUpsert ==
  ASSUME KInv, DInv, TakesNone, NEW u \in Threads, Upsert(u)
  PROVE  DInv'
<1> DEFINE upto == Min({sent[u] + UpsertBatch, Len(chunks[u])})
<1>1. /\ UNCHANGED <<file, chunks, vectors, dense, first>>
      /\ u \in Jobs /\ pc[u] = "call"
      /\ points' = points \cup {Point(u, k) : k \in sent[u] + 1 .. upto}
      /\ sent' = [sent EXCEPT ![u] = upto]
  BY DEF Upsert, At, embedVars
<1>2. IF upto = Len(chunks[u]) THEN End(u, "indexed") ELSE Goto(u, "call")
  BY DEF Upsert
<1>3. pc \in [Threads -> Labels] /\ result \in [Threads -> Results]
      /\ sent \in [Jobs -> Nat] /\ chunks[u] \in Seq(AllChunks)
      /\ vectors[u] \in Seq(AllChunks)
  BY <1>1 DEF KInv, DInv, DTypes
<1>4. InStep(u)
  BY <1>1 DEF DInv
<1>5. sent[u] \in Nat /\ Len(chunks[u]) \in Nat /\ UpsertBatch \in Nat
      /\ sent[u] <= Len(chunks[u])
  BY <1>1, <1>3, <1>4, PipelineAssumption DEF InStep
<1>6. upto \in Nat /\ sent[u] <= upto /\ upto <= Len(chunks[u])
  <2> DEFINE a == sent[u] + UpsertBatch
             b == Len(chunks[u])
  <2>1. a \in Int /\ b \in Int /\ a \in Nat /\ b \in Nat /\ sent[u] <= a /\ sent[u] <= b
    BY <1>5
  <2> HIDE DEF a, b
  <2>2. Min({a, b}) \in {a, b} /\ Min({a, b}) <= b
    BY <2>1, MinOfTwo
  <2>3. upto = Min({a, b})
    BY DEF a, b
  <2>4. upto \in Nat /\ sent[u] <= upto /\ upto <= b
    BY <2>1, <2>2, <2>3
  <2> QED
    BY <2>4 DEF b
<1> HIDE DEF upto
<1>7. DTypes'
  <2>1. result' \in [Threads -> Results]
    BY <1>2, <1>3 DEF End, Goto, Results
  <2>2. sent' \in [Jobs -> Nat]
    BY <1>1, <1>3, <1>6
  <2> QED
    BY <1>1, <2>1, <2>2 DEF DInv, DTypes
<1>8. ASSUME NEW t \in Jobs PROVE InStep(t)'
  <2>1. t \in Threads /\ InStep(t)
    BY DEF Threads, DInv
  <2>2. CASE t # u
    <3>1. pc'[t] = pc[t] /\ result'[t] = result[t] /\ sent'[t] = sent[t]
      BY <1>1, <1>2, <1>3, <2>1, <2>2 DEF End, Goto
    <3> QED
      BY <1>1, <2>1, <3>1, Bystander
  <2>3. CASE t = u
    <3>1. sent'[t] = upto /\ Len(vectors[t]) = Len(chunks[t])
          /\ chunks[t] = ChunksOf[file[t]] /\ result[t] # "indexed"
      BY <1>1, <1>3, <2>1, <2>3 DEF InStep, Calling
    <3>2. CASE upto = Len(chunks[u])
      <4>1. pc'[t] = "done"
        BY <1>2, <1>3, <2>1, <2>3, <3>2 DEF End
      <4> QED
        BY <1>1, <1>6, <2>1, <2>3, <3>1, <3>2, <4>1 DEF InStep, Calling
    <3>3. CASE upto # Len(chunks[u])
      <4>1. pc'[t] = "call" /\ result'[t] = result[t]
        BY <1>2, <1>3, <2>1, <2>3, <3>3 DEF Goto
      <4> QED
        BY <1>1, <1>6, <2>1, <2>3, <3>1, <4>1 DEF InStep, Calling
    <3> QED
      BY <3>2, <3>3
  <2> QED
    BY <2>2, <2>3
<1>9. ASSUME NEW t \in Jobs PROVE Stored(t)'
  <2>1. Stored(t) /\ t \in Threads
    BY DEF DInv, Threads
  <2>2. Removed(t)' = Removed(t)
    BY DEF Removed
  <2>3. SUFFICES ASSUME first # "dense", ~Removed(t), NEW k \in 1 .. sent'[t]
                 PROVE  Point(t, k)' \in points'
    BY <1>1, <2>2 DEF Stored
  <2>4. Point(t, k)' = Point(t, k)
    BY <1>1 DEF Point
  <2>5. CASE k \in 1 .. sent[t]
    <3>1. Point(t, k) \in points
      BY <2>1, <2>3, <2>5 DEF Stored
    <3> QED
      BY <1>1, <2>4, <3>1
  <2>6. CASE k \notin 1 .. sent[t]
    <3>1. t = u
      BY <1>1, <1>3, <2>3, <2>6
    <3>2. k \in sent[u] + 1 .. upto
      BY <1>1, <1>3, <1>5, <1>6, <2>3, <2>6, <3>1
    <3> QED
      BY <1>1, <2>4, <3>1, <3>2
  <2> QED
    BY <2>5, <2>6
<1> QED
  BY <1>7, <1>8, <1>9 DEF DInv

\* A batch of vectors is that of the next chunks, so the vectors stay those of the first.
LEMMA BatchExtends ==
  ASSUME NEW t \in Jobs, chunks[t] \in Seq(AllChunks), vectors[t] \in Seq(AllChunks),
         Len(vectors[t]) <= Len(chunks[t]),
         \A k \in 1 .. Len(vectors[t]) : vectors[t][k] = chunks[t][k]
  PROVE  LET all == vectors[t] \o Batch(t)
         IN /\ all \in Seq(AllChunks)
            /\ Len(all) <= Len(chunks[t])
            /\ \A k \in 1 .. Len(all) : all[k] = chunks[t][k]
<1> DEFINE v == vectors[t]
           c == chunks[t]
           m == Len(v)
           n == Min({m + EmbedBatch, Len(c)})
           b == SubSeq(c, m + 1, n)
           all == v \o b
<1>1. m \in Nat /\ Len(c) \in Nat /\ EmbedBatch \in Nat /\ m <= Len(c)
  BY PipelineAssumption
<1>2. n \in Nat /\ m <= n /\ n <= Len(c)
  <2> DEFINE x == m + EmbedBatch
             y == Len(c)
  <2>1. x \in Int /\ y \in Int /\ x \in Nat /\ y \in Nat /\ m <= x /\ m <= y
    BY <1>1
  <2> HIDE DEF x, y, m
  <2>2. Min({x, y}) \in {x, y} /\ Min({x, y}) <= y
    BY <2>1, MinOfTwo
  <2>3. n = Min({x, y})
    BY DEF x, y
  <2>4. n \in Nat /\ m <= n /\ n <= y
    BY <2>1, <2>2, <2>3
  <2> QED
    BY <2>4 DEF y
<1>3. Batch(t) = b
  BY DEF Batch
<1> HIDE DEF n
<1>4. v \in Seq(AllChunks) /\ c \in Seq(AllChunks)
      /\ \A k \in 1 .. m : v[k] = c[k]
  OBVIOUS
<1> HIDE DEF v, c
<1>5. b \in Seq(AllChunks) /\ Len(b) = n - m /\ \A k \in 1 .. n - m : b[k] = c[m + k]
  BY <1>1, <1>2, <1>4
<1> HIDE DEF b
<1>6. all \in Seq(AllChunks) /\ Len(all) = n
  BY <1>1, <1>2, <1>4, <1>5
<1>7. ASSUME NEW k \in 1 .. n PROVE all[k] = c[k]
  <2>1. CASE k <= m
    BY <1>1, <1>2, <1>4, <1>5, <2>1
  <2>2. CASE m < k
    <3>1. k - m \in 1 .. n - m
      BY <1>1, <1>2, <2>2
    <3>2. all[k] = b[k - m]
      BY <1>1, <1>2, <1>4, <1>5, <2>2
    <3>3. b[k - m] = c[m + (k - m)]
      BY <1>5, <3>1
    <3>4. m + (k - m) = k
      BY <1>1, <1>2
    <3> QED
      BY <3>2, <3>3, <3>4
  <2>3. k \in Int
    BY <1>2
  <2> HIDE DEF m, all
  <2>4. k <= m \/ m < k
    BY <1>1, <2>3
  <2> QED
    BY <2>1, <2>2, <2>4
<1>8. all \in Seq(AllChunks) /\ Len(all) <= Len(c) /\ \A k \in 1 .. Len(all) : all[k] = c[k]
  BY <1>2, <1>6, <1>7
<1> QED
  BY <1>3, <1>8 DEF v, c

\* The steps of a job in its own memory leave the points, and those of others, alone.
LEMMA JobShape ==
  ASSUME NEW u \in Jobs, JobStep(u), DTypes, pc \in [Threads -> Labels]
  PROVE  /\ UNCHANGED <<file, sent, points, first>>
         /\ \A t \in Jobs : t # u => /\ pc'[t] = pc[t] /\ result'[t] = result[t]
                                     /\ chunks'[t] = chunks[t] /\ vectors'[t] = vectors[t]
                                     /\ dense'[t] = dense[t]
<1> \A t \in Jobs : t \in Threads
  BY DEF Threads
<1> USE DEF Goto, End, collection, embedVars, DTypes
<1>1. CASE Prepare(u)
  BY <1>1 DEF Prepare
<1>2. CASE EmbedBatchOf(u)
  BY <1>2 DEF EmbedBatchOf
<1>3. CASE EmbedRaises(u)
  BY <1>3 DEF EmbedRaises
<1>4. CASE EmbedRetries(u)
  BY <1>4 DEF EmbedRetries
<1>5. CASE EmbedSparse(u)
  BY <1>5 DEF EmbedSparse
<1>6. CASE JoinEmbeddings(u)
  BY <1>6 DEF JoinEmbeddings
<1> QED
  BY <1>1, <1>2, <1>3, <1>4, <1>5, <1>6 DEF JobStep

\* What a job's own step in its memory establishes.
LEMMA OwnStep ==
  ASSUME SplitsToSequences, DTypes, pc \in [Threads -> Labels],
         NEW u \in Jobs, JobStep(u), InStep(u)
  PROVE  DTypes' /\ InStep(u)' /\ pc[u] \in {"prepare", "embed"}
<1> u \in Threads
  BY DEF Threads
<1> USE DEF Goto, End, collection, embedVars, At, Results
<1>0. UNCHANGED <<file, sent>>
  BY JobShape
<1>1. CASE Prepare(u)
  <2>1. pc[u] = "prepare" /\ vectors' = vectors /\ dense' = dense
    BY <1>1 DEF Prepare
  <2>2. CASE UNCHANGED chunks /\ \E how \in {"skipped", "failed"} : End(u, how)
    <3>1. DTypes'
      BY <1>0, <2>1, <2>2 DEF DTypes
    <3>2. pc'[u] = "done" /\ result'[u] # "indexed"
      BY <2>2 DEF DTypes
    <3> QED
      BY <1>0, <2>1, <2>2, <3>1, <3>2 DEF InStep, Calling
  <2>3. CASE chunks' = [chunks EXCEPT ![u] = ChunksOf[file[u]]] /\ Goto(u, "embed")
    <3>1. ChunksOf[file[u]] \in Seq(AllChunks)
      BY DEF SplitsToSequences, DTypes
    <3>2. DTypes'
      BY <1>0, <2>1, <2>3, <3>1 DEF DTypes
    <3>3. pc'[u] = "embed" /\ chunks'[u] = ChunksOf[file[u]] /\ result'[u] = result[u]
      BY <2>3 DEF DTypes
    <3>4. vectors'[u] = <<>> /\ dense'[u] = "running" /\ sent'[u] = 0 /\ result'[u] # "indexed"
      BY <1>0, <2>1, <3>3 DEF InStep
    <3>5. Len(vectors'[u]) = 0 /\ Len(chunks'[u]) \in Nat
      BY <3>1, <3>3, <3>4
    <3> QED
      BY <1>0, <2>1, <3>2, <3>3, <3>4, <3>5 DEF InStep, Calling
  <2> QED
    BY <1>1, <2>1, <2>2, <2>3 DEF Prepare
<1>2. CASE EmbedBatchOf(u)
  <2> DEFINE all == vectors[u] \o Batch(u)
  <2>1. /\ pc[u] = "embed" /\ UNCHANGED <<pc, chunks, result>>
        /\ vectors' = [vectors EXCEPT ![u] = all]
        /\ dense' = [dense EXCEPT ![u] = IF Len(all) >= Len(chunks[u]) THEN "ok" ELSE "running"]
    BY <1>2 DEF EmbedBatchOf, Embedding
  <2>2. /\ all \in Seq(AllChunks)
        /\ Len(all) <= Len(chunks[u])
        /\ \A k \in 1 .. Len(all) : all[k] = chunks[u][k]
    BY BatchExtends DEF DTypes, InStep
  <2> HIDE DEF all
  <2>3. DTypes'
    BY <1>0, <2>1, <2>2 DEF DTypes
  <2>4. /\ vectors'[u] = all
        /\ dense'[u] = IF Len(all) >= Len(chunks[u]) THEN "ok" ELSE "running"
    BY <2>1 DEF DTypes
  <2>5. sent[u] = 0 /\ result[u] # "indexed" /\ chunks[u] = ChunksOf[file[u]]
    BY <2>1 DEF InStep
  <2>6. dense'[u] = "ok" => Len(all) = Len(chunks[u])
    BY <2>2, <2>4 DEF DTypes
  <2>7. Len(all) \in Nat
    BY <2>2
  <2> QED
    BY <1>0, <2>1, <2>2, <2>3, <2>4, <2>5, <2>6, <2>7 DEF InStep, Calling
<1>3. CASE EmbedRaises(u) \/ EmbedRetries(u) \/ EmbedSparse(u)
  <2>1. /\ pc[u] = "embed" /\ UNCHANGED <<pc, chunks, vectors, result>>
        /\ dense' = dense \/ dense' = [dense EXCEPT ![u] = "failed"]
    BY <1>3 DEF EmbedRaises, EmbedRetries, EmbedSparse, Embedding
  <2>2. DTypes'
    BY <1>0, <2>1 DEF DTypes
  <2>3. dense'[u] = dense[u] \/ dense'[u] = "failed"
    BY <2>1 DEF DTypes
  <2> QED
    BY <1>0, <2>1, <2>2, <2>3 DEF InStep, Calling
<1>4. CASE JoinEmbeddings(u)
  <2>1. /\ pc[u] = "embed" /\ UNCHANGED <<chunks, vectors, dense>>
    BY <1>4 DEF JoinEmbeddings
  <2>2. sent[u] = 0 /\ result[u] # "indexed" /\ chunks[u] = ChunksOf[file[u]]
    BY <2>1 DEF InStep
  <2>3. CASE dense[u] = "ok" /\ Goto(u, "enter")
    <3>1. DTypes'
      BY <1>0, <2>1, <2>3 DEF DTypes
    <3>2. pc'[u] = "enter" /\ result'[u] = result[u] /\ Len(vectors[u]) = Len(chunks[u])
      BY <2>3 DEF InStep
    <3> QED
      BY <1>0, <2>1, <2>2, <2>3, <3>1, <3>2 DEF InStep, Calling
  <2>4. CASE End(u, "failed")
    <3>1. DTypes'
      BY <1>0, <2>1, <2>4 DEF DTypes
    <3>2. pc'[u] = "done" /\ result'[u] = "failed"
      BY <2>4 DEF DTypes
    <3> QED
      BY <1>0, <2>1, <2>2, <2>4, <3>1, <3>2 DEF InStep, Calling
  <2> QED
    BY <1>4, <2>1, <2>3, <2>4 DEF JoinEmbeddings
<1> QED
  BY <1>1, <1>2, <1>3, <1>4 DEF JobStep

LEMMA DJob ==
  ASSUME SplitsToSequences, KInv, DInv, NEW u \in Jobs, JobStep(u)
  PROVE  DInv'
<1>1. pc \in [Threads -> Labels] /\ DTypes /\ InStep(u)
  BY DEF KInv, DInv
<1>2. DTypes' /\ InStep(u)' /\ pc[u] \in {"prepare", "embed"}
  BY <1>1, OwnStep
<1>3. UNCHANGED <<file, sent, points, first>>
  BY <1>1, JobShape
<1>4. \A t \in Jobs : t # u => /\ pc'[t] = pc[t] /\ result'[t] = result[t]
                              /\ chunks'[t] = chunks[t] /\ vectors'[t] = vectors[t]
                              /\ dense'[t] = dense[t]
  BY <1>1, JobShape
<1>5. ASSUME NEW t \in Jobs, t # u PROVE InStep(t)' /\ Stored(t)'
  <2>1. InStep(t) /\ Stored(t)
    BY DEF DInv
  <2>2. InStep(t)'
    BY <1>3, <1>4, <1>5, <2>1, Bystander
  <2>3. Stored(t)'
    BY <1>3, <1>4, <1>5, <2>1, SameStored
  <2> QED
    BY <2>2, <2>3
<1>6. Stored(u)'
  <2>1. sent'[u] = 0
    BY <1>1, <1>2, <1>3 DEF InStep
  <2> QED
    BY <2>1 DEF Stored
<1> QED
  BY <1>2, <1>5, <1>6 DEF DInv

LEMMA DNext ==
  ASSUME SplitsToSequences
  PROVE  KInv /\ DInv /\ [Next]_vars => DInv'
<1> SUFFICES ASSUME KInv, DInv, [Next]_vars PROVE DInv'
  OBVIOUS
<1>1. TakesNone
  BY KTakes
<1>2. ASSUME NEW t \in Threads, ClientStep(t) PROVE DInv'
  BY <1>1, <1>2, DClient, DUpsert
<1>3. ASSUME NEW t \in Jobs, JobStep(t) PROVE DInv'
  BY <1>3, DJob
<1>4. CASE UNCHANGED vars
  <2>1. UNCHANGED <<file, pc, chunks, vectors, dense, sent, result, points, first>>
    BY <1>4 DEF vars, embedVars, collection
  <2>2. DTypes'
    BY <2>1 DEF DInv, DTypes
  <2>3. ASSUME NEW t \in Jobs PROVE InStep(t)' /\ Stored(t)'
    <3>1. InStep(t) /\ Stored(t)
      BY DEF DInv
    <3> QED
      BY <2>1, <3>1, Bystander, SameStored
  <2> QED
    BY <2>2, <2>3 DEF DInv
<1> QED
  BY <1>2, <1>3, <1>4 DEF Next

LEMMA DDelivers == DInv => Delivered
<1> SUFFICES ASSUME DInv, NEW t \in Jobs, result[t] = "indexed", first # "dense",
                    ~Removed(t), NEW k \in 1 .. Len(ChunksOf[file[t]])
             PROVE  [of |-> t, chunk |-> ChunksOf[file[t]][k],
                     vector |-> ChunksOf[file[t]][k]] \in points
  BY DEF Delivered
<1>1. InStep(t) /\ Stored(t)
  BY DEF DInv
<1>2. sent[t] = Len(ChunksOf[file[t]]) /\ Len(vectors[t]) = sent[t]
      /\ chunks[t] = ChunksOf[file[t]]
  BY <1>1 DEF InStep
<1>3. Point(t, k) \in points
  BY <1>1, <1>2 DEF Stored
<1>4. vectors[t][k] = chunks[t][k]
  BY <1>1, <1>2 DEF InStep
<1> QED
  BY <1>2, <1>3, <1>4 DEF Point

\* A job that reports success has all chunks of its file in the collection, each with its
\* own vector: for any batch sizes, retries, failures and other threads (embed_chunks,
\* upsert_chunks), as long as nobody asks for their removal.
THEOREM EveryChunkStored ==
  ASSUME SplitsToSequences
  PROVE  Spec => []Delivered
<1>1. Init => KInv /\ DInv
  BY KInit, DInit
<1>2. KInv /\ DInv /\ [Next]_vars => (KInv /\ DInv)'
  BY KNext, DNext
<1>3. KInv /\ DInv => Delivered
  BY DDelivers
<1> QED
  BY <1>1, <1>2, <1>3, PTL DEF Spec

\* That cutting a text loses none of its characters is what the recursion, the merge and
\* the windows compute: the run Pipeline evaluates it, as a part of Whole, for its files.
CutsKeepAll ==
  \A f \in Files :
    Characters(Text[f])
      \subseteq (UNION {ChunksOf[f][k].holds : k \in DOMAIN ChunksOf[f]}) \cup TooShort(f)

LEMMA DeliversWhole ==
  ASSUME SplitsToSequences, CutsKeepAll, DInv, Delivered
  PROVE  Whole
<1> SUFFICES ASSUME NEW t \in Jobs, result[t] = "indexed", first # "dense", ~Removed(t)
             PROVE  Characters(Text[file[t]]) \subseteq Findable(t) \cup TooShort(file[t])
  BY DEF Whole
<1> DEFINE f == file[t]
           mine == {q \in points : q.of = t /\ q.vector = q.chunk}
<1>1. f \in Files
  BY DEF DInv, DTypes
<1>2. ChunksOf[f] \in Seq(AllChunks)
  BY <1>1 DEF SplitsToSequences
<1>3. ASSUME NEW k \in DOMAIN ChunksOf[f]
      PROVE  \E p \in mine : p.chunk = ChunksOf[f][k]
  <2> DEFINE chunk == ChunksOf[f][k]
             p == [of |-> t, chunk |-> chunk, vector |-> chunk]
  <2>1. k \in 1 .. Len(ChunksOf[f])
    BY <1>2, <1>3
  <2>2. p \in points
    BY <2>1 DEF Delivered
  <2>3. p.of = t /\ p.vector = p.chunk /\ p.chunk = chunk
    OBVIOUS
  <2> HIDE DEF p
  <2> QED
    BY <2>2, <2>3
<1>4. ASSUME NEW k \in DOMAIN ChunksOf[f]
      PROVE  ChunksOf[f][k].holds \subseteq Findable(t)
  <2>1. PICK p \in mine : p.chunk = ChunksOf[f][k]
    BY <1>3, <1>4
  <2>2. p.chunk.holds \subseteq Findable(t)
    BY Zenon DEF Findable
  <2> QED
    BY <2>1, <2>2
<1>5. UNION {ChunksOf[f][k].holds : k \in DOMAIN ChunksOf[f]} \subseteq Findable(t)
  <2> SUFFICES ASSUME NEW h \in {ChunksOf[f][k].holds : k \in DOMAIN ChunksOf[f]}, NEW x \in h
               PROVE  x \in Findable(t)
    OBVIOUS
  <2>1. PICK k \in DOMAIN ChunksOf[f] : h = ChunksOf[f][k].holds
    OBVIOUS
  <2> QED
    BY <1>4, <2>1
<1> QED
  BY <1>1, <1>5 DEF CutsKeepAll

\* A job that reports success has every character of its cleaned text in the collection,
\* under its own vector, but for pieces below min_chunk_size: for any batches, retries,
\* failures and other threads, where the text's own cutting loses none (_ingest_file).
THEOREM WholeStored ==
  ASSUME SplitsToSequences, CutsKeepAll
  PROVE  Spec => []Whole
<1>1. Init => KInv /\ DInv
  BY KInit, DInit
<1>2. KInv /\ DInv /\ [Next]_vars => (KInv /\ DInv)'
  BY KNext, DNext
<1>3. KInv /\ DInv => Whole
  BY DDelivers, DeliversWhole
<1> QED
  BY <1>1, <1>2, <1>3, PTL DEF Spec
=============================================================================
