----------------------------- MODULE Retrieval -----------------------------
(***************************************************************************)
(* From a question to the context the language model sees: the searches of *)
(* HybridRetriever for each sub-query with the merge of neighbouring        *)
(* chunks, their union in RAGPipeline, the grading and correction of        *)
(* CragAgent with its web and code searches, and the reranker.              *)
(*                                                                         *)
(* A chunk of the index is known by its document and its index in it, and   *)
(* by the length of its text; a text that was merged is the sequence of the *)
(* indices it joins.  A definition marked "Variant" is a wrong version of   *)
(* the one after it, which the runs must notice in its place.               *)
(***************************************************************************)
EXTENDS Integers, Sequences, FiniteSets

CONSTANTS
  Points,          \* the chunks in the collection: their doc and idx
  TextLength,      \* characters of the text of a point
  Own, Matching,   \* the user's points, and those that the request's filters match
  Keyword,         \* those that share a term with the question; none for retrieval_mode "vector"
  Pages, Snippets, \* what a web search and a code search may find
  NoHead,          \* none of these
  MaxExtra,        \* bound on the pages or snippets that one search finds
  TopDense, TopSparse, \* top_k_dense, top_k_sparse
  SubQueries,      \* bound on the sub-queries of a question (five in the code)
  TopK,            \* request.top_k
  MaxText,         \* the 5000 of _process_and_merge_chunks
  MaxRetries,      \* CragSettings.max_correction_retries
  Crag,            \* features.enable_crag and CragSettings.enabled
  WebFallback, CodeFallback  \* CragSettings

ASSUME RetrievalAssumption ==
  /\ \A p \in Points : p.idx \in Nat
  /\ \A p, q \in Points : p.doc = q.doc /\ p.idx = q.idx => p = q
  /\ TextLength \in [Points -> Nat]
  /\ Own \subseteq Points /\ Matching \subseteq Points /\ Keyword \subseteq Points
  /\ Points \cap (Pages \cup Snippets) = {} /\ NoHead \notin Points
  /\ TopDense \in Nat \ {0} /\ TopSparse \in Nat \ {0}
  /\ MaxExtra \in Nat /\ SubQueries \in Nat \ {0}
  /\ TopK \in Nat \ {0}
  /\ MaxText \in Nat /\ MaxRetries \in Nat
  /\ {Crag, WebFallback, CodeFallback} \subseteq BOOLEAN

External == Pages \cup Snippets

\* A RetrievedChunk: the point or page it is named after, and for a point the
\* indices whose texts it joins and their length.
Chunk == [head : Points \cup External, parts : Seq(Nat), size : Nat]
NoChunk == [head |-> NoHead, parts |-> <<>>, size |-> 0]
Alone(p) == [head |-> p, parts |-> <<p.idx>>, size |-> TextLength[p]]
Outside(x) == [head |-> x, parts |-> <<>>, size |-> 0]

VARIABLES
  pc,
  force,      \* request.force_web_search
  left,       \* sub-queries to go
  found,      \* the points a search returned, best first, without duplicates
  i, j,       \* the loops of the merge
  skip,       \* the points that another one absorbed
  current,    \* the chunk under way
  merged,     \* merged_results
  chunks,     \* all_chunks, and what the correction and the reranker make of them
  attempt,    \* corrections so far
  kept,       \* of the chunks graded so far, those graded GOOD
  allHigh,    \* their scores are all at least relevance_threshold_good
  anyLow      \* a score is below relevance_threshold_bad

merging == <<found, j, skip, current, merged>>
grading == <<attempt, kept, allHigh, anyLow>>
vars == <<pc, force, left, i, merging, chunks, grading>>

\* QueryDecomposer.decompose: a question that is not compound, or that the model
\* could not split, is its own sub-query; of the others the first five are taken.
Decomposed == 1 .. SubQueries

Init ==
  /\ pc = "search" /\ force \in BOOLEAN /\ left \in Decomposed
  /\ found = <<>> /\ i = 1 /\ j = 1 /\ skip = {} /\ current = NoChunk /\ merged = <<>>
  /\ chunks = <<>> /\ attempt = 0
  /\ kept = <<>> /\ allHigh = TRUE /\ anyLow = FALSE

-----------------------------------------------------------------------------
(* HybridRetriever.retrieve *)

\* The filter on the user and the request's filters, both.
Visible == Own \cap Matching

\* The best of these points, all of them if they are few.
TopOf(K) == {S \in SUBSET K : /\ Cardinality(S) <= TopSparse
                              /\ S = K \/ Cardinality(S) = TopSparse}

\* The vector leg: nearest points, however many the index returns.
Dense == {D \in SUBSET Visible : Cardinality(D) <= TopDense}

\* Variant: "Optional metadata filters applied to the dense leg only" (retrieve).
SparseUnfiltered == TopOf(Keyword \cap Own)

\* The keyword leg: the best of those that share a term and pass the same filter.
Sparse == TopOf(Keyword \cap Visible)

\* Points without duplicates, best first.
Rankings ==
  UNION {{s \in [1 .. n -> Points] : \A k, l \in 1 .. n : s[k] = s[l] => k = l} :
         n \in 0 .. TopDense + TopSparse}

\* What both legs return, fused in any order; none when the embedding or the search
\* failed.
Answers ==
  {s \in Rankings : \/ s = <<>>
                    \/ \E D \in Dense, S \in Sparse : {s[k] : k \in DOMAIN s} = D \cup S}

Search ==
  /\ pc = "search" /\ left > 0
  /\ found' \in Answers
  /\ left' = left - 1
  /\ i' = 1 /\ skip' = {} /\ merged' = <<>>
  /\ pc' = "merge"
  /\ UNCHANGED <<force, j, current, chunks, grading>>

\* The next point: passed over if it was absorbed, else it heads a chunk.
TakeNext ==
  /\ pc = "merge" /\ i <= Len(found)
  /\ IF found[i] \in skip
     THEN /\ i' = i + 1
          /\ UNCHANGED <<pc, j, current>>
     ELSE /\ current' = Alone(found[i])
          /\ j' = i + 1 /\ pc' = "ahead"
          /\ UNCHANGED i
  /\ UNCHANGED <<force, left, found, skip, merged, chunks, grading>>

\* Variants: the head's own text is measured; a chunk two away is adjacent; one
\* that was absorbed is taken again.
FitsHead(p) == TextLength[current.head] + TextLength[p] < MaxText
AdjacentWide(p, q) == p.doc = q.doc /\ p.idx - q.idx \in {-2, -1, 1, 2}
AbsorbableAgain(p) ==
  /\ p.doc = current.head.doc /\ current.head.idx - p.idx \in {-1, 1}
  /\ current.size + TextLength[p] < MaxText

Fits(p) == current.size + TextLength[p] < MaxText
Adjacent(p, q) == p.doc = q.doc /\ p.idx - q.idx \in {-1, 1}
Absorbable(p) == p \notin skip /\ Adjacent(current.head, p) /\ Fits(p)

\* The texts joined, in the order of the document; the joint is "\n\n".
Joined(p) ==
  [current EXCEPT
     !.parts = IF current.head.idx < p.idx THEN Append(@, p.idx) ELSE <<p.idx>> \o @,
     !.size = @ + TextLength[p] + 2]

\* The look ahead for neighbours: they are compared with the head's index, which
\* stays what it was.
Ahead ==
  /\ pc = "ahead" /\ j <= Len(found)
  /\ j' = j + 1
  /\ IF Absorbable(found[j])
     THEN current' = Joined(found[j]) /\ skip' = skip \cup {found[j]}
     ELSE UNCHANGED <<current, skip>>
  /\ UNCHANGED <<pc, force, left, found, i, merged, chunks, grading>>

Emit ==
  /\ pc = "ahead" /\ j > Len(found)
  /\ merged' = Append(merged, current)
  /\ i' = i + 1 /\ pc' = "merge"
  /\ UNCHANGED <<force, left, found, j, skip, current, chunks, grading>>

Merged ==
  /\ pc = "merge" /\ i > Len(found)
  /\ pc' = "collect" /\ i' = 1
  /\ UNCHANGED <<force, left, merging, chunks, grading>>

-----------------------------------------------------------------------------
(* RAGPipeline: the union of the sub-queries' chunks *)

\* Variant: chunks are the same when they have the same texts.
KnownText(c) == \E k \in DOMAIN chunks : chunks[k] = c

\* Of the chunks with one id the first is taken.
Known(c) == \E k \in DOMAIN chunks : chunks[k].head = c.head

\* results[:final_k] of one sub-query, one by one.
Collect ==
  /\ pc = "collect" /\ i <= Len(merged) /\ i <= TopK
  /\ chunks' = IF Known(merged[i]) THEN chunks ELSE Append(chunks, merged[i])
  /\ i' = i + 1
  /\ UNCHANGED <<pc, force, left, merging, grading>>

Collected ==
  /\ pc = "collect" /\ (i > Len(merged) \/ i > TopK)
  /\ pc' = IF left > 0 THEN "search" ELSE IF Crag THEN "grade" ELSE "rank"
  /\ found' = <<>> /\ j' = 1 /\ skip' = {} /\ current' = NoChunk /\ merged' = <<>>
  /\ i' = 1
  /\ UNCHANGED <<force, left, chunks, grading>>

-----------------------------------------------------------------------------
(* CragAgent.correct *)

\* DocumentGrader asks the language model about one chunk: GOOD or not, and a
\* score, which need not agree.  A failure is graded BAD with 0.0.
Grade ==
  /\ pc = "grade" /\ i <= Len(chunks)
  /\ kept' \in {kept, Append(kept, chunks[i])}
  /\ \/ UNCHANGED <<allHigh, anyLow>>                       \* good threshold or more
     \/ allHigh' = FALSE /\ UNCHANGED anyLow                \* in between
     \/ allHigh' = FALSE /\ anyLow' = TRUE                  \* below the bad one
  /\ i' = i + 1
  /\ UNCHANGED <<pc, force, left, merging, chunks, attempt>>

\* _assess_grades: nothing to grade is neither all good nor in need.
AllGood == chunks # <<>> /\ allHigh
NeedsCorrection == chunks # <<>> /\ anyLow

\* Variant: what was graded GOOD, or nothing.
BestOnly == kept

Last == (~NeedsCorrection /\ ~force) \/ attempt >= MaxRetries
\* "don't discard partial results"
Best == IF kept # <<>> THEN kept ELSE chunks

Ungraded == kept' = <<>> /\ allHigh' = TRUE /\ anyLow' = FALSE
ToRank == pc' = "rank" /\ attempt' = 0 /\ i' = 1 /\ Ungraded

Assess ==
  /\ pc = "grade" /\ i > Len(chunks)
  /\ \/ AllGood /\ ~force /\ UNCHANGED chunks /\ ToRank
     \/ ~(AllGood /\ ~force) /\ Last /\ chunks' = Best /\ ToRank
     \/ ~(AllGood /\ ~force) /\ ~Last /\ pc' = "fetch" /\ UNCHANGED <<i, chunks, grading>>
  /\ UNCHANGED <<force, left, merging>>

SeqsOf(S) == UNION {[1 .. n -> S] : n \in 0 .. MaxExtra}
FromWeb == IF WebFallback \/ force THEN SeqsOf(Pages) ELSE {<<>>}
FromCode == IF CodeFallback THEN SeqsOf(Snippets) ELSE {<<>>}

\* _fetch_extra_context: the pages that could be read, in the order their
\* downloads end; if there are none, snippets of code.  An error finds nothing.
Extras == (FromWeb \ {<<>>}) \cup FromCode

\* Variant: the corrections are not counted.
Uncounted == UNCHANGED attempt

Counted == attempt' = attempt + 1

Fetch ==
  /\ pc = "fetch"
  /\ \E extra \in Extras :
       IF extra = <<>>
       THEN pc' = "rank" /\ attempt' = 0 /\ UNCHANGED chunks
       ELSE /\ chunks' = kept \o [k \in DOMAIN extra |-> Outside(extra[k])]
            /\ Counted /\ pc' = "grade"
  /\ i' = 1 /\ Ungraded
  /\ UNCHANGED <<force, left, merging>>

-----------------------------------------------------------------------------
(* Reranker.rerank, and _build_context, which numbers what it is given *)

Smaller(a, b) == IF a < b THEN a ELSE b
Picks == LET n == Smaller(TopK, Len(chunks))
         IN {f \in [1 .. n -> DOMAIN chunks] : \A k, l \in 1 .. n : f[k] = f[l] => k = l}

\* The best TopK by the cross-encoder's scores, whatever they are; without the
\* model the first TopK, which is one of these.
Rank ==
  /\ pc = "rank"
  /\ \E f \in Picks : chunks' = [k \in DOMAIN f |-> chunks[f[k]]]
  /\ pc' = "done"
  /\ UNCHANGED <<force, left, i, merging, grading>>

Next ==
  \/ Search \/ TakeNext \/ Ahead \/ Emit \/ Merged \/ Collect \/ Collected
  \/ Grade \/ Assess \/ Fetch \/ Rank

Spec == Init /\ [][Next]_vars

\* One thread runs the pipeline of a question to its end.
FairSpec == Spec /\ WF_vars(Next)

-----------------------------------------------------------------------------
(* Correctness *)

TypeOK ==
  /\ pc \in {"search", "merge", "ahead", "collect", "grade", "fetch", "rank", "done"}
  /\ force \in BOOLEAN /\ left \in 0 .. SubQueries /\ attempt \in 0 .. MaxRetries
  /\ found \in Seq(Visible) /\ skip \subseteq Visible
  /\ i \in Nat \ {0} /\ j \in Nat \ {0}
  /\ current \in Chunk \cup {NoChunk} /\ merged \in Seq(Chunk)
  /\ chunks \in Seq(Chunk) /\ kept \in Seq(Chunk)
  /\ allHigh \in BOOLEAN /\ anyLow \in BOOLEAN

\* The text of c holds that of the point p.
Holds(c, p) ==
  c.head \in Points /\ p.doc = c.head.doc /\ \E k \in DOMAIN c.parts : c.parts[k] = p.idx

\* A merged text reads as the document does: one run of consecutive chunks, in
\* order, the chunk it is named after among them (_process_and_merge_chunks).
Consecutive ==
  \A n \in DOMAIN merged :
    /\ Holds(merged[n], merged[n].head)
    /\ \A k \in DOMAIN merged[n].parts :
         k > 1 => merged[n].parts[k] = merged[n].parts[k - 1] + 1

\* "Merge adjacent chunks safely": a text that was joined stays below the limit,
\* but for the blank line of the last joint.
Fitting ==
  \A n \in DOMAIN merged : Len(merged[n].parts) > 1 => merged[n].size < MaxText + 2

\* The merge loses no point that was found and gives none to two chunks.
Partition ==
  pc = "collect" =>
    \A k \in DOMAIN found :
      \E n \in DOMAIN merged : \A m \in DOMAIN merged : Holds(merged[m], found[k]) <=> m = n

\* What the model will see belongs to the user and passes the filters of both legs,
\* whatever was merged and corrected, or comes from a search that was allowed.
ContextSound ==
  \A k \in DOMAIN chunks :
    LET c == chunks[k]
    IN \/ c.head \in Pages /\ Crag /\ (WebFallback \/ force)
       \/ c.head \in Snippets /\ Crag /\ CodeFallback
       \/ c.head \in Points /\ \A p \in Points : Holds(c, p) => p \in Own /\ p \in Matching

\* No chunk of the index is cited twice, however many sub-queries found it and
\* however it came through the corrections.
CitedOnce ==
  \A k, l \in DOMAIN chunks :
    chunks[k].head = chunks[l].head /\ chunks[k].head \in Points => k = l

\* What was retrieved is never lost entirely: once there is a chunk, the
\* correction and the reranker leave one ("don't discard partial results").
NeverEmptied == [][chunks # <<>> => chunks' # <<>>]_vars

\* The correction ends, whatever the grades and the searches say.
Terminates == <>(pc = "done")
=============================================================================
