------------------------------ MODULE Chunker ------------------------------
(***************************************************************************)
(* BaseChunker._merge_with_overlap, the loop that turns the segments of a   *)
(* text into overlapping chunks, and the hard split of RecursiveChunker.    *)
(*                                                                         *)
(* A segment is known by its index and its number of tokens; the parts of   *)
(* the chunk under way are always consecutive segments, first .. next - 1.  *)
(* The separators that are lost and the spaces that join the parts are not  *)
(* counted by the code either.                                              *)
(* A definition marked "Variant" is a wrong version of the one after it,    *)
(* which the runs must notice in its place.                                 *)
(***************************************************************************)
EXTENDS Integers, Sequences

CONSTANTS
  Texts,      \* the texts: their number of segments, and the tokens before each
  MaxSeg,     \* the tokens of the longest segment
  ChunkSize,  \* chunk_size
  Overlap     \* chunk_overlap

\* __init__ and ChunkingSettings raise when the overlap is not smaller.
ASSUME ChunkerAssumption ==
  /\ MaxSeg \in Nat \ {0}
  /\ ChunkSize \in Nat /\ Overlap \in Nat /\ Overlap < ChunkSize

\* A segment has a token at least (_approx_token_count).
ASSUME TextsAssumption ==
  \A t \in Texts :
    /\ t.n \in Nat
    /\ t.before \in [0 .. t.n -> Nat] /\ t.before[0] = 0
    /\ \A k \in 1 .. t.n : t.before[k] - t.before[k - 1] \in 1 .. MaxSeg

VARIABLES
  n,       \* number of segments
  before,  \* tokens of the segments up to each one
  first,   \* the first segment of the chunk under way
  next,    \* the segment to be added
  chunks,  \* the chunks so far
  pc

mergeVars == <<n, before, first, next, chunks, pc>>

Chunk == [from : 1 .. n, to : 1 .. n]
\* Tokens of the segments i .. j.
Tokens(i, j) == before[j] - before[i - 1]
Seg(k) == Tokens(k, k)
Size == Tokens(first, next - 1)
Current == [from |-> first, to |-> next - 1]

MergeInit ==
  /\ \E t \in Texts : n = t.n /\ before = t.before
  /\ first = 1 /\ next = 1 /\ chunks = <<>> /\ pc = "segment"

\* Variant: the segment is added before anyone asks.
OverflowsLate == first < next /\ Size > ChunkSize

Overflows == first < next /\ Size + Seg(next) > ChunkSize

\* The chunk under way would overflow: it ends here.
Emit ==
  /\ pc = "segment" /\ next <= n /\ Overflows
  /\ chunks' = Append(chunks, Current)
  /\ pc' = "drop"
  /\ UNCHANGED <<n, before, first, next>>

\* Variant: the part that crosses the overlap is kept.
ExcessBeyond == first < next /\ Size - Seg(first) > Overlap

\* More than the overlap is left of the chunk that ended.
Excess == first < next /\ Size > Overlap

\* Variant: the part is read and stays.
DropNone ==
  /\ pc = "drop" /\ Excess
  /\ UNCHANGED <<n, before, first, next, chunks, pc>>

DropPart ==
  /\ pc = "drop" /\ Excess
  /\ first' = first + 1
  /\ UNCHANGED <<n, before, next, chunks, pc>>

Take ==
  /\ next <= n
  /\ \/ pc = "segment" /\ ~Overflows
     \/ pc = "drop" /\ ~Excess
  /\ next' = next + 1 /\ pc' = "segment"
  /\ UNCHANGED <<n, before, first, chunks>>

\* Variant: what is left at the end is forgotten.
Stop ==
  /\ pc = "segment" /\ next = n + 1
  /\ pc' = "done"
  /\ UNCHANGED <<n, before, first, next, chunks>>

Finish ==
  /\ pc = "segment" /\ next = n + 1
  /\ chunks' = IF first < next THEN Append(chunks, Current) ELSE chunks
  /\ pc' = "done"
  /\ UNCHANGED <<n, before, first, next>>

MergeNext == Emit \/ DropPart \/ Take \/ Finish

MergeSpec == MergeInit /\ [][MergeNext]_mergeVars
FairMergeSpec == MergeSpec /\ WF_mergeVars(MergeNext)

-----------------------------------------------------------------------------
(* RecursiveChunker._recursive_split: the last resort, by characters. *)

WindowSize == ChunkSize * 4
Stride == WindowSize - Overlap * 4
\* The characters of the window with index k of a text; it starts in the text.
Slice(k) == k * Stride .. k * Stride + WindowSize - 1

-----------------------------------------------------------------------------
(* Correctness *)

MergeTypeOK ==
  /\ n \in Nat /\ before \in [0 .. n -> Nat] /\ before[0] = 0
  /\ \A k \in 1 .. n : before[k] - before[k - 1] \in 1 .. MaxSeg
  /\ next \in 1 .. n + 1 /\ first \in 1 .. next
  /\ chunks \in Seq(Chunk) /\ pc \in {"segment", "drop", "done"}

Limit == IF Overlap + MaxSeg > ChunkSize THEN Overlap + MaxSeg ELSE ChunkSize

\* No chunk is larger than chunk_size, except by what the overlap adds to a
\* single segment: the docstring of _merge_with_overlap says "up to chunk_size".
Bounded == \A i \in DOMAIN chunks : Tokens(chunks[i].from, chunks[i].to) <= Limit

\* No segment is lost between two chunks, however it falls on a boundary.
Covered ==
  pc = "done" =>
    \A k \in 1 .. n : \E i \in DOMAIN chunks : k \in chunks[i].from .. chunks[i].to

\* Every chunk goes further than the one before it and repeats at most
\* chunk_overlap tokens of it.
Slides ==
  \A i \in DOMAIN chunks : i > 1 =>
    /\ chunks[i - 1].to < chunks[i].to
    /\ chunks[i - 1].from <= chunks[i].from /\ chunks[i].from <= chunks[i - 1].to + 1
    /\ Tokens(chunks[i].from, chunks[i - 1].to) <= Overlap

\* Every text is split in the end.
Terminates == <>(pc = "done")
=============================================================================
