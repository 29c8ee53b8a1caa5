------------------------------ MODULE Splitter ------------------------------
(***************************************************************************)
(* Chunker.chunk_document: a text cut into chunks by one of the four         *)
(* strategies.                                                             *)
(*                                                                         *)
(* A piece of the text is known by its length and by the characters of the  *)
(* words it holds, each named by the position of its word.  Separators at   *)
(* the edges of a piece are not counted.                                    *)
(* A definition marked "Variant" is a wrong version of the one after it,    *)
(* which the runs must notice in its place.                                 *)
(***************************************************************************)
EXTENDS Extraction

CONSTANTS
  ChunkSize,  \* chunk_size
  Overlap,    \* chunk_overlap
  MinChunk,   \* min_chunk_size, in characters
  Headings    \* words that make a line a Markdown heading

ASSUME SplitterAssumption ==
  /\ ChunkSize \in Nat /\ Overlap \in Nat /\ Overlap < ChunkSize
  /\ MinChunk \in Nat
  /\ Headings \subseteq DOMAIN Chars

\* _approx_token_count
TokensIn(chars) == Max({1, chars \div 4})
Tokens(piece) == TokensIn(piece.length)
AllTokens(pieces) == SumFunctionOnSet([k \in DOMAIN pieces |-> Tokens(pieces[k])], DOMAIN pieces)
TooLarge(piece) == Tokens(piece) > ChunkSize

WordChars(t, i) == 0 .. Chars[t[i].word] - 1
Piece(t, a, b) ==
  [length |-> Length(SubSeq(t, a, b)),
   holds |-> UNION {{<<i, c>> : c \in WordChars(t, i)} : i \in a .. b}]

\* " ".join(pieces)
Joined(pieces) ==
  [length |-> SumFunctionOnSet([k \in DOMAIN pieces |-> pieces[k].length], DOMAIN pieces)
              + Len(pieces) - 1,
   holds |-> UNION {pieces[k].holds : k \in DOMAIN pieces}]

\* The words of t from a on, in runs that end at the given positions.
Runs(t, a, ends) ==
  LET e == InOrder(t, ends)
  IN [k \in DOMAIN e |-> [from |-> IF k = 1 THEN a ELSE e[k - 1] + 1, to |-> e[k]]]

-----------------------------------------------------------------------------
(* _merge_with_overlap, whose loop is the module Chunker. *)

\* What is left when parts are dropped from the front until they fit the overlap.
KeptOverlap(parts) ==
  LET from == Min({k \in 1 .. Len(parts) + 1 :
                     AllTokens(SubSeq(parts, k, Len(parts))) <= Overlap})
  IN SubSeq(parts, from, Len(parts))

AddSegment(acc, segment) ==
  IF AllTokens(acc.parts) + Tokens(segment) > ChunkSize /\ acc.parts # <<>>
  THEN [done |-> Append(acc.done, Joined(acc.parts)),
        parts |-> Append(KeptOverlap(acc.parts), segment)]
  ELSE [acc EXCEPT !.parts = Append(acc.parts, segment)]

Merge(segments) ==
  LET all == FoldLeft(AddSegment, [done |-> <<>>, parts |-> <<>>], segments)
  IN IF all.parts = <<>> THEN all.done ELSE Append(all.done, Joined(all.parts))

-----------------------------------------------------------------------------
(* RecursiveChunker *)

\* The hard split of a word: windows of Step characters, a Stride apart.
Step == ChunkSize * 4
Stride == Step - Overlap * 4
Windows(t, i) ==
  LET windows == {k \in WordChars(t, i) : k * Stride \in WordChars(t, i)}
      held(k) == WordChars(t, i) \cap (k * Stride .. k * Stride + Step - 1)
  IN [k \in 1 .. Cardinality(windows) |->
        [length |-> Cardinality(held(k - 1)), holds |-> {<<i, c>> : c \in held(k - 1)}]]

\* Variant: a part that fits is thought to have been added by the recursion.
RecursiveLossy(t, a, b) ==
  LET split[sep \in Separators, x \in a .. b, y \in a .. b] ==
        LET whole == Piece(t, x, y)
            parts == Runs(t, x, {i \in x .. y : i = y \/ t[i].sep = sep})
            segments(r) == IF TooLarge(Piece(t, r.from, r.to)) THEN split[sep + 1, r.from, r.to]
                           ELSE <<>>
        IN IF ~TooLarge(whole) THEN <<whole>>
           ELSE IF sep = None THEN Windows(t, x)
           ELSE Merge(FlattenSeq([k \in DOMAIN parts |-> segments(parts[k])]))
  IN split[Para, a, b]

\* Each separator in turn, for the parts that are still too large.
Recursive(t, a, b) ==
  LET split[sep \in Separators, x \in a .. b, y \in a .. b] ==
        LET whole == Piece(t, x, y)
            parts == Runs(t, x, {i \in x .. y : i = y \/ t[i].sep = sep})
            segments(r) == IF TooLarge(Piece(t, r.from, r.to)) THEN split[sep + 1, r.from, r.to]
                           ELSE <<Piece(t, r.from, r.to)>>
        IN IF ~TooLarge(whole) THEN <<whole>>
           ELSE IF sep = None THEN Windows(t, x)
           ELSE Merge(FlattenSeq([k \in DOMAIN parts |-> segments(parts[k])]))
  IN split[Para, a, b]

\* Sections that fit stay whole.
SplitLarge(t, runs) ==
  FlattenSeq([k \in DOMAIN runs |->
                LET section == Piece(t, runs[k].from, runs[k].to)
                IN IF TooLarge(section) THEN Recursive(t, runs[k].from, runs[k].to)
                   ELSE <<section>>])

-----------------------------------------------------------------------------
(* MarkdownChunker, ASTChunker, SemanticChunker *)

HeadingAt(t) ==
  {i \in DOMAIN t : t[i].word \in Headings /\ (i = 1 \/ t[i - 1].sep <= NewLine)}
Markdown(t) ==
  IF HeadingAt(t) = {} THEN Recursive(t, 1, Len(t))
  ELSE SplitLarge(t, Runs(t, 1, {h - 1 : h \in HeadingAt(t) \ {1}} \cup {Len(t)}))

\* nodes: the top-level functions and classes, none if the text does not parse.
Ast(t, nodes) ==
  IF nodes = {} THEN Recursive(t, 1, Len(t))
  ELSE SplitLarge(t, Runs(t, 1, (({d.from - 1 : d \in nodes} \cup {d.to : d \in nodes}) \ {0})
                             \cup {Len(t)}))

KeptSentences == Max({1, Overlap \div 50})

\* alike: the sentences that are similar enough to the one before them.
Semantic(t, alike) ==
  LET runs == Runs(t, 1, {i \in DOMAIN t : i = Len(t) \/ t[i].sep = Sentence})
      sentences == [k \in DOMAIN runs |-> Piece(t, runs[k].from, runs[k].to)]
      add(acc, k) ==
        IF k \notin alike \/ Tokens(Joined(acc.now)) >= ChunkSize
        THEN [done |-> Append(acc.done, Joined(acc.now)),
              now |-> Append(SubSeq(acc.now, Max({1, Len(acc.now) - KeptSentences + 1}),
                                    Len(acc.now)), sentences[k])]
        ELSE [acc EXCEPT !.now = Append(acc.now, sentences[k])]
      all == FoldLeft(add, [done |-> <<>>, now |-> <<sentences[1]>>],
                      [k \in 1 .. Len(runs) - 1 |-> k + 1])
  IN IF Len(runs) <= 1 THEN sentences ELSE Append(all.done, Joined(all.now))

-----------------------------------------------------------------------------
(* Chunker.chunk_document *)

\* f.strategy: ChunkingSettings.strategy where the file is ingested.
ResolveStrategy(f) == IF f.kind = "md" THEN "markdown" ELSE f.strategy

Split(t, f) ==
  CASE t = NoText -> <<>>
    [] ResolveStrategy(f) = "recursive" -> Recursive(t, 1, Len(t))
    [] ResolveStrategy(f) = "markdown" -> Markdown(t)
    [] ResolveStrategy(f) = "ast" -> Ast(t, f.nodes)
    [] ResolveStrategy(f) = "semantic" -> Semantic(t, f.alike)

LongEnough(piece) == piece.length >= MinChunk
=============================================================================
