----------------------------- MODULE Extraction -----------------------------
(***************************************************************************)
(* From a file to the text that is chunked: the extractors, the             *)
(* preprocessor's cleaning and the deduplicator.                            *)
(*                                                                         *)
(* A text is a sequence of words, each with the separator that follows it.  *)
(* A file holds the texts its format is made of, which the libraries that   *)
(* read it are taken to return: "parts" are the text, the rows, the records, *)
(* the pages' text layers, the paragraphs or the content tags; "other" the   *)
(* pages' OCR, trafilatura's article and all the visible text, or the tables; *)
(* "margins" the headers and footers.  A part that cannot be read is Unread. *)
(***************************************************************************)
EXTENDS Integers, Sequences, SequencesExt

CONSTANTS
  Chars,       \* the characters of each word
  Rule,        \* the line of dashes under the header of a table
  MinPage,     \* _MIN_CHARS_PER_PAGE
  MinArticle,  \* the least that is taken from trafilatura
  MinLine,     \* min_line_length_for_repeat_check
  Near         \* pairs of different texts whose fingerprints are close

ASSUME ExtractionAssumption ==
  /\ \A w \in DOMAIN Chars : Chars[w] \in Nat \ {0}
  /\ Rule \in DOMAIN Chars
  /\ MinPage \in Nat /\ MinArticle \in Nat /\ MinLine \in Nat

\* The separators of a text, the coarsest first, and their characters.
Para == 1      \* "\n\n"
NewLine == 2   \* "\n"
Sentence == 3  \* ". "
Space == 4     \* " "
None == 5      \* the end of the text
Separators == Para .. None
SepChars == <<2, 1, 2, 1, 0>>

NoText == <<>>
Unread == <<[word |-> 0, sep |-> None]>>  \* the word 0 is in no text

\* The positions in s, in order, of a text.
InOrder(t, s) == SelectSeq([i \in DOMAIN t |-> i], LAMBDA i : i \in s)

Length(t) ==
  SumFunctionOnSet([i \in DOMAIN t |-> Chars[t[i].word]], DOMAIN t)
  + SumFunctionOnSet([i \in DOMAIN t |-> SepChars[t[i].sep]], 1 .. Len(t) - 1)

Ending(t, sep) == IF t = NoText THEN t ELSE [t EXCEPT ![Len(t)].sep = sep]

\* sep.join(texts), of those that are not blank.
Join(texts, sep) ==
  LET filled == SelectSeq(texts, LAMBDA t : t # NoText)
  IN Ending(FlattenSeq([k \in DOMAIN filled |-> Ending(filled[k], sep)]), None)

-----------------------------------------------------------------------------
(* The extractors: a text, or an ExtractionError. *)

Failed == [ok |-> FALSE, text |-> NoText]
Read(t) == [ok |-> TRUE, text |-> t]
Found(t) == IF t = NoText THEN Failed ELSE Read(t)

\* latin-1 decodes every byte, so the last resort is never reached.
ReadText(f) == Read(f.parts[1])

RuleLine == <<[word |-> Rule, sep |-> NewLine]>>
ReadDelimited(f) ==
  LET rows == SelectSeq(f.parts, LAMBDA t : t # NoText)
  IN IF rows = <<>> THEN Read(NoText)
     ELSE Read(Join(<<Head(rows), RuleLine>> \o Tail(rows), NewLine))

\* A malformed line is left out; a malformed file is an error.
ReadJson(f) ==
  LET records == SelectSeq(f.parts, LAMBDA t : t # Unread)
  IN IF records = <<>> THEN Failed ELSE Read(Join(records, Para))

\* A page with little text is replaced by what OCR sees, be it nothing; where OCR
\* raises, or is not installed, the page stays.
PdfPage(layer, ocr) == IF Length(layer) < MinPage /\ ocr # Unread THEN ocr ELSE layer
PdfText(f) ==
  Found(Join([k \in DOMAIN f.parts |-> PdfPage(f.parts[k], f.other[k])], Para))

\* The article, or the text of every content tag, or else all that is visible.
HtmlText(f) ==
  LET article == f.other[1] IN
  Found(IF Length(article) > MinArticle THEN article
        ELSE IF \E k \in DOMAIN f.parts : f.parts[k] # NoText THEN Join(f.parts, Para)
        ELSE f.other[2])

\* The tables come after all the paragraphs, and of the headers and footers only
\* the first is kept.
DocxText(f) ==
  LET margins == SelectSeq(f.margins, LAMBDA t : t # NoText)
  IN Found(Join(SubSeq(margins, 1, Min({1, Len(margins)})) \o f.parts \o f.other, Para))

ImageText(f) == IF f.parts[1] = Unread THEN Failed ELSE Found(f.parts[1])

\* The extractor of the file's extension; the file is there, regular, and neither
\* empty nor larger than the limit.
Supported == {"txt", "md", "csv", "json", "pdf", "html", "docx", "image"}
Extract(f) ==
  CASE ~f.valid -> Failed
    [] f.kind \in {"txt", "md"} -> ReadText(f)
    [] f.kind = "csv" -> ReadDelimited(f)
    [] f.kind = "json" -> ReadJson(f)
    [] f.kind = "pdf" -> PdfText(f)
    [] f.kind = "html" -> HtmlText(f)
    [] f.kind = "docx" -> DocxText(f)
    [] f.kind = "image" -> ImageText(f)

-----------------------------------------------------------------------------
(* Preprocessor.process: lines that are repeated go, all their copies. *)

LineEnds(t) == {i \in DOMAIN t : t[i].sep <= NewLine} \cup {Len(t)}
LineStart(t, i) == Max({0} \cup {e \in LineEnds(t) : e < i}) + 1
LineEnd(t, i) == Min({e \in LineEnds(t) : e >= i})

\* The line of word i, stripped.
Line(t, i) == Ending(SubSeq(t, LineStart(t, i), LineEnd(t, i)), None)

Eligible(t) == {e \in LineEnds(t) \ {0} : Length(Line(t, e)) >= MinLine}
RepeatLimit(t) == Max({2, (Cardinality(Eligible(t)) * 5) \div 100})
Boilerplate(t, i) ==
  Cardinality({e \in Eligible(t) : Line(t, e) = Line(t, i)}) >= RepeatLimit(t)

\* Between two lines that stay, the widest separator of those that were there: three
\* or more line ends are collapsed to two.
Clean(t) ==
  LET kept == {i \in DOMAIN t : ~Boilerplate(t, i)}
      after(i) == {k \in kept : k > i}
      until(i) == IF after(i) = {} THEN Len(t) ELSE Min(after(i)) - 1
      sep(i) == Min({t[m].sep : m \in i .. until(i)})
      order == InOrder(t, kept)
  IN Ending([k \in DOMAIN order |->
               [word |-> t[order[k]].word,
                sep |-> IF t[order[k]].sep <= NewLine THEN sep(order[k])
                        ELSE t[order[k]].sep]], None)

-----------------------------------------------------------------------------
(* Deduplicator.deduplicate: of texts that are equal or close the first stays. *)

Deduplicate(texts) ==
  FoldLeft(LAMBDA kept, t :
             IF \E k \in DOMAIN kept : kept[k] = t \/ <<kept[k], t>> \in Near
             THEN kept ELSE Append(kept, t),
           <<>>, texts)
=============================================================================
