---------------------------- MODULE MCRetrieval ----------------------------
(* A small instance of Retrieval for TLC: a document of four chunks, a chunk *)
(* of another, one that a filter hides and one of another user.              *)
EXTENDS Retrieval

CONSTANTS d1, d2, d3, w1, c1

Point(d, n) == [doc |-> d, idx |-> n]

MCPoints == {Point(d1, n) : n \in 0 .. 3} \cup {Point(d2, 1), Point(d2, 3), Point(d3, 1)}
MCOwn == MCPoints \ {Point(d3, 1)}
MCMatching == MCPoints \ {Point(d2, 3)}
\* The filter hides the one chunk that has a term of the question.
MCKeyword == {Point(d2, 3)}
MCPages == {w1}
MCSnippets == {c1}

\* The first three chunks fit together, the last with only one of them.
MCTextLength == [p \in MCPoints |-> IF p.idx = 3 THEN 2 ELSE 1]
=============================================================================
