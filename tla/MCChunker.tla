------------------------------ MODULE MCChunker ------------------------------
(* A small instance of Chunker for TLC: every text of up to N segments of 1 to *)
(* MaxSeg tokens.                                                            *)
EXTENDS Chunker, Functions

CONSTANT N  \* bound on the number of segments

TextOf(m, size) ==
  [n |-> m,
   before |-> [k \in 0 .. m |-> SumFunctionOnSet(size, 1 .. k)]]

MCTexts ==
  UNION {{TextOf(m, size) : size \in [1 .. m -> 1 .. MaxSeg]} : m \in 0 .. N}
=============================================================================
