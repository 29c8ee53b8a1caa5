-------------------------- MODULE RetrievalProofs --------------------------
(***************************************************************************)
(* The merge of neighbouring chunks and what becomes of them, for any       *)
(* collection, filters, limits and numbers of sub-queries and corrections.  *)
(***************************************************************************)
EXTENDS Retrieval, TLAPS

-----------------------------------------------------------------------------
(* Runs of indices *)

\* s is the indices lo to hi, in order.
Run(s, lo, hi) ==
  /\ s \in Seq(Nat) /\ Len(s) = hi - lo + 1
  /\ \A k \in DOMAIN s : s[k] = lo + k - 1

\* The indices in a run are those from lo to hi.
LEMMA RunHas ==
  ASSUME NEW lo \in Nat, NEW hi \in Nat, NEW s, Run(s, lo, hi), NEW x \in Nat
  PROVE  (\E k \in DOMAIN s : s[k] = x) <=> lo <= x /\ x <= hi
<1>1. DOMAIN s = 1 .. hi - lo + 1
  BY DEF Run
<1>2. ASSUME lo <= x, x <= hi PROVE \E k \in DOMAIN s : s[k] = x
  <2>1. x - lo + 1 \in DOMAIN s /\ lo + (x - lo + 1) - 1 = x
    BY <1>1, <1>2
  <2> QED
    BY <2>1 DEF Run
<1>3. ASSUME NEW k \in DOMAIN s PROVE lo <= s[k] /\ s[k] <= hi
  BY <1>1, <1>3 DEF Run
<1> QED
  BY <1>2, <1>3

\* In a run each index follows the one before it.
LEMMA RunFollows ==
  ASSUME NEW lo \in Nat, NEW hi \in Nat, NEW s, Run(s, lo, hi)
  PROVE  \A k \in DOMAIN s : k > 1 => s[k] = s[k - 1] + 1
<1>1. DOMAIN s = 1 .. hi - lo + 1
  BY DEF Run
<1> QED
  BY <1>1 DEF Run

\* A run grows by one at either end.
LEMMA RunOne ==
  ASSUME NEW x \in Nat
  PROVE  Run(<<x>>, x, x)
BY DEF Run

LEMMA RunAppend ==
  ASSUME NEW lo \in Nat, NEW hi \in Nat, NEW s, Run(s, lo, hi), lo <= hi
  PROVE  Run(Append(s, hi + 1), lo, hi + 1)
<1> DEFINE t == Append(s, hi + 1)
<1>1. t \in Seq(Nat) /\ Len(t) = Len(s) + 1
  BY DEF Run
<1>2. \A k \in 1 .. Len(s) + 1 : t[k] = IF k <= Len(s) THEN s[k] ELSE hi + 1
  BY DEF Run
<1> HIDE DEF t
<1>3. DOMAIN t = 1 .. Len(s) + 1 /\ DOMAIN s = 1 .. Len(s) /\ Len(s) \in Nat
  BY <1>1 DEF Run
<1>4. \A k \in DOMAIN t : t[k] = lo + k - 1
  BY <1>2, <1>3 DEF Run
<1>5. Run(t, lo, hi + 1)
  BY <1>1, <1>4 DEF Run
<1> QED
  BY <1>5 DEF t

LEMMA Prepended ==
  ASSUME NEW e \in Nat, NEW s \in Seq(Nat)
  PROVE  /\ <<e>> \o s \in Seq(Nat) /\ Len(<<e>> \o s) = Len(s) + 1
         /\ \A k \in 1 .. Len(s) + 1 : (<<e>> \o s)[k] = IF k = 1 THEN e ELSE s[k - 1]
<1>1. <<e>> \in Seq(Nat) /\ Len(<<e>>) = 1 /\ <<e>>[1] = e
  OBVIOUS
<1> QED
  BY <1>1

LEMMA RunPrepend ==
  ASSUME NEW lo \in Nat, NEW hi \in Nat, NEW s, Run(s, lo, hi), lo <= hi, lo > 0
  PROVE  Run(<<lo - 1>> \o s, lo - 1, hi)
<1> DEFINE t == <<lo - 1>> \o s
<1>0. lo - 1 \in Nat /\ s \in Seq(Nat)
  BY DEF Run
<1>1. t \in Seq(Nat) /\ Len(t) = Len(s) + 1
  BY <1>0, Prepended
<1>2. \A k \in 1 .. Len(s) + 1 : t[k] = IF k = 1 THEN lo - 1 ELSE s[k - 1]
  BY <1>0, Prepended
<1> HIDE DEF t
<1>3. DOMAIN t = 1 .. Len(s) + 1 /\ DOMAIN s = 1 .. Len(s) /\ Len(s) \in Nat
  BY <1>1 DEF Run
<1>4. ASSUME NEW k \in DOMAIN t PROVE t[k] = (lo - 1) + k - 1
  <2>1. CASE k = 1
    BY <1>2, <1>3, <2>1
  <2>2. CASE k # 1
    <3>1. k - 1 \in DOMAIN s /\ t[k] = s[k - 1]
      BY <1>2, <1>3, <2>2
    <3> QED
      BY <3>1, <1>3 DEF Run
  <2> QED
    BY <2>1, <2>2
<1>5. Run(t, lo - 1, hi)
  BY <1>1, <1>4 DEF Run
<1> QED
  BY <1>5 DEF t

-----------------------------------------------------------------------------
(* Types *)

\* TypeOK alone is not inductive: NoChunk is in the type of current, and a
\* correction counts one more when it is under way.
TInv ==
  /\ TypeOK
  /\ pc = "ahead" => current \in Chunk
  /\ pc = "fetch" => attempt < MaxRetries
  /\ pc \in {"grade", "fetch"} => Crag

LEMMA AppendType ==
  ASSUME NEW S, NEW s \in Seq(S), NEW e \in S
  PROVE  Append(s, e) \in Seq(S)
OBVIOUS

LEMMA MapType ==
  ASSUME NEW S, NEW F(_), NEW n \in Nat, \A k \in 1 .. n : F(k) \in S
  PROVE  [k \in 1 .. n |-> F(k)] \in Seq(S)
OBVIOUS

LEMMA AloneType == ASSUME NEW p \in Points PROVE Alone(p) \in Chunk
BY RetrievalAssumption DEF Alone, Chunk

LEMMA OutsideType == ASSUME NEW x \in External PROVE Outside(x) \in Chunk
BY DEF Outside, Chunk

LEMMA JoinedType ==
  ASSUME current \in Chunk, NEW p \in Points
  PROVE  Joined(p) \in Chunk
<1>1. p.idx \in Nat /\ TextLength[p] \in Nat
  BY RetrievalAssumption
<1>2. current.parts \in Seq(Nat) /\ current.size \in Nat /\ current.head \in Points \cup External
  BY DEF Chunk
<1>3. Append(current.parts, p.idx) \in Seq(Nat) /\ <<p.idx>> \o current.parts \in Seq(Nat)
  BY <1>1, <1>2
<1>4. current.size + TextLength[p] + 2 \in Nat
  BY <1>1, <1>2
<1> QED
  BY <1>3, <1>4 DEF Joined, Chunk

\* What a search finds are visible points, each once.
LEMMA AnswersType ==
  ASSUME NEW s \in Answers
  PROVE  /\ s \in Seq(Visible)
         /\ \A k, l \in DOMAIN s : s[k] = s[l] => k = l
<1>1. PICK n \in Nat : /\ s \in [1 .. n -> Points]
                        /\ \A k, l \in 1 .. n : s[k] = s[l] => k = l
  BY RetrievalAssumption DEF Answers, Rankings
<1>2. \A k \in DOMAIN s : s[k] \in Visible
  <2>1. CASE s = <<>>
    BY <2>1
  <2>2. CASE \E D \in Dense, S \in Sparse : {s[k] : k \in DOMAIN s} = D \cup S
    BY <2>2 DEF Dense, Sparse, TopOf
  <2> QED
    BY <2>1, <2>2 DEF Answers
<1>3. s \in [1 .. n -> Visible]
  BY <1>1, <1>2
<1> QED
  BY <1>1, <1>3

LEMMA ExtrasType ==
  ASSUME NEW e \in Extras
  PROVE  /\ e \in Seq(External)
         /\ \A k \in DOMAIN e :
              \/ e[k] \in Pages /\ (WebFallback \/ force)
              \/ e[k] \in Snippets /\ CodeFallback
<1>1. ASSUME NEW S, NEW s \in SeqsOf(S)
      PROVE  s \in Seq(S) /\ \A k \in DOMAIN s : s[k] \in S
  BY <1>1, RetrievalAssumption DEF SeqsOf
<1>2. CASE e \in FromWeb
  <2>1. CASE WebFallback \/ force
    <3>1. e \in Seq(Pages) /\ \A k \in DOMAIN e : e[k] \in Pages
      BY <1>1, <1>2, <2>1 DEF FromWeb
    <3> QED
      BY <3>1, <2>1 DEF External
  <2>2. CASE ~(WebFallback \/ force)
    BY <1>2, <2>2 DEF FromWeb
  <2> QED
    BY <2>1, <2>2
<1>3. CASE e \in FromCode
  <2>1. CASE CodeFallback
    <3>1. e \in Seq(Snippets) /\ \A k \in DOMAIN e : e[k] \in Snippets
      BY <1>1, <1>3, <2>1 DEF FromCode
    <3> QED
      BY <3>1, <2>1 DEF External
  <2>2. CASE ~CodeFallback
    BY <1>3, <2>2 DEF FromCode
  <2> QED
    BY <2>1, <2>2
<1> QED
  BY <1>2, <1>3 DEF Extras

LEMMA PicksType ==
  ASSUME chunks \in Seq(Chunk), NEW f \in Picks
  PROVE  /\ Len(f) \in Nat /\ DOMAIN f = 1 .. Len(f)
         /\ \A k \in DOMAIN f : f[k] \in DOMAIN chunks
         /\ \A k, l \in DOMAIN f : f[k] = f[l] => k = l
         /\ chunks # <<>> => Len(f) > 0
<1>1. Smaller(TopK, Len(chunks)) \in Nat
      /\ (chunks # <<>> => Smaller(TopK, Len(chunks)) > 0)
  BY RetrievalAssumption DEF Smaller
<1> QED
  BY <1>1 DEF Picks

\* Each action by itself, so that the invariants can be taken in turn.
LEMMA TypeStep == TInv /\ [Next]_vars => TInv'
<1> SUFFICES ASSUME TInv, [Next]_vars PROVE TInv'
  OBVIOUS
<1> USE RetrievalAssumption DEF TInv, TypeOK
<1>0. Visible \subseteq Points /\ Crag \in BOOLEAN
  BY DEF Visible
<1>1. CASE Search
  <2>1. found' \in Seq(Visible)
    BY <1>1, AnswersType DEF Search
  <2> QED
    BY <1>1, <2>1 DEF Search, grading, Decomposed
<1>2. CASE TakeNext
  <2>1. ASSUME i <= Len(found) PROVE Alone(found[i]) \in Chunk
    <3>1. found[i] \in Points
      BY <2>1, <1>0
    <3> QED
      BY <3>1, AloneType
  <2>2. i' \in Nat \ {0} /\ j' \in Nat \ {0} /\ current' \in Chunk \cup {NoChunk}
    BY <1>2, <2>1 DEF TakeNext
  <2>3. pc' = "ahead" => current' \in Chunk
    BY <1>2, <2>1 DEF TakeNext
  <2> QED
    BY <1>2, <2>2, <2>3 DEF TakeNext, grading
<1>3. CASE Ahead
  <2>1. found[j] \in Visible /\ current \in Chunk
    BY <1>3 DEF Ahead
  <2>2. Joined(found[j]) \in Chunk
    BY <2>1, <1>0, JoinedType
  <2> QED
    BY <1>3, <2>1, <2>2 DEF Ahead, grading
<1>4. CASE Emit
  <2>1. merged' \in Seq(Chunk)
    BY <1>4, AppendType DEF Emit
  <2> QED
    BY <1>4, <2>1 DEF Emit, grading
<1>5. CASE Merged
  BY <1>5 DEF Merged, merging, grading
<1>6. CASE Collect
  <2>1. merged[i] \in Chunk
    BY <1>6 DEF Collect
  <2>2. chunks' \in Seq(Chunk)
    BY <1>6, <2>1, AppendType DEF Collect
  <2> QED
    BY <1>6, <2>2 DEF Collect, merging, grading
<1>7. CASE Collected
  BY <1>7 DEF Collected, grading
<1>8. CASE Grade
  <2>1. chunks[i] \in Chunk
    BY <1>8 DEF Grade
  <2>2. kept' \in Seq(Chunk)
    <3>1. Append(kept, chunks[i]) \in Seq(Chunk)
      BY <2>1, AppendType
    <3>2. kept' = kept \/ kept' = Append(kept, chunks[i])
      BY <1>8 DEF Grade
    <3> QED
      BY <3>1, <3>2
  <2>3. allHigh' \in BOOLEAN /\ anyLow' \in BOOLEAN
    BY <1>8 DEF Grade
  <2>4. i' \in Nat \ {0}
    BY <1>8 DEF Grade
  <2> QED
    BY <1>8, <2>2, <2>3, <2>4 DEF Grade, merging
<1>9. CASE Assess
  <2>1. ASSUME ToRank, chunks' \in {chunks, kept} PROVE TInv'
    <3>1. allHigh' \in BOOLEAN /\ anyLow' \in BOOLEAN
      BY <2>1 DEF ToRank, Ungraded
    <3>2. chunks' \in Seq(Chunk) /\ kept' \in Seq(Chunk) /\ attempt' \in 0 .. MaxRetries
      BY <2>1 DEF ToRank, Ungraded
    <3> QED
      BY <1>9, <2>1, <3>1, <3>2 DEF Assess, ToRank, merging
  <2>2. ASSUME ~Last, pc' = "fetch", UNCHANGED <<i, chunks, grading>> PROVE TInv'
    BY <1>9, <2>2 DEF Assess, Last, merging, grading
  <2> QED
    BY <1>9, <2>1, <2>2 DEF Assess, Best
<1>10. CASE Fetch
  <2>1. PICK extra \in Extras :
          IF extra = <<>>
          THEN pc' = "rank" /\ attempt' = 0 /\ UNCHANGED chunks
          ELSE /\ chunks' = kept \o [k \in DOMAIN extra |-> Outside(extra[k])]
               /\ Counted /\ pc' = "grade"
    BY <1>10 DEF Fetch
  <2>2. [k \in DOMAIN extra |-> Outside(extra[k])] \in Seq(Chunk)
    <3>1. extra \in Seq(External)
      BY ExtrasType
    <3>2. \A k \in DOMAIN extra : Outside(extra[k]) \in Chunk
      BY <3>1, OutsideType
    <3>3. Len(extra) \in Nat /\ DOMAIN extra = 1 .. Len(extra)
      BY <3>1
    <3> QED
      BY <3>2, <3>3, MapType
  <2>3. kept \o [k \in DOMAIN extra |-> Outside(extra[k])] \in Seq(Chunk)
    BY <2>2
  <2>4. chunks' \in Seq(Chunk)
    BY <2>1, <2>3
  <2>5. attempt' \in 0 .. MaxRetries
    <3>1. attempt + 1 \in 0 .. MaxRetries /\ 0 \in 0 .. MaxRetries
      BY <1>10 DEF Fetch
    <3> QED
      BY <2>1, <3>1 DEF Counted
  <2>6. allHigh' \in BOOLEAN /\ anyLow' \in BOOLEAN /\ kept' \in Seq(Chunk)
    <3>1. Ungraded
      BY <1>10 DEF Fetch
    <3> HIDE DEF TypeOK, TInv
    <3>2. allHigh' \in BOOLEAN /\ anyLow' \in BOOLEAN
      BY <3>1 DEF Ungraded
    <3> QED
      BY <3>1, <3>2 DEF Ungraded
  <2>7. pc' \in {"rank", "grade"} /\ i' = 1 /\ Crag
    BY <1>10, <2>1 DEF Fetch
  <2>8. UNCHANGED <<force, left, found, j, skip, current, merged>>
    BY <1>10 DEF Fetch, merging
  <2> HIDE DEF TypeOK, TInv
  <2>9. TypeOK'
    BY <2>4, <2>5, <2>6, <2>7, <2>8 DEF TypeOK, TInv, Visible, Chunk
  <2> QED
    BY <2>7, <2>8, <2>9 DEF TInv
<1>11. CASE Rank
  <2>1. PICK f \in Picks : chunks' = [k \in DOMAIN f |-> chunks[f[k]]]
    BY <1>11 DEF Rank
  <2>2. /\ Len(f) \in Nat /\ DOMAIN f = 1 .. Len(f)
        /\ \A k \in DOMAIN f : f[k] \in DOMAIN chunks
    BY PicksType
  <2>3. \A k \in DOMAIN f : chunks[f[k]] \in Chunk
    BY <2>2
  <2>4. chunks' \in Seq(Chunk)
    BY <2>1, <2>2, <2>3
  <2> QED
    BY <1>11, <2>4 DEF Rank, merging, grading
<1>12. CASE UNCHANGED vars
  BY <1>12 DEF vars, merging, grading
<1> QED
  BY <1>1, <1>2, <1>3, <1>4, <1>5, <1>6, <1>7, <1>8, <1>9, <1>10, <1>11, <1>12 DEF Next

LEMMA TypeInit == Init => TInv
<1> USE RetrievalAssumption
<1> SUFFICES ASSUME Init PROVE TInv
  OBVIOUS
<1>1. NoChunk \in Chunk \cup {NoChunk} /\ <<>> \in Seq(Chunk) /\ <<>> \in Seq(Visible)
  OBVIOUS
<1>2. force \in BOOLEAN /\ allHigh \in BOOLEAN /\ anyLow \in BOOLEAN
  BY DEF Init
<1>3. left \in 0 .. SubQueries /\ attempt \in 0 .. MaxRetries
  BY DEF Init, Decomposed
<1> QED
  BY <1>1, <1>2, <1>3 DEF Init, TInv, TypeOK

\* Every state of a question has the types that the code expects.
THEOREM TypeCorrect == Spec => []TypeOK
<1>1. TInv => TypeOK
  BY DEF TInv
<1> QED
  BY TypeInit, TypeStep, <1>1, PTL DEF Spec

-----------------------------------------------------------------------------
(* The merge of neighbouring chunks *)

\* A chunk of the merge: a run of indices about its head's, at most one to either
\* side, of visible points; joined, it is within the limit.
Reads(c) ==
  /\ c \in Chunk /\ c.head \in Visible
  /\ \E lo, hi \in Nat :
       /\ Run(c.parts, lo, hi)
       /\ lo <= c.head.idx /\ c.head.idx <= lo + 1
       /\ c.head.idx <= hi /\ hi <= c.head.idx + 1
  /\ \A p \in Points : Holds(c, p) => p \in Visible
  /\ Len(c.parts) > 1 => c.size < MaxText + 2

InMerged(p) == \E n \in DOMAIN merged : Holds(merged[n], p)

\* Every point is found once.
Once == \A k, l \in DOMAIN found : found[k] = found[l] => k = l

\* Chunks are as Reads says; the one under way is that of found[i].
Shaped ==
  /\ \A n \in DOMAIN merged : Reads(merged[n])
  /\ pc = "ahead" =>
       Reads(current) /\ i \in DOMAIN found /\ current.head = found[i] /\ j > i

\* No point is in two chunks.
Apart ==
  /\ \A m, n \in DOMAIN merged : \A p \in Points :
       Holds(merged[m], p) /\ Holds(merged[n], p) => m = n
  /\ pc = "ahead" => \A p \in Points : ~(InMerged(p) /\ Holds(current, p))

\* What is in a chunk was marked as absorbed, or is a head that has been passed:
\* neither is taken again.
Marked ==
  /\ pc \in {"merge", "ahead"} => \A p \in Points :
       InMerged(p) => p \in skip \/ \E k \in DOMAIN found : k < i /\ found[k] = p
  /\ pc = "ahead" => \A p \in Points :
       Holds(current, p) => p \in skip \/ p = current.head

\* What was absorbed or passed is in a chunk.
Covered ==
  /\ pc \in {"merge", "ahead"} =>
       /\ \A p \in skip : InMerged(p) \/ (pc = "ahead" /\ Holds(current, p))
       /\ \A k \in DOMAIN found : k < i => InMerged(found[k])
  /\ pc = "collect" => \A k \in DOMAIN found : InMerged(found[k])

MInv == Once /\ Shaped /\ Apart /\ Marked /\ Covered

\* The points in a chunk are those of its document with an index in its run.
LEMMA Held ==
  ASSUME NEW c, c.head \in Points, NEW lo \in Nat, NEW hi \in Nat,
         Run(c.parts, lo, hi), NEW p \in Points
  PROVE  Holds(c, p) <=> p.doc = c.head.doc /\ lo <= p.idx /\ p.idx <= hi
<1>1. p.idx \in Nat
  BY RetrievalAssumption
<1>2. (\E k \in DOMAIN c.parts : c.parts[k] = p.idx) <=> lo <= p.idx /\ p.idx <= hi
  BY <1>1, RunHas
<1> QED
  BY <1>2 DEF Holds

LEMMA AloneReads ==
  ASSUME NEW p \in Visible
  PROVE  Reads(Alone(p)) /\ \A q \in Points : Holds(Alone(p), q) <=> q = p
<1>1. p \in Points /\ p.idx \in Nat
  BY RetrievalAssumption DEF Visible
<1>2. Alone(p) \in Chunk /\ Alone(p).head = p /\ Alone(p).parts = <<p.idx>>
  BY <1>1, AloneType DEF Alone
<1>3. Run(Alone(p).parts, p.idx, p.idx)
  BY <1>1, <1>2, RunOne
<1>4. ASSUME NEW q \in Points PROVE Holds(Alone(p), q) <=> q = p
  <2>1. Holds(Alone(p), q) <=> q.doc = p.doc /\ p.idx <= q.idx /\ q.idx <= p.idx
    BY <1>1, <1>2, <1>3, Held
  <2>2. q.idx \in Nat /\ (q.doc = p.doc /\ q.idx = p.idx => q = p)
    BY <1>1, RetrievalAssumption
  <2> QED
    BY <1>1, <2>1, <2>2
<1>5. Len(Alone(p).parts) = 1
  BY <1>2
<1> QED
  BY <1>1, <1>2, <1>3, <1>4, <1>5 DEF Reads

\* A neighbour that may be absorbed extends the run by one, and adds just itself.
LEMMA JoinedReads ==
  ASSUME Reads(current), NEW p \in Visible, Absorbable(p),
         \A q \in Points : Holds(current, q) => q \in skip \/ q = current.head
  PROVE  /\ Reads(Joined(p)) /\ Joined(p).head = current.head
         /\ p # current.head /\ ~Holds(current, p)
         /\ \A q \in Points : Holds(Joined(p), q) <=> Holds(current, q) \/ q = p
<1> DEFINE h == current.head
           c == Joined(p)
<1>a. p \in Points /\ h \in Points /\ current \in Chunk
  BY RetrievalAssumption DEF Visible, Reads
<1>b. p.idx \in Nat /\ h.idx \in Nat
  BY <1>a, RetrievalAssumption
<1>1. /\ p \in Points /\ h \in Points /\ p.idx \in Nat /\ h.idx \in Nat
      /\ current \in Chunk /\ p.doc = h.doc /\ p \notin skip
      /\ h.idx = p.idx + 1 \/ p.idx = h.idx + 1
  BY <1>a, <1>b DEF Absorbable, Adjacent
<1>2. p # h
  BY <1>1
<1>3. ~Holds(current, p)
  BY <1>1, <1>2
<1>4. PICK lo \in Nat, hi \in Nat :
         /\ Run(current.parts, lo, hi)
         /\ lo <= h.idx /\ h.idx <= lo + 1 /\ h.idx <= hi /\ hi <= h.idx + 1
  BY DEF Reads
<1>5. ~(lo <= p.idx /\ p.idx <= hi)
  BY <1>1, <1>3, <1>4, Held
<1>6. /\ c \in Chunk /\ c.head = h /\ c.size = current.size + TextLength[p] + 2
      /\ c.parts = IF h.idx < p.idx THEN Append(current.parts, p.idx)
                                    ELSE <<p.idx>> \o current.parts
  BY <1>1, JoinedType DEF Joined, Chunk
<1>7. c.size < MaxText + 2
  <2>1. current.size \in Nat /\ TextLength[p] \in Nat /\ MaxText \in Nat
    BY <1>1, RetrievalAssumption DEF Chunk
  <2> QED
    BY <1>6, <2>1 DEF Absorbable, Fits
<1> HIDE DEF c
<1>8. ASSUME NEW q \in Points, NEW x \in Nat, NEW y \in Nat, Run(c.parts, x, y),
             \/ x = lo /\ y = hi + 1 /\ p.idx = y
             \/ x = lo - 1 /\ y = hi /\ p.idx = x
      PROVE  Holds(c, q) <=> Holds(current, q) \/ q = p
  <2>1. Holds(c, q) <=> q.doc = h.doc /\ x <= q.idx /\ q.idx <= y
    BY <1>1, <1>6, <1>8, Held
  <2>2. Holds(current, q) <=> q.doc = h.doc /\ lo <= q.idx /\ q.idx <= hi
    BY <1>1, <1>4, Held
  <2>3. q.idx \in Nat /\ (q.doc = p.doc /\ q.idx = p.idx => q = p)
    BY <1>1, RetrievalAssumption
  <2>4. x <= q.idx /\ q.idx <= y <=> (lo <= q.idx /\ q.idx <= hi) \/ q.idx = p.idx
    BY <1>1, <1>4, <1>8, <2>3
  <2> QED
    BY <1>1, <2>1, <2>2, <2>3, <2>4
<1>9. ASSUME NEW x \in Nat, NEW y \in Nat, Run(c.parts, x, y),
             \/ x = lo /\ y = hi + 1 /\ p.idx = y
             \/ x = lo - 1 /\ y = hi /\ p.idx = x
      PROVE  Reads(c) /\ \A q \in Points : Holds(c, q) <=> Holds(current, q) \/ q = p
  <2>1. \A q \in Points : Holds(c, q) <=> Holds(current, q) \/ q = p
    BY <1>8, <1>9
  <2>2. \A q \in Points : Holds(c, q) => q \in Visible
    BY <2>1 DEF Reads
  <2>3. x <= h.idx /\ h.idx <= x + 1 /\ h.idx <= y /\ y <= h.idx + 1
    BY <1>1, <1>4, <1>5, <1>9
  <2>4. h \in Visible
    BY DEF Reads
  <2> QED
    BY <1>6, <1>7, <1>9, <2>1, <2>2, <2>3, <2>4 DEF Reads
<1>10. CASE p.idx = h.idx + 1
  <2>1. p.idx = hi + 1 /\ lo <= hi /\ h.idx < p.idx
    BY <1>1, <1>4, <1>5, <1>10
  <2>2. Run(Append(current.parts, hi + 1), lo, hi + 1)
    BY <1>4, <2>1, RunAppend
  <2>3. Run(c.parts, lo, p.idx)
    BY <1>6, <2>1, <2>2
  <2>4. Reads(c) /\ \A q \in Points : Holds(c, q) <=> Holds(current, q) \/ q = p
    BY <1>1, <1>9, <2>1, <2>3
  <2> QED
    BY <1>2, <1>3, <1>6, <2>4 DEF c
<1>11. CASE h.idx = p.idx + 1
  <2>1. lo - 1 = p.idx /\ lo - 1 \in Nat /\ lo > 0 /\ lo <= hi /\ ~(h.idx < p.idx)
    BY <1>1, <1>4, <1>5, <1>11
  <2>2. c.parts = <<lo - 1>> \o current.parts
    BY <1>6, <2>1
  <2>3. Run(c.parts, lo - 1, hi)
    BY <1>4, <2>1, <2>2, RunPrepend
  <2> QED
    BY <1>2, <1>3, <1>6, <1>9, <2>1, <2>3 DEF c
<1> QED
  BY <1>1, <1>10, <1>11

LEMMA Appended ==
  ASSUME NEW S, NEW s \in Seq(S), NEW e \in S
  PROVE  /\ DOMAIN s = 1 .. Len(s) /\ Len(s) \in Nat
         /\ DOMAIN Append(s, e) = 1 .. Len(s) + 1
         /\ \A k \in 1 .. Len(s) : Append(s, e)[k] = s[k]
         /\ Append(s, e)[Len(s) + 1] = e
OBVIOUS

\* What a chunk of the merge is does not change with time.
LEMMA ReadsConstant == ASSUME NEW c PROVE Reads(c)' <=> Reads(c)
BY DEF Reads, Visible

\* A neighbour is looked at: absorbed or left where it is.
LEMMA AheadMerge == TInv /\ MInv /\ Ahead => MInv'
<1> SUFFICES ASSUME TInv, MInv, Ahead PROVE MInv'
  OBVIOUS
<1>1. /\ pc = "ahead" /\ pc' = "ahead" /\ j' = j + 1 /\ j \in Nat /\ i \in Nat
      /\ i' = i /\ found' = found /\ merged' = merged
  BY DEF Ahead, TInv, TypeOK
<1>2. /\ found \in Seq(Visible) /\ j \in DOMAIN found /\ found[j] \in Visible
      /\ i \in DOMAIN found /\ current.head = found[i] /\ j > i /\ Reads(current)
  BY <1>1 DEF Ahead, TInv, TypeOK, MInv, Shaped
<1>3. CASE ~Absorbable(found[j])
  <2>1. UNCHANGED <<current, skip>>
    BY <1>3 DEF Ahead
  <2>2. Once' /\ Apart' /\ Marked' /\ Covered'
    BY <1>1, <2>1 DEF MInv, Once, Apart, Marked, Covered, InMerged
  <2>3. Shaped'
    BY <1>1, <1>2, <2>1, ReadsConstant DEF MInv, Shaped
  <2> QED
    BY <2>2, <2>3 DEF MInv
<1>4. CASE Absorbable(found[j])
  <2> DEFINE p == found[j]
  <2>1. current' = Joined(p) /\ skip' = skip \cup {p}
    BY <1>4 DEF Ahead
  <2>2. /\ Reads(Joined(p)) /\ Joined(p).head = current.head
        /\ p # current.head /\ ~Holds(current, p)
        /\ \A q \in Points : Holds(Joined(p), q) <=> Holds(current, q) \/ q = p
    BY <1>1, <1>2, <1>4, JoinedReads DEF MInv, Marked
  <2>3. p \in Points /\ p \notin skip
    BY <1>2, <1>4, RetrievalAssumption DEF Visible, Absorbable
  <2>4. ~InMerged(p)
    <3>1. \A k \in DOMAIN found : k < i => found[k] # p
      BY <1>1, <1>2 DEF MInv, Once
    <3> QED
      BY <1>1, <2>3, <3>1 DEF MInv, Marked
  <2>5. \A q : InMerged(q)' <=> InMerged(q)
    BY <1>1 DEF InMerged
  <2> HIDE DEF p
  <2>6. Once'
    BY <1>1 DEF MInv, Once
  <2>7. Shaped'
    BY <1>1, <1>2, <2>1, <2>2, ReadsConstant DEF MInv, Shaped
  <2>8. Apart'
    BY <1>1, <2>1, <2>2, <2>4, <2>5 DEF MInv, Apart
  <2>9. Marked'
    BY <1>1, <2>1, <2>2, <2>5 DEF MInv, Marked
  <2>10. Covered'
    <3>1. \A q \in skip' : InMerged(q)' \/ Holds(current', q)
      <4>1. skip \subseteq Points
        BY RetrievalAssumption DEF TInv, TypeOK, Visible
      <4> QED
        BY <1>1, <2>1, <2>2, <2>3, <2>5, <4>1 DEF MInv, Covered
    <3> QED
      BY <1>1, <2>5, <3>1 DEF MInv, Covered
  <2> QED
    BY <2>6, <2>7, <2>8, <2>9, <2>10 DEF MInv
<1> QED
  BY <1>3, <1>4

\* A chunk without further neighbours takes its place.
LEMMA EmitMerge == TInv /\ MInv /\ Emit => MInv'
<1> SUFFICES ASSUME TInv, MInv, Emit PROVE MInv'
  OBVIOUS
<1>1. /\ pc = "ahead" /\ pc' = "merge" /\ i' = i + 1 /\ i \in Nat
      /\ found' = found /\ skip' = skip /\ merged' = Append(merged, current)
  BY DEF Emit, TInv, TypeOK
<1>2. /\ merged \in Seq(Chunk) /\ current \in Chunk /\ Reads(current)
      /\ i \in DOMAIN found /\ current.head = found[i] /\ found[i] \in Points
      /\ DOMAIN found \subseteq Nat
  BY <1>1, RetrievalAssumption DEF TInv, TypeOK, MInv, Shaped, Visible
<1>3. /\ DOMAIN merged = 1 .. Len(merged) /\ Len(merged) \in Nat
      /\ DOMAIN merged' = 1 .. Len(merged) + 1
      /\ \A k \in DOMAIN merged : merged'[k] = merged[k]
      /\ merged'[Len(merged) + 1] = current
  BY <1>1, <1>2, Appended
<1>4. /\ DOMAIN merged' = DOMAIN merged \cup {Len(merged) + 1}
      /\ Len(merged) + 1 \notin DOMAIN merged
  BY <1>3
<1>5. \A p : InMerged(p)' <=> InMerged(p) \/ Holds(current, p)
  BY <1>3, <1>4 DEF InMerged
<1>6. Holds(current, found[i])
  <2>1. PICK lo \in Nat, hi \in Nat :
          Run(current.parts, lo, hi) /\ lo <= current.head.idx /\ current.head.idx <= hi
    BY <1>2 DEF Reads
  <2> QED
    BY <1>2, <2>1, Held
<1>7. Once'
  BY <1>1 DEF MInv, Once
<1>8. Shaped'
  BY <1>1, <1>2, <1>3, <1>4, ReadsConstant DEF MInv, Shaped
<1>9. Apart'
  <2>1. ASSUME NEW m \in DOMAIN merged', NEW n \in DOMAIN merged', NEW p \in Points,
               Holds(merged'[m], p), Holds(merged'[n], p)
        PROVE  m = n
    <3>1. \A l \in DOMAIN merged : ~(Holds(merged[l], p) /\ Holds(current, p))
      BY <1>1 DEF MInv, Apart, InMerged
    <3> QED
      BY <1>3, <1>4, <2>1, <3>1 DEF MInv, Apart
  <2> QED
    BY <1>1, <2>1 DEF Apart
<1>10. Marked'
  BY <1>1, <1>2, <1>5 DEF MInv, Marked
<1>11. Covered'
  <2>1. \A k \in DOMAIN found : k < i + 1 => k < i \/ k = i
    BY <1>1, <1>2
  <2> QED
    BY <1>1, <1>2, <1>5, <1>6, <2>1 DEF MInv, Covered
<1> QED
  BY <1>7, <1>8, <1>9, <1>10, <1>11 DEF MInv

LEMMA MergeStep == TInv /\ MInv /\ [Next]_vars => MInv'
<1> SUFFICES ASSUME TInv, MInv, [Next]_vars PROVE MInv'
  OBVIOUS
<1>0. \A c : Reads(c)' <=> Reads(c)
  BY ReadsConstant
<1>1. CASE Search
  <2>1. /\ pc' = "merge" /\ i' = 1 /\ skip' = {} /\ merged' = <<>>
        /\ found' \in Seq(Visible)
        /\ \A k, l \in DOMAIN found' : found'[k] = found'[l] => k = l
    BY <1>1, AnswersType DEF Search
  <2>2. DOMAIN merged' = {} /\ \A k \in DOMAIN found' : ~(k < i')
    BY <2>1
  <2> QED
    BY <2>1, <2>2 DEF MInv, Once, Shaped, Apart, Marked, Covered, InMerged
<1>2. CASE TakeNext
  <2>1. /\ pc = "merge" /\ i \in DOMAIN found /\ found[i] \in Visible /\ i \in Nat
        /\ found' = found /\ skip' = skip /\ merged' = merged /\ DOMAIN found \subseteq Nat
    BY <1>2 DEF TakeNext, TInv, TypeOK
  <2>2. \A p : InMerged(p)' <=> InMerged(p)
    BY <2>1 DEF InMerged
  <2>3. CASE found[i] \in skip
    <3>1. i' = i + 1 /\ pc' = "merge"
      BY <1>2, <2>1, <2>3 DEF TakeNext
    <3>2. \A k \in DOMAIN found : k < i + 1 => k < i \/ k = i
      BY <2>1
    <3>3. InMerged(found[i])
      BY <2>1, <2>3 DEF MInv, Covered
    <3>4. Covered' /\ Marked'
      BY <2>1, <2>2, <3>1, <3>2, <3>3 DEF MInv, Covered, Marked
    <3>5. Once' /\ Shaped' /\ Apart'
      BY <1>0, <2>1, <3>1 DEF MInv, Once, Shaped, Apart
    <3> QED
      BY <3>4, <3>5 DEF MInv
  <2>4. CASE found[i] \notin skip
    <3>1. current' = Alone(found[i]) /\ j' = i + 1 /\ pc' = "ahead" /\ i' = i
      BY <1>2, <2>4 DEF TakeNext
    <3>2. /\ Reads(Alone(found[i])) /\ Alone(found[i]).head = found[i]
          /\ \A q \in Points : Holds(Alone(found[i]), q) <=> q = found[i]
      BY <2>1, AloneReads DEF Alone
    <3>3. ~InMerged(found[i])
      <4>1. \A k \in DOMAIN found : k < i => found[k] # found[i]
        BY <2>1 DEF MInv, Once
      <4> QED
        BY <2>1, <2>4, <4>1, RetrievalAssumption DEF MInv, Marked, Visible
    <3>4. Once' /\ Covered'
      BY <2>1, <2>2, <3>1 DEF MInv, Once, Covered
    <3>5. Shaped'
      BY <1>0, <2>1, <3>1, <3>2 DEF MInv, Shaped
    <3>6. Apart'
      BY <2>1, <2>2, <3>1, <3>2, <3>3 DEF MInv, Apart
    <3>7. Marked'
      BY <2>1, <2>2, <3>1, <3>2 DEF MInv, Marked
    <3> QED
      BY <3>4, <3>5, <3>6, <3>7 DEF MInv
  <2> QED
    BY <2>3, <2>4
<1>3. CASE Ahead
  BY <1>3, AheadMerge
<1>4. CASE Emit
  BY <1>4, EmitMerge
<1>5. CASE Merged
  <2>1. /\ pc = "merge" /\ pc' = "collect" /\ found' = found /\ merged' = merged
        /\ \A k \in DOMAIN found : k < i
    BY <1>5 DEF Merged, merging, TInv, TypeOK
  <2> QED
    BY <1>0, <2>1 DEF MInv, Once, Shaped, Apart, Marked, Covered, InMerged
<1>6. CASE Collected
  <2>1. /\ pc' \in {"search", "grade", "rank"} /\ found' = <<>> /\ merged' = <<>>
        /\ DOMAIN found' = {} /\ DOMAIN merged' = {}
    BY <1>6 DEF Collected
  <2> QED
    BY <2>1 DEF MInv, Once, Shaped, Apart, Marked, Covered, InMerged
<1>7. CASE Collect \/ Grade \/ Assess \/ Fetch \/ Rank
  <2>1. UNCHANGED merging
    BY <1>7 DEF Collect, Grade, Assess, Fetch, Rank
  <2>2. pc' \notin {"merge", "ahead"} /\ (pc' = "collect" => pc = "collect")
    BY <1>7 DEF Collect, Grade, Assess, ToRank, Fetch, Counted, Rank
  <2> QED
    BY <1>0, <2>1, <2>2 DEF merging, MInv, Once, Shaped, Apart, Marked, Covered, InMerged
<1>8. CASE UNCHANGED vars
  BY <1>0, <1>8 DEF vars, merging, MInv, Once, Shaped, Apart, Marked, Covered, InMerged
<1> QED
  BY <1>1, <1>2, <1>3, <1>4, <1>5, <1>6, <1>7, <1>8 DEF Next

LEMMA MergeInit == Init => MInv
<1> SUFFICES ASSUME Init PROVE MInv
  OBVIOUS
<1>1. pc = "search" /\ DOMAIN found = {} /\ DOMAIN merged = {}
  BY DEF Init
<1> QED
  BY <1>1 DEF MInv, Once, Shaped, Apart, Marked, Covered, InMerged

LEMMA MergeInvariant == Spec => [](TInv /\ MInv)
<1>1. Init => TInv /\ MInv
  BY TypeInit, MergeInit
<1>2. TInv /\ MInv /\ [Next]_vars => (TInv /\ MInv)'
  BY TypeStep, MergeStep
<1> QED
  BY <1>1, <1>2, PTL DEF Spec

\* A merged text reads as the document does, whatever the ranks of its parts.
THEOREM MergeReadsOn == Spec => []Consecutive
<1>1. TInv /\ MInv => Consecutive
  <2> SUFFICES ASSUME MInv, NEW n \in DOMAIN merged
               PROVE  /\ Holds(merged[n], merged[n].head)
                      /\ \A k \in DOMAIN merged[n].parts :
                           k > 1 => merged[n].parts[k] = merged[n].parts[k - 1] + 1
    BY DEF Consecutive
  <2>1. Reads(merged[n])
    BY DEF MInv, Shaped
  <2>2. PICK lo \in Nat, hi \in Nat :
          /\ Run(merged[n].parts, lo, hi)
          /\ lo <= merged[n].head.idx /\ merged[n].head.idx <= hi
    BY <2>1 DEF Reads
  <2>3. merged[n].head \in Points
    BY <2>1, RetrievalAssumption DEF Reads, Visible
  <2>4. Holds(merged[n], merged[n].head)
    BY <2>2, <2>3, Held
  <2> QED
    BY <2>2, <2>4, RunFollows
<1> QED
  BY MergeInvariant, <1>1, PTL

\* A joined text stays below the limit, but for the last joint.
THEOREM MergeFits == Spec => []Fitting
<1>1. TInv /\ MInv => Fitting
  BY DEF MInv, Shaped, Reads, Fitting
<1> QED
  BY MergeInvariant, <1>1, PTL

\* The merge loses no point that was found and gives none to two chunks.
THEOREM MergePartitions == Spec => []Partition
<1>1. TInv /\ MInv => Partition
  <2> SUFFICES ASSUME TInv, MInv, pc = "collect", NEW k \in DOMAIN found
               PROVE  \E n \in DOMAIN merged : \A m \in DOMAIN merged :
                        Holds(merged[m], found[k]) <=> m = n
    BY DEF Partition
  <2>1. found[k] \in Points
    BY RetrievalAssumption DEF TInv, TypeOK, Visible
  <2>2. PICK n \in DOMAIN merged : Holds(merged[n], found[k])
    BY DEF MInv, Covered, InMerged
  <2> QED
    BY <2>1, <2>2 DEF MInv, Apart
<1> QED
  BY MergeInvariant, <1>1, PTL

-----------------------------------------------------------------------------
(* The context *)

\* c comes from a point that may be seen, with nothing else joined to it, or from
\* a search that was allowed.
Sound(c) ==
  \/ c.head \in Pages /\ Crag /\ (WebFallback \/ force)
  \/ c.head \in Snippets /\ Crag /\ CodeFallback
  \/ c.head \in Points /\ \A p \in Points : Holds(c, p) => p \in Own /\ p \in Matching

AllSound(s) == \A k \in DOMAIN s : Sound(s[k])
EachOnce(s) ==
  \A k, l \in DOMAIN s : s[k].head = s[l].head /\ s[k].head \in Points => k = l

\* What was graded GOOD so far are chunks that have been graded, and nothing is
\* kept outside the correction.
Graded ==
  /\ pc = "grade" =>
       \A a \in DOMAIN kept : \E b \in DOMAIN chunks : b < i /\ kept[a] = chunks[b]
  /\ pc \notin {"grade", "fetch"} => kept = <<>>

CInv ==
  /\ AllSound(chunks) /\ AllSound(kept)
  /\ EachOnce(chunks) /\ EachOnce(kept)
  /\ Graded

\* Nothing in no chunks can be wrong.
LEMMA NoneWrong == AllSound(<<>>) /\ EachOnce(<<>>)
<1>1. DOMAIN <<>> = {}
  OBVIOUS
<1> QED
  BY <1>1 DEF AllSound, EachOnce

LEMMA ContextStep == TInv /\ MInv /\ CInv /\ [Next]_vars => CInv'
<1> SUFFICES ASSUME TInv, MInv, CInv, [Next]_vars PROVE CInv'
  OBVIOUS
<1>0. /\ chunks \in Seq(Chunk) /\ kept \in Seq(Chunk) /\ merged \in Seq(Chunk)
      /\ i \in Nat \ {0} /\ Points \cap External = {}
  BY RetrievalAssumption DEF TInv, TypeOK, External
<1>a. force' = force
  BY DEF Next, vars, Search, TakeNext, Ahead, Emit, Merged, Collect, Collected, Grade,
         Assess, Fetch, Rank
<1>b. \A c : Sound(c)' <=> Sound(c)
  BY <1>a DEF Sound
<1>c. \A s : AllSound(s)' <=> AllSound(s)
  BY <1>b DEF AllSound
<1>1. CASE Search \/ TakeNext \/ Ahead \/ Emit \/ Merged \/ Collected \/ UNCHANGED vars
  <2>1. chunks' = chunks /\ kept' = kept
    BY <1>1 DEF Search, TakeNext, Ahead, Emit, Merged, Collected, vars, grading
  <2>2. Graded'
    <3>1. CASE UNCHANGED vars
      BY <3>1 DEF CInv, Graded, vars, grading
    <3>2. CASE Search \/ TakeNext \/ Ahead \/ Emit \/ Merged \/ Collected
      <4>1. kept = <<>> /\ DOMAIN kept = {}
        BY <3>2 DEF CInv, Graded, Search, TakeNext, Ahead, Emit, Merged, Collected
      <4> QED
        BY <2>1, <4>1 DEF Graded
    <3> QED
      BY <1>1, <3>1, <3>2
  <2> QED
    BY <1>b, <2>1, <2>2 DEF CInv, AllSound, EachOnce
<1>2. CASE Collect
  <2>1. /\ i \in DOMAIN merged /\ merged[i] \in Chunk /\ kept' = kept /\ pc' = "collect"
        /\ kept = <<>>
    BY <1>0, <1>2 DEF Collect, grading, CInv, Graded
  <2>2. Reads(merged[i])
    BY <2>1 DEF MInv, Shaped
  <2>3. Sound(merged[i])
    BY <2>2, RetrievalAssumption DEF Reads, Sound, Visible
  <2>4. CASE Known(merged[i])
    BY <1>2, <1>b, <2>1, <2>4 DEF Collect, CInv, AllSound, EachOnce, Graded
  <2>5. CASE ~Known(merged[i])
    <3>1. chunks' = Append(chunks, merged[i])
      BY <1>2, <2>5 DEF Collect
    <3>2. /\ DOMAIN chunks = 1 .. Len(chunks) /\ Len(chunks) \in Nat
          /\ DOMAIN chunks' = 1 .. Len(chunks) + 1
          /\ \A k \in 1 .. Len(chunks) : chunks'[k] = chunks[k]
          /\ chunks'[Len(chunks) + 1] = merged[i]
      BY <1>0, <2>1, <3>1, Appended
    <3>3. /\ DOMAIN chunks' = DOMAIN chunks \cup {Len(chunks) + 1}
          /\ Len(chunks) + 1 \notin DOMAIN chunks
      BY <3>2
    <3>4. AllSound(chunks)'
      BY <1>b, <2>3, <3>2, <3>3 DEF CInv, AllSound
    <3>5. EachOnce(chunks)'
      BY <2>5, <3>2, <3>3 DEF CInv, EachOnce, Known
    <3> QED
      BY <1>b, <2>1, <3>4, <3>5 DEF CInv, AllSound, EachOnce, Graded
  <2> QED
    BY <2>4, <2>5
<1>3. CASE Grade
  <2>1. /\ pc = "grade" /\ pc' = "grade" /\ i' = i + 1 /\ chunks' = chunks
        /\ i \in DOMAIN chunks /\ chunks[i] \in Chunk /\ DOMAIN chunks \subseteq Nat
    BY <1>0, <1>3 DEF Grade
  <2>2. \A b \in DOMAIN chunks : b < i => b < i + 1
    BY <1>0, <2>1
  <2>3. CASE kept' = kept
    BY <1>b, <2>1, <2>2, <2>3 DEF CInv, AllSound, EachOnce, Graded
  <2>4. CASE kept' = Append(kept, chunks[i])
    <3>2. /\ DOMAIN kept = 1 .. Len(kept) /\ Len(kept) \in Nat
          /\ DOMAIN kept' = 1 .. Len(kept) + 1
          /\ \A k \in 1 .. Len(kept) : kept'[k] = kept[k]
          /\ kept'[Len(kept) + 1] = chunks[i]
      BY <1>0, <2>1, <2>4, Appended
    <3>3. /\ DOMAIN kept' = DOMAIN kept \cup {Len(kept) + 1}
          /\ Len(kept) + 1 \notin DOMAIN kept
      BY <3>2
    <3>4. \A a \in DOMAIN kept : kept[a].head = chunks[i].head => chunks[i].head \notin Points
      BY <1>0, <2>1 DEF CInv, Graded, EachOnce
    <3>5. AllSound(kept)'
      BY <1>b, <2>1, <3>2, <3>3 DEF CInv, AllSound
    <3>6. EachOnce(kept)'
      BY <3>2, <3>3, <3>4 DEF CInv, EachOnce
    <3>7. Graded'
      BY <1>0, <2>1, <2>2, <3>2, <3>3 DEF CInv, Graded
    <3> QED
      BY <1>b, <2>1, <3>5, <3>6, <3>7 DEF CInv, AllSound, EachOnce
  <2> QED
    BY <1>3, <2>3, <2>4 DEF Grade
<1>4. CASE Assess
  <2>1. CASE ToRank /\ chunks' \in {chunks, kept}
    BY <1>b, <1>c, <2>1, NoneWrong DEF ToRank, Ungraded, CInv, AllSound, EachOnce, Graded
  <2>2. CASE pc' = "fetch" /\ UNCHANGED <<i, chunks, grading>>
    BY <1>b, <2>2 DEF grading, CInv, AllSound, EachOnce, Graded
  <2> QED
    BY <1>4, <2>1, <2>2 DEF Assess, Best
<1>5. CASE Fetch
  <2>1. PICK extra \in Extras :
          IF extra = <<>>
          THEN pc' = "rank" /\ attempt' = 0 /\ UNCHANGED chunks
          ELSE /\ chunks' = kept \o [k \in DOMAIN extra |-> Outside(extra[k])]
               /\ Counted /\ pc' = "grade"
    BY <1>5 DEF Fetch
  <2>2. kept' = <<>> /\ DOMAIN kept' = {} /\ pc = "fetch" /\ Crag
    BY <1>5 DEF Fetch, Ungraded, TInv
  <2>3. AllSound(kept)' /\ EachOnce(kept)' /\ Graded'
    BY <2>2 DEF AllSound, EachOnce, Graded
  <2>4. CASE extra = <<>>
    BY <1>b, <2>1, <2>3, <2>4 DEF CInv, AllSound, EachOnce
  <2>5. CASE extra # <<>>
    <3> DEFINE t == [k \in DOMAIN extra |-> Outside(extra[k])]
    <3>1. /\ extra \in Seq(External)
          /\ \A k \in DOMAIN extra : \/ extra[k] \in Pages /\ (WebFallback \/ force)
                                     \/ extra[k] \in Snippets /\ CodeFallback
      BY ExtrasType
    <3>2. t \in Seq(Chunk)
      <4>1. \A k \in DOMAIN extra : Outside(extra[k]) \in Chunk
        BY <3>1, OutsideType
      <4>2. Len(extra) \in Nat /\ DOMAIN extra = 1 .. Len(extra)
        BY <3>1
      <4> QED
        BY <4>1, <4>2, MapType
    <3>3. \A k \in DOMAIN t : Sound(t[k]) /\ t[k].head \notin Points
      <4>1. \A k \in DOMAIN t : t[k].head = extra[k]
        BY DEF Outside
      <4> QED
        BY <1>0, <2>2, <3>1, <4>1 DEF Sound, External
    <3>4. chunks' = kept \o t
      BY <2>1, <2>5
    <3> HIDE DEF t
    <3>5. /\ DOMAIN kept = 1 .. Len(kept) /\ Len(kept) \in Nat
          /\ DOMAIN t = 1 .. Len(t) /\ Len(t) \in Nat
          /\ DOMAIN chunks' = 1 .. Len(kept) + Len(t)
      BY <1>0, <3>2, <3>4
    <3>6. \A k \in DOMAIN chunks' :
            \/ k \in DOMAIN kept /\ chunks'[k] = kept[k]
            \/ k - Len(kept) \in DOMAIN t /\ chunks'[k] = t[k - Len(kept)]
      BY <1>0, <3>2, <3>4, <3>5
    <3>7. AllSound(chunks)'
      BY <1>b, <3>3, <3>6 DEF CInv, AllSound
    <3>8. EachOnce(chunks)'
      BY <3>3, <3>6 DEF CInv, EachOnce
    <3> QED
      BY <2>3, <3>7, <3>8 DEF CInv
  <2> QED
    BY <2>4, <2>5
<1>6. CASE Rank
  <2>1. PICK f \in Picks : chunks' = [k \in DOMAIN f |-> chunks[f[k]]]
    BY <1>6 DEF Rank
  <2>2. /\ \A k \in DOMAIN f : f[k] \in DOMAIN chunks
        /\ \A k, l \in DOMAIN f : f[k] = f[l] => k = l
    BY <1>0, PicksType
  <2>3. kept' = kept /\ kept = <<>> /\ pc' = "done"
    BY <1>6 DEF Rank, grading, CInv, Graded
  <2>4. AllSound(chunks)'
    BY <1>b, <2>1, <2>2 DEF CInv, AllSound
  <2>5. EachOnce(chunks)'
    BY <2>1, <2>2 DEF CInv, EachOnce
  <2> QED
    BY <1>b, <2>3, <2>4, <2>5 DEF CInv, AllSound, EachOnce, Graded
<1> QED
  BY <1>1, <1>2, <1>3, <1>4, <1>5, <1>6 DEF Next

LEMMA ContextInvariant == Spec => [](TInv /\ MInv /\ CInv)
<1>1. Init => TInv /\ MInv /\ CInv
  <2>1. Init => CInv
    <3> SUFFICES ASSUME Init PROVE CInv
      OBVIOUS
    <3>1. chunks = <<>> /\ kept = <<>> /\ DOMAIN kept = {}
      BY DEF Init
    <3> QED
      BY <3>1, NoneWrong DEF CInv, Graded
  <2> QED
    BY <2>1, TypeInit, MergeInit
<1>2. TInv /\ MInv /\ CInv /\ [Next]_vars => (TInv /\ MInv /\ CInv)'
  BY TypeStep, MergeStep, ContextStep
<1> QED
  BY <1>1, <1>2, PTL DEF Spec

\* What the model sees belongs to the user and passes the filters, or comes from a
\* search that was allowed.
THEOREM ContextIsSound == Spec => []ContextSound
<1>1. TInv /\ MInv /\ CInv => ContextSound
  BY DEF CInv, AllSound, Sound, ContextSound
<1> QED
  BY ContextInvariant, <1>1, PTL

\* No chunk of the index is cited twice.
THEOREM ContextCitesOnce == Spec => []CitedOnce
<1>1. TInv /\ MInv /\ CInv => CitedOnce
  BY DEF CInv, EachOnce, CitedOnce
<1> QED
  BY ContextInvariant, <1>1, PTL

\* Once there is a chunk there is one until the end.
THEOREM NeverLeftEmpty == Spec => NeverEmptied
<1>1. TInv /\ [Next]_vars => [chunks # <<>> => chunks' # <<>>]_vars
  <2> SUFFICES ASSUME TInv, Next, chunks # <<>> PROVE chunks' # <<>>
    OBVIOUS
  <2>0. chunks \in Seq(Chunk) /\ kept \in Seq(Chunk) /\ merged \in Seq(Chunk) /\ i \in Nat \ {0}
    BY DEF TInv, TypeOK
  <2>1. CASE Search \/ TakeNext \/ Ahead \/ Emit \/ Merged \/ Collected \/ Grade
    BY <2>1 DEF Search, TakeNext, Ahead, Emit, Merged, Collected, Grade, grading
  <2>2. CASE Collect
    <3>1. merged[i] \in Chunk
      BY <2>0, <2>2 DEF Collect
    <3>2. Append(chunks, merged[i]) # <<>>
      BY <2>0, <3>1
    <3> QED
      BY <2>2, <3>2 DEF Collect
  <2>3. CASE Assess
    BY <2>3 DEF Assess, Best
  <2>4. CASE Fetch
    <3>1. PICK extra \in Extras :
            IF extra = <<>>
            THEN UNCHANGED chunks
            ELSE chunks' = kept \o [k \in DOMAIN extra |-> Outside(extra[k])]
      BY <2>4 DEF Fetch
    <3>2. extra \in Seq(External)
      BY ExtrasType
    <3>3. ASSUME extra # <<>>
          PROVE  kept \o [k \in DOMAIN extra |-> Outside(extra[k])] # <<>>
      <4> DEFINE t == [k \in DOMAIN extra |-> Outside(extra[k])]
      <4>1. Len(extra) \in Nat /\ Len(extra) > 0 /\ DOMAIN extra = 1 .. Len(extra)
        BY <3>2, <3>3
      <4>2. t \in Seq(Chunk) /\ Len(t) > 0
        <5>1. \A k \in DOMAIN extra : Outside(extra[k]) \in Chunk
          BY <3>2, OutsideType
        <5> QED
          BY <4>1, <5>1, MapType
      <4> HIDE DEF t
      <4>3. Len(kept \o t) > 0
        BY <2>0, <4>2
      <4> QED
        BY <4>3 DEF t
    <3> QED
      BY <3>1, <3>3
  <2>5. CASE Rank
    <3>1. PICK f \in Picks : chunks' = [k \in DOMAIN f |-> chunks[f[k]]]
      BY <2>5 DEF Rank
    <3>2. Len(f) \in Nat /\ DOMAIN f = 1 .. Len(f) /\ Len(f) > 0
      BY <2>0, PicksType
    <3>3. 1 \in DOMAIN chunks'
      BY <3>1, <3>2
    <3> QED
      BY <3>3
  <2> QED
    BY <2>1, <2>2, <2>3, <2>4, <2>5 DEF Next
<1> QED
  BY MergeInvariant, <1>1, PTL DEF Spec, NeverEmptied
=============================================================================
