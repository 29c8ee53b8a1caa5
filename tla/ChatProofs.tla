----------------------------- MODULE ChatProofs -----------------------------
(* Theorems about Chat, for any number of requests, sessions and replicas: whose  *)
(* answers the cache serves, what a summary replaces, where half an answer may be *)
(* and the order of a history.                                                     *)
EXTENDS Chat, TLAPS

-----------------------------------------------------------------------------
(* Whose answers are served. *)

\* The fields of a request's state.
Fields == {"pc", "phase", "todo", "drop", "read", "hit", "answer", "blank"}

\* The request has its own answer, and one that may be cached.
Given(o) == /\ req[o].answer = o
            /\ ~(o \in Streams /\ req[o].blank)

\* The entry answers the request's question.
Matches(r, e) == /\ e \in Entry /\ e[1] = Owner[Session[r]]
                 /\ e[2] = Query[r] \/ {e[2], Query[r]} \in Similar

\* The answer o may be served to r.
Serves(o, r) == o \in Requests /\ Given(o) /\ Matches(r, Own(o))

\* The phase a request is in says whose answer it has.
Fits(r, x) ==
  /\ DOMAIN x = Fields
  /\ x.phase \in {"ask", "answer", "hit"}
  /\ x.phase = "ask" => x.answer = None
  /\ x.phase = "answer" => x.answer = r
  /\ x.pc \in {"new", "arrived", "scan", "fetch", "answer", "streaming"} => x.phase = "ask"
  /\ x.pc \in SummaryPcs \cup FillPcs => x.phase = "answer"
  /\ x.pc \in FillPcs => ~(r \in Streams /\ x.blank)
  /\ x.pc = "fetch" => Matches(r, x.hit)
  /\ x.answer \notin {None, r} => Serves(x.answer, r)

Local(r) == Fits(r, req[r])
Locals == DOMAIN req = Requests /\ \A r \in Requests : Local(r)

\* An entry holds an answer to its own question, given to its own user.
Filled == /\ emb \subseteq Entry /\ DOMAIN resp = Entry
          /\ \A e \in Entry : resp[e] # None =>
               resp[e] \in Requests /\ Given(resp[e]) /\ Own(resp[e]) = e

IInv == Locals /\ Filled

\* What was given stays given.
Lasting == \A o \in Requests : Given(o) => Given(o)'

LEMMA OwnEntry == ASSUME NEW r \in Requests PROVE Own(r) \in Entry /\ r # None
BY ChatAssumption DEF Own, Entry

LEMMA IInit == Init => IInv
<1> SUFFICES ASSUME Init PROVE IInv
  OBVIOUS
<1>1. ASSUME NEW r \in Requests PROVE Fits(r, req[r])
  <2>1. req[r] = IF r \in Past THEN PastRequest(r) ELSE NewRequest
    BY DEF Init
  <2>2. DOMAIN NewRequest = Fields /\ DOMAIN PastRequest(r) = Fields
    BY DEF NewRequest, PastRequest, Fields
  <2>3. Fits(r, NewRequest) /\ Fits(r, PastRequest(r))
    BY <2>2 DEF Fits, NewRequest, PastRequest, SummaryPcs, FillPcs
  <2> QED
    BY <2>1, <2>3
<1>2. Filled
  <2>1. PICK kept \in SUBSET Past :
          /\ emb = {Own(r) : r \in kept}
          /\ resp = [e \in Entry |-> IF e \in emb THEN CHOOSE r \in kept : Own(r) = e ELSE None]
    BY DEF Init
  <2>2. kept \subseteq Requests /\ emb \subseteq Entry
    BY <2>1, ChatAssumption, OwnEntry
  <2>3. ASSUME NEW e \in Entry, resp[e] # None
        PROVE  resp[e] \in kept /\ Own(resp[e]) = e
    BY <2>1, <2>3
  <2>4. ASSUME NEW r \in kept PROVE Given(r)
    <3>1. req[r] = PastRequest(r)
      BY <2>2 DEF Init
    <3> QED
      BY <3>1 DEF Given, PastRequest, NewRequest
  <2> QED
    BY <2>1, <2>2, <2>3, <2>4 DEF Filled
<1> QED
  BY <1>1, <1>2 DEF IInv, Locals, Local, Init

\* One request's state becomes x: nobody else's answer changes.
LEMMA OneMoves ==
  ASSUME Locals, NEW r \in Requests, NEW x, req' = [req EXCEPT ![r] = x], Fits(r, x),
         req[r].phase = "ask" \/ (x.answer = req[r].answer /\ x.blank = req[r].blank)
  PROVE  Locals' /\ Lasting
<1>1. DOMAIN req' = Requests /\ req'[r] = x /\ \A o \in Requests \ {r} : req'[o] = req[o]
  BY DEF Locals
<1>2. Lasting
  BY <1>1, OwnEntry DEF Lasting, Given, Locals, Local, Fits
<1>3. ASSUME NEW o \in Requests, NEW y, Fits(o, y), req'[o] = y PROVE Local(o)'
  BY <1>2, <1>3 DEF Lasting, Local, Fits, Serves, Matches, Own
<1>4. ASSUME NEW o \in Requests PROVE Local(o)'
  <2>1. CASE o = r
    BY <1>1, <1>3, <2>1
  <2>2. CASE o # r
    BY <1>1, <1>3, <2>2 DEF Locals, Local
  <2> QED
    BY <2>1, <2>2
<1>5. Locals'
  BY <1>1, <1>4 DEF Locals
<1> QED
  BY <1>2, <1>5

\* No entry is written, though some may be dropped.
LEMMA Keeps ==
  ASSUME Filled, Lasting, emb' \subseteq Entry, DOMAIN resp' = Entry,
         \A e \in Entry : resp'[e] \in {resp[e], None}
  PROVE  Filled'
BY DEF Filled, Lasting, Own, Entry

\* A record of which only other fields than the answer's change.
Alike(x, y) == /\ DOMAIN y = Fields
               /\ y.phase = x.phase /\ y.answer = x.answer /\ y.blank = x.blank
               /\ y.hit = x.hit

LEMMA Alikes ==
  ASSUME NEW r \in Requests, NEW x, Fits(r, x), NEW y, Alike(x, y),
         y.pc \in {"new", "arrived", "scan", "fetch", "answer", "streaming"} => y.phase = "ask",
         y.pc \in SummaryPcs \cup FillPcs => y.phase = "answer",
         y.pc \in FillPcs => ~(r \in Streams /\ y.blank),
         y.pc = "fetch" => Matches(r, y.hit)
  PROVE  Fits(r, y)
BY DEF Fits, Alike

LEMMA NewPc ==
  ASSUME NEW x, DOMAIN x = Fields, NEW p
  PROVE  Alike(x, [x EXCEPT !.pc = p]) /\ [x EXCEPT !.pc = p].pc = p
BY DEF Alike, Fields

LEMMA NewPush ==
  ASSUME NEW x, DOMAIN x = Fields, NEW ph, NEW todo
  PROVE  LET y == Stores(x, ph, todo)
         IN /\ DOMAIN y = Fields /\ y.pc = "push" /\ y.phase = ph
            /\ y.answer = x.answer /\ y.blank = x.blank /\ y.hit = x.hit
BY DEF Stores, Fields

\* Once its message is stored, or is not, a request goes on as its phase says.
LEMMA StoredOn ==
  ASSUME NEW r \in Requests, Fits(r, req[r])
  PROVE  Fits(r, Stored(r)) /\ Alike(req[r], Stored(r))
<1> DEFINE x == req[r]
           nx == CASE x.phase = "ask" -> "scan"
                   [] x.phase = "hit" -> IF r \in Streams THEN "replaying" ELSE "reply"
                   [] x.phase = "answer" -> "history"
           y == [x EXCEPT !.todo = <<>>, !.pc = nx]
<1>1. DOMAIN x = Fields /\ x.phase \in {"ask", "answer", "hit"}
  BY DEF Fits
<1>2. CASE Tail(x.todo) # <<>>
  <2>1. Stored(r) = Stores(x, x.phase, Tail(x.todo))
    BY <1>2 DEF Stored
  <2>2. Alike(x, Stored(r)) /\ Stored(r).pc = "push"
    BY <1>1, <2>1, NewPush DEF Alike
  <2> QED
    BY <2>2, Alikes DEF SummaryPcs, FillPcs
<1>3. CASE Tail(x.todo) = <<>>
  <2>1. Stored(r) = y
    BY <1>3 DEF Stored
  <2>2. Alike(x, y) /\ y.pc = nx
    BY <1>1 DEF Alike, Fields
  <2>3. \/ x.phase = "ask" /\ nx = "scan"
        \/ x.phase = "hit" /\ nx \in {"replaying", "reply"}
        \/ x.phase = "answer" /\ nx = "history"
    BY <1>1
  <2>4. y.phase = x.phase /\ y.pc = nx
    BY <2>2 DEF Alike
  <2> HIDE DEF y, nx
  <2>5. Fits(r, y)
    BY <2>2, <2>3, <2>4, Alikes DEF SummaryPcs, FillPcs
  <2> QED
    BY <2>1, <2>2, <2>5
<1> QED
  BY <1>2, <1>3

\* A request goes to a point of the same phase.
LEMMA Goes ==
  ASSUME Locals, NEW r \in Requests, NEW p, Goto(r, p), p # "fetch",
         p \in {"new", "arrived", "scan", "answer", "streaming"} => req[r].phase = "ask",
         p \in SummaryPcs \cup FillPcs => req[r].phase = "answer",
         p \in FillPcs => ~(r \in Streams /\ req[r].blank)
  PROVE  Locals' /\ Lasting
<1> DEFINE y == [req[r] EXCEPT !.pc = p]
<1>1. Fits(r, req[r]) /\ DOMAIN req[r] = Fields
  BY DEF Locals, Local, Fits
<1>2. Alike(req[r], y) /\ y.pc = p
  BY <1>1, NewPc
<1>3. req' = [req EXCEPT ![r] = y]
  BY DEF Goto
<1> HIDE DEF y
<1>4. y.phase = req[r].phase /\ y.blank = req[r].blank /\ y.answer = req[r].answer
  BY <1>2 DEF Alike
<1>5. Fits(r, y)
  BY <1>1, <1>2, <1>4, Alikes
<1> QED
  BY <1>3, <1>4, <1>5, OneMoves

\* The steps that neither write the cache nor touch the answer.
LEMMA Stays == Filled /\ Lasting /\ UNCHANGED cache => Filled'
  BY Keeps DEF cache, Filled

LEMMA IStore ==
  ASSUME IInv, NEW r \in Requests, Store(r)
  PROVE  Locals' /\ Lasting /\ UNCHANGED cache
<1>1. Locals /\ Fits(r, req[r])
  BY DEF IInv, Locals, Local
<1>s. Becomes(r, Stored(r)) => Locals' /\ Lasting
  <2>1. Fits(r, Stored(r)) /\ Alike(req[r], Stored(r))
    BY <1>1, StoredOn
  <2> QED
    BY <1>1, <2>1, OneMoves DEF Becomes, Alike
<1>2. CASE Push(r) \/ Expire(r) \/ Trim(r)
  BY <1>1, <1>2, Goes DEF Push, Expire, Trim, SummaryPcs, FillPcs
<1>3. CASE Weigh(r)
  <2> PICK n \in 0 .. Len(hist[Session[r]]) :
             Becomes(r, IF n = 0 THEN Stored(r) ELSE [req[r] EXCEPT !.pc = "pop", !.drop = n])
    BY <1>3 DEF Weigh
  <2> DEFINE y == [req[r] EXCEPT !.pc = "pop", !.drop = n]
  <2>1. Becomes(r, Stored(r)) \/ Becomes(r, y)
    OBVIOUS
  <2>2. Alike(req[r], y) /\ y.pc = "pop"
    BY <1>1 DEF Fits, Alike, Fields
  <2> HIDE DEF y
  <2>3. Fits(r, y)
    BY <1>1, <2>2, Alikes DEF SummaryPcs, FillPcs
  <2>4. Becomes(r, y) => Locals' /\ Lasting
    BY <1>1, <2>2, <2>3, OneMoves DEF Becomes, Alike
  <2>5. Locals' /\ Lasting
    BY <1>s, <2>1, <2>4
  <2> QED
    BY <1>3, <2>5 DEF Weigh, cache
<1>4. CASE Pop(r)
  BY <1>s, <1>4 DEF Pop, cache
<1> QED
  BY <1>2, <1>3, <1>4 DEF Store, Push, Expire, Trim, cache

LEMMA ISummary ==
  ASSUME IInv, NEW r \in Requests, Summary(r)
  PROVE  Locals' /\ Lasting /\ UNCHANGED cache
<1>1. Locals /\ Fits(r, req[r]) /\ req[r].pc \in SummaryPcs
  BY DEF IInv, Locals, Local, Summary, ReadHistory, Summarise, Delete, Replace, At, SummaryPcs
<1>2. req[r].phase = "answer"
  BY <1>1 DEF Fits
<1>3. /\ Fills(r) \in {"reply", "embedding"}
      /\ Fills(r) \in FillPcs => ~(r \in Streams /\ req[r].blank)
  BY DEF Fills, FillPcs
<1>4. Goto(r, Fills(r)) \/ Goto(r, "delete") \/ Goto(r, "replace") => Locals' /\ Lasting
  BY <1>1, <1>2, <1>3, Goes DEF SummaryPcs, FillPcs
<1>5. ASSUME NEW p \in {"summarise", Fills(r)}, NEW list,
             Becomes(r, [req[r] EXCEPT !.pc = p, !.read = list])
      PROVE  Locals' /\ Lasting
  <2> DEFINE y == [req[r] EXCEPT !.pc = p, !.read = list]
  <2>1. Alike(req[r], y) /\ y.pc = p
    BY <1>1 DEF Fits, Alike, Fields
  <2>2. req' = [req EXCEPT ![r] = y]
    BY <1>5 DEF Becomes
  <2> HIDE DEF y
  <2>3. y.phase = "answer" /\ y.blank = req[r].blank /\ y.answer = req[r].answer
    BY <1>2, <2>1 DEF Alike
  <2>4. p \in FillPcs => ~(r \in Streams /\ req[r].blank)
    BY <1>3 DEF FillPcs
  <2>5. p \in {"summarise", "reply", "embedding"}
    BY <1>3
  <2>6. Fits(r, y)
    BY <1>1, <2>1, <2>3, <2>4, <2>5, Alikes
  <2> QED
    BY <1>1, <2>2, <2>3, <2>6, OneMoves
<1>6. Locals' /\ Lasting
  BY <1>4, <1>5 DEF Summary, ReadHistory, Summarise, Delete, Replace
<1> QED
  BY <1>6 DEF Summary, ReadHistory, Summarise, Delete, Replace, cache

LEMMA ICached ==
  ASSUME IInv, NEW r \in Requests, Cached(r)
  PROVE  IInv'
<1>1. Locals /\ Filled /\ Fits(r, req[r]) /\ DOMAIN req[r] = Fields
  BY DEF IInv, Locals, Local, Fits
<1> DEFINE x == req[r]
<1>2. CASE Scan(r)
  <2>1. x.pc = "scan" /\ x.phase = "ask" /\ UNCHANGED cache
    BY <1>1, <1>2 DEF Scan, At, Fits
  <2>2. ASSUME NEW e \in Best(r), Becomes(r, [x EXCEPT !.pc = "fetch", !.hit = e])
        PROVE  Locals' /\ Lasting
    <3> DEFINE y == [x EXCEPT !.pc = "fetch", !.hit = e]
    <3>1. Matches(r, e)
      BY <1>1, <2>2, OwnEntry DEF Best, Entries, Matches, Filled
    <3>2. /\ y.pc = "fetch" /\ y.hit = e /\ y.phase = x.phase /\ y.answer = x.answer
          /\ y.blank = x.blank /\ DOMAIN y = Fields
      BY <1>1 DEF Fields
    <3>3. req' = [req EXCEPT ![r] = y]
      BY <2>2 DEF Becomes
    <3> HIDE DEF y
    <3>4. Fits(r, y)
      BY <1>1, <2>1, <3>1, <3>2 DEF Fits, SummaryPcs, FillPcs
    <3> QED
      BY <1>1, <3>2, <3>3, <3>4, OneMoves
  <2>3. Goto(r, "answer") => Locals' /\ Lasting
    BY <1>1, <2>1, Goes DEF SummaryPcs, FillPcs
  <2>4. Locals' /\ Lasting
    BY <1>2, <2>2, <2>3 DEF Scan
  <2> QED
    BY <1>1, <2>1, <2>4, Stays DEF IInv
<1>3. CASE Fetch(r)
  <2>1. x.pc = "fetch" /\ x.phase = "ask" /\ UNCHANGED cache /\ Matches(r, x.hit)
    BY <1>1, <1>3 DEF Fetch, At, Fits
  <2>2. CASE resp[x.hit] = None
    <3>1. Goto(r, "answer")
      BY <1>3, <2>2 DEF Fetch
    <3>2. Locals' /\ Lasting
      BY <1>1, <2>1, <3>1, Goes DEF SummaryPcs, FillPcs
    <3> QED
      BY <1>1, <2>1, <3>2, Stays DEF IInv
  <2>3. CASE resp[x.hit] # None
    <3> DEFINE o == resp[x.hit]
               z == Stores(x, "hit", <<"assistant">>)
               y == [z EXCEPT !.answer = o]
    <3>1. /\ o \in Requests /\ Given(o) /\ Own(o) = x.hit
      BY <1>1, <2>1, <2>3 DEF Filled, Matches
    <3>2. Serves(o, r)
      BY <2>1, <3>1 DEF Serves
    <3>3. DOMAIN z = Fields /\ z.pc = "push" /\ z.phase = "hit"
      BY <1>1, NewPush
    <3>4. req' = [req EXCEPT ![r] = y]
      BY <1>3, <2>3 DEF Fetch, Becomes
    <3> HIDE DEF z, o
    <3>5. y.pc = "push" /\ y.phase = "hit" /\ y.answer = o /\ DOMAIN y = Fields
      BY <3>3 DEF Fields
    <3> HIDE DEF y
    <3>6. Fits(r, y)
      BY <3>2, <3>5 DEF Fits, SummaryPcs, FillPcs
    <3>7. Locals' /\ Lasting
      BY <1>1, <2>1, <3>4, <3>6, OneMoves
    <3> QED
      BY <1>1, <2>1, <3>7, Stays DEF IInv
  <2> QED
    BY <2>2, <2>3
<1>4. CASE FillEmbedding(r)
  <2>1. x.phase = "answer"
    BY <1>1, <1>4 DEF FillEmbedding, At, Fits, FillPcs
  <2>2. ~(r \in Streams /\ x.blank)
    BY <1>1, <1>4 DEF FillEmbedding, At, Fits, FillPcs
  <2>3. Locals' /\ Lasting
    BY <1>1, <1>4, <2>1, <2>2, Goes DEF FillEmbedding, SummaryPcs, FillPcs
  <2>4. emb' \subseteq Entry /\ resp' = resp
    BY <1>1, <1>4, OwnEntry DEF FillEmbedding, Filled
  <2> QED
    BY <1>1, <2>3, <2>4, Keeps DEF IInv, Filled
<1>5. CASE FillResponse(r)
  <2>1. x.phase = "answer" /\ ~(r \in Streams /\ x.blank)
    BY <1>1, <1>5 DEF FillResponse, At, Fits, FillPcs
  <2>2. x.answer = r
    BY <1>1, <2>1 DEF Fits
  <2>3. Locals' /\ Lasting
    BY <1>1, <1>5, Goes DEF FillResponse, SummaryPcs, FillPcs
  <2>4. Given(r)
    BY <2>1, <2>2 DEF Given
  <2>5. emb' = emb /\ resp' = [resp EXCEPT ![Own(r)] = r]
    BY <1>5 DEF FillResponse
  <2>6. ASSUME NEW e \in Entry, resp'[e] # None
        PROVE  resp'[e] \in Requests /\ Given(resp'[e]) /\ Own(resp'[e]) = e
    BY <1>1, <2>4, <2>5, <2>6 DEF Filled
  <2>7. ASSUME NEW e \in Entry, resp'[e] # None
        PROVE  (resp[e] \in Requests /\ Given(resp[e]) /\ Own(resp[e]) = e)'
    <3> DEFINE o == resp'[e]
    <3>1. o \in Requests /\ Given(o) /\ Own(o) = e
      BY <2>6, <2>7
    <3>2. o \in Requests /\ req'[o].answer = o /\ ~(o \in Streams /\ req'[o].blank)
      BY <2>3, <3>1 DEF Lasting, Given
    <3> QED
      BY <3>1, <3>2 DEF Given, Own
  <2> QED
    BY <1>1, <2>3, <2>5, <2>7 DEF IInv, Filled
<1> QED
  BY <1>2, <1>3, <1>4, <1>5 DEF Cached

LEMMA IPipeline ==
  ASSUME IInv, NEW r \in Requests, Arrive(r) \/ Pipeline(r)
  PROVE  Locals' /\ Lasting /\ UNCHANGED cache
<1>1. Locals /\ Fits(r, req[r]) /\ DOMAIN req[r] = Fields
  BY DEF IInv, Locals, Local, Fits
<1> DEFINE x == req[r]
<1>2. CASE Arrive(r)
  BY <1>1, <1>2, Goes DEF Arrive, Fits, cache, SummaryPcs, FillPcs
<1>3. CASE Proceed(r)
  <2> DEFINE y == Stores(x, "ask", <<"user">>)
  <2>1. x.phase = "ask" /\ req' = [req EXCEPT ![r] = y]
    BY <1>1, <1>3 DEF Proceed, Becomes, Fits
  <2>2. /\ y.pc = "push" /\ y.phase = "ask" /\ y.answer = x.answer
        /\ y.blank = x.blank /\ DOMAIN y = Fields
    BY <1>1, NewPush
  <2> HIDE DEF y
  <2>3. Fits(r, y)
    BY <1>1, <2>1, <2>2 DEF Fits, SummaryPcs, FillPcs
  <2> QED
    BY <1>1, <1>3, <2>1, <2>3, OneMoves DEF Proceed, cache
<1>4. ASSUME NEW todo, NEW blank \in BOOLEAN, x.phase = "ask",
             Becomes(r, [Stores(x, "answer", todo) EXCEPT !.answer = r, !.blank = blank])
      PROVE  Locals' /\ Lasting
  <2> DEFINE z == Stores(x, "answer", todo)
             y == [z EXCEPT !.answer = r, !.blank = blank]
  <2>1. req' = [req EXCEPT ![r] = y]
    BY <1>4 DEF Becomes
  <2>2. z.pc = "push" /\ z.phase = "answer" /\ DOMAIN z = Fields
    BY <1>1, NewPush
  <2> HIDE DEF z
  <2>3. y.pc = "push" /\ y.phase = "answer" /\ y.answer = r /\ DOMAIN y = Fields
    BY <2>2 DEF Fields
  <2> HIDE DEF y
  <2>4. Fits(r, y)
    BY <2>3, OwnEntry DEF Fits, SummaryPcs, FillPcs
  <2> QED
    BY <1>1, <1>4, <2>1, <2>4, OneMoves
<1>5. CASE Answer(r)
  <2>1. x.phase = "ask"
    BY <1>1, <1>5 DEF Answer, At, Fits
  <2>2. Goto(r, "streaming") => Locals' /\ Lasting
    BY <1>1, <2>1, Goes DEF SummaryPcs, FillPcs
  <2> QED
    BY <1>4, <1>5, <2>1, <2>2 DEF Answer, cache
<1>6. CASE StreamEnds(r)
  <2>1. x.phase = "ask"
    BY <1>1, <1>6 DEF StreamEnds, At, Fits
  <2> QED
    BY <1>4, <1>6, <2>1 DEF StreamEnds, cache
<1>7. CASE Reply(r)
  BY <1>1, <1>7, Goes DEF Reply, cache, SummaryPcs, FillPcs
<1> QED
  BY <1>2, <1>3, <1>5, <1>6, <1>7 DEF Pipeline

LEMMA IInterrupted ==
  ASSUME IInv, NEW r \in Requests, Interrupted(r)
  PROVE  Locals' /\ Lasting /\ UNCHANGED cache
<1>1. Locals /\ Fits(r, req[r]) /\ DOMAIN req[r] = Fields
  BY DEF IInv, Locals, Local, Fits
<1>2. Goto(r, "failed") \/ Goto(r, "refused") => Locals' /\ Lasting
  BY <1>1, Goes DEF SummaryPcs, FillPcs
<1>3. CASE CommandFails(r)
  <2>1. Becomes(r, Stored(r)) => Locals' /\ Lasting
    <3>1. Fits(r, Stored(r)) /\ Alike(req[r], Stored(r))
      BY <1>1, StoredOn
    <3> QED
      BY <1>1, <3>1, OneMoves DEF Becomes, Alike
  <2>2. req[r].pc \in CachePcs /\ Goto(r, "answer") => Locals' /\ Lasting
    BY <1>1, Goes DEF CachePcs, SummaryPcs, FillPcs, Fits
  <2>3. ASSUME req[r].pc \in {"history", "delete", "replace"},
               Becomes(r, [req[r] EXCEPT !.pc = Fills(r), !.read = <<>>])
        PROVE  Locals' /\ Lasting
    <3> DEFINE y == [req[r] EXCEPT !.pc = Fills(r), !.read = <<>>]
    <3>1. Alike(req[r], y) /\ y.pc = Fills(r)
      BY <1>1 DEF Alike, Fields
    <3>2. req' = [req EXCEPT ![r] = y]
      BY <2>3 DEF Becomes
    <3> HIDE DEF y
    <3>3. req[r].phase = "answer"
      BY <1>1, <2>3 DEF Fits, SummaryPcs
    <3>4. y.phase = "answer" /\ y.blank = req[r].blank /\ y.answer = req[r].answer
      BY <3>1, <3>3 DEF Alike
    <3>5. /\ Fills(r) \in {"reply", "embedding"}
          /\ Fills(r) \in FillPcs => ~(r \in Streams /\ req[r].blank)
      BY DEF Fills, FillPcs
    <3>6. Fits(r, y)
      BY <1>1, <3>1, <3>4, <3>5, Alikes
    <3> QED
      BY <1>1, <3>2, <3>4, <3>6, OneMoves
  <2>4. Goto(r, "reply") => Locals' /\ Lasting
    BY <1>1, Goes DEF SummaryPcs, FillPcs
  <2> QED
    BY <1>3, <2>1, <2>2, <2>3, <2>4 DEF CommandFails, cache
<1> QED
  BY <1>2, <1>3 DEF Interrupted, Abort, Refuse, AnswerFails, Leave, cache

LEMMA IRestart ==
  ASSUME IInv, NEW p \in Processes, Restart(p)
  PROVE  IInv'
<1>1. Locals /\ Filled
  BY DEF IInv
<1>2. ASSUME NEW r \in Requests
      PROVE  req'[r] = req[r] \/ req'[r] = [req[r] EXCEPT !.pc = "failed"]
  BY DEF Restart
<1>3. ASSUME NEW r \in Requests
      PROVE  Fits(r, req'[r]) /\ Alike(req[r], req'[r])
  <2> DEFINE y == [req[r] EXCEPT !.pc = "failed"]
  <2>1. Fits(r, req[r]) /\ DOMAIN req[r] = Fields
    BY <1>1 DEF Locals, Local, Fits
  <2>2. Alike(req[r], y) /\ y.pc = "failed" /\ Alike(req[r], req[r])
    BY <2>1, NewPc DEF Alike
  <2> HIDE DEF y
  <2>3. Fits(r, y)
    BY <2>1, <2>2, Alikes DEF SummaryPcs, FillPcs
  <2>4. req'[r] = req[r] \/ req'[r] = y
    BY <1>2 DEF y
  <2> QED
    BY <2>1, <2>2, <2>3, <2>4
<1>4. Lasting
  BY <1>3 DEF Lasting, Given, Alike
<1>5. ASSUME NEW r \in Requests PROVE Local(r)'
  <2>1. Fits(r, req'[r])
    BY <1>3
  <2> QED
    BY <1>4, <2>1 DEF Local, Fits, Lasting, Serves, Matches, Own
<1>6. Locals'
  BY <1>5 DEF Locals, Restart
<1> QED
  BY <1>1, <1>4, <1>6, Stays DEF IInv, Restart

LEMMA INext == IInv /\ [Next]_vars => IInv'
<1> SUFFICES ASSUME IInv, [Next]_vars PROVE IInv'
  OBVIOUS
<1>1. Filled /\ Locals
  BY DEF IInv
<1>2. Locals' /\ Lasting /\ UNCHANGED cache => IInv'
  BY <1>1, Stays DEF IInv
<1>3. UNCHANGED req => Locals' /\ Lasting
  BY <1>1 DEF Locals, Local, Fits, Serves, Given, Matches, Own, Lasting
<1>4. ASSUME NEW r \in Requests, Arrive(r) \/ RequestStep(r) \/ Interrupted(r)
      PROVE  IInv'
  BY <1>2, <1>4, IStore, ISummary, ICached, IPipeline, IInterrupted DEF RequestStep
<1>5. ASSUME NEW r \in Requests, NEW role \in Roles, TaskStep(r, role) \/ SaveFails(r, role)
      PROVE  IInv'
  BY <1>2, <1>3, <1>5 DEF TaskStep, Find, Insert, Save, SaveFails
<1>6. CASE Expiry
  <2>1. UNCHANGED req
    BY <1>6 DEF Expiry, ExpireSession, ExpireEmbedding, ExpireResponse
  <2>2. /\ emb' \subseteq Entry /\ DOMAIN resp' = Entry
        /\ \A e \in Entry : resp'[e] \in {resp[e], None}
    BY <1>1, <1>6 DEF Expiry, ExpireSession, ExpireEmbedding, ExpireResponse, cache, Filled
  <2> QED
    BY <1>1, <1>3, <2>1, <2>2, Keeps DEF IInv
<1>7. CASE UNCHANGED vars
  BY <1>2, <1>3, <1>7 DEF vars
<1> QED
  BY <1>4, <1>5, <1>6, <1>7, IRestart DEF Next

\* ServedOwn: however many replicas fill, scan and expire the cache at the same
\* time, an answer taken from it was given in full to the same user for a question
\* that the threshold accepts.
THEOREM AnswersAreOwn == Spec => []ServedOwn
<1>1. IInv => ServedOwn
  BY DEF IInv, Locals, Local, Fits, ServedOwn, Serves, Given, Matches, Own
<1> QED
  BY <1>1, IInit, INext, PTL DEF Spec

-----------------------------------------------------------------------------
(* What a summary replaces. *)

OneReplica == \A r, o \in Requests : Process[r] = Process[o]

\* From the read of a history to its replacement the list is what was read, unless
\* it has expired.
Settled(r) ==
  req[r].pc \in {"summarise", "delete"} => hist[Session[r]] \in {req[r].read, <<>>}

FInv == DOMAIN hist = Sessions /\ \A r \in Requests : Settled(r)

\* Every step of a request waits for the loop of its process.
LEMMA Loops ==
  ASSUME NEW r \in Requests, Arrive(r) \/ RequestStep(r) \/ Interrupted(r)
  PROVE  HasLoop(r)
BY DEF RequestStep, Interrupted, Store, Summary, Cached, Pipeline, Arrive, Push, Expire, Trim,
   Weigh, Pop, ReadHistory, Summarise, Delete, Replace, Scan, Fetch, FillEmbedding,
   FillResponse, Proceed, Answer, StreamEnds, Reply, Abort, Refuse, AnswerFails, Leave,
   CommandFails, At, LoopFree

\* A step of a request changes the state of that request alone.
LEMMA Alone ==
  ASSUME NEW r \in Requests, Arrive(r) \/ RequestStep(r) \/ Interrupted(r)
  PROVE  \E y : req' = [req EXCEPT ![r] = y]
BY DEF RequestStep, Interrupted, Store, Summary, Cached, Pipeline, Arrive, Push, Expire, Trim,
   Weigh, Pop, ReadHistory, Summarise, Delete, Replace, Scan, Fetch, FillEmbedding,
   FillResponse, Proceed, Answer, StreamEnds, Reply, Abort, Refuse, AnswerFails, Leave,
   CommandFails, Goto, Becomes

\* Only a summary's own steps lead to the points before the replacement.
LEMMA Reaches ==
  ASSUME Locals, NEW r \in Requests, Arrive(r) \/ RequestStep(r) \/ Interrupted(r),
         req'[r].pc \in {"summarise", "delete"}
  PROVE  ReadHistory(r) \/ Summarise(r)
<1> DEFINE x == req[r]
<1>1. Fits(r, x) /\ DOMAIN x = Fields /\ DOMAIN req = Requests
  BY DEF Locals, Local, Fits
<1>2. Fills(r) \in {"reply", "embedding"}
  BY DEF Fills
<1>3. ASSUME NEW p, Goto(r, p), p \notin {"summarise", "delete"} PROVE FALSE
  BY <1>1, <1>3 DEF Goto, Fields
<1>4. ASSUME NEW y, Becomes(r, y), y.pc \notin {"summarise", "delete"} PROVE FALSE
  BY <1>1, <1>4 DEF Becomes
<1>5. Stored(r).pc \notin {"summarise", "delete"}
  <2> DEFINE nx == CASE x.phase = "ask" -> "scan"
                     [] x.phase = "hit" -> IF r \in Streams THEN "replaying" ELSE "reply"
                     [] x.phase = "answer" -> "history"
  <2>1. nx \in {"scan", "replaying", "reply", "history"}
    BY <1>1 DEF Fits
  <2> HIDE DEF nx
  <2>2. [x EXCEPT !.todo = <<>>, !.pc = nx].pc = nx
    BY <1>1 DEF Fields
  <2>3. \/ Stored(r) = Stores(x, x.phase, Tail(x.todo))
        \/ Stored(r) = [x EXCEPT !.todo = <<>>, !.pc = nx]
    BY DEF Stored, nx
  <2>4. Stores(x, x.phase, Tail(x.todo)).pc = "push"
    BY <1>1, NewPush
  <2> QED
    BY <2>1, <2>2, <2>3, <2>4
<1>6. ASSUME Arrive(r) \/ Push(r) \/ Expire(r) \/ Trim(r) \/ Delete(r) \/ FillEmbedding(r)
             \/ FillResponse(r) \/ Reply(r) \/ Abort(r) \/ Refuse(r) \/ AnswerFails(r)
             \/ Leave(r)
      PROVE  FALSE
  BY <1>3, <1>6 DEF Arrive, Push, Expire, Trim, Delete, FillEmbedding, FillResponse, Reply,
     Abort, Refuse, AnswerFails, Leave
<1>7. ASSUME Weigh(r) \/ Pop(r) PROVE FALSE
  <2>1. \A n : [x EXCEPT !.pc = "pop", !.drop = n].pc = "pop"
    BY <1>1 DEF Fields
  <2>2. ASSUME NEW n, Becomes(r, [x EXCEPT !.pc = "pop", !.drop = n]) PROVE FALSE
    BY <1>4, <2>1, <2>2
  <2> QED
    BY <1>4, <1>5, <1>7, <2>2 DEF Weigh, Pop
<1>8. ASSUME NEW list, Becomes(r, [x EXCEPT !.pc = Fills(r), !.read = list]) PROVE FALSE
  <2>1. [x EXCEPT !.pc = Fills(r), !.read = list].pc = Fills(r)
    BY <1>1 DEF Fields
  <2> QED
    BY <1>2, <1>4, <1>8, <2>1
<1>9. ASSUME Replace(r) PROVE FALSE
  BY <1>8, <1>9 DEF Replace
<1>10. ASSUME CommandFails(r) PROVE FALSE
  BY <1>3, <1>4, <1>5, <1>8, <1>10 DEF CommandFails
<1>11. ASSUME Scan(r) \/ Fetch(r) PROVE FALSE
  <2>1. \A e : [x EXCEPT !.pc = "fetch", !.hit = e].pc = "fetch"
    BY <1>1 DEF Fields
  <2>2. ASSUME NEW o PROVE [Stores(x, "hit", <<"assistant">>) EXCEPT !.answer = o].pc = "push"
    BY <1>1, NewPush DEF Fields
  <2>3. ASSUME NEW e, Becomes(r, [x EXCEPT !.pc = "fetch", !.hit = e]) PROVE FALSE
    BY <1>4, <2>1, <2>3
  <2>4. ASSUME NEW o, Becomes(r, [Stores(x, "hit", <<"assistant">>) EXCEPT !.answer = o])
        PROVE  FALSE
    BY <1>4, <2>2, <2>4
  <2> QED
    BY <1>3, <1>11, <2>3, <2>4 DEF Scan, Fetch
<1>12. ASSUME Proceed(r) \/ Answer(r) \/ StreamEnds(r) PROVE FALSE
  <2>1. Stores(x, "ask", <<"user">>).pc = "push"
    BY <1>1, NewPush
  <2>2. ASSUME NEW todo, NEW b,
               Becomes(r, [Stores(x, "answer", todo) EXCEPT !.answer = r, !.blank = b])
        PROVE  FALSE
    <3>1. [Stores(x, "answer", todo) EXCEPT !.answer = r, !.blank = b].pc = "push"
      BY <1>1, NewPush DEF Fields
    <3> QED
      BY <1>4, <2>2, <3>1
  <2> QED
    BY <1>3, <1>4, <1>12, <2>1, <2>2 DEF Proceed, Answer, StreamEnds
<1> QED
  BY <1>6, <1>7, <1>9, <1>10, <1>11, <1>12
     DEF RequestStep, Interrupted, Store, Summary, Cached, Pipeline

LEMMA FNext == ASSUME OneReplica PROVE IInv /\ FInv /\ [Next]_vars => FInv'
<1> SUFFICES ASSUME IInv, FInv, [Next]_vars PROVE FInv'
  OBVIOUS
<1>1. Locals /\ DOMAIN req = Requests /\ \A r \in Requests : DOMAIN req[r] = Fields
  BY DEF IInv, Locals, Local, Fits
<1>2. DOMAIN hist' = Sessions
  <2>0. DOMAIN hist = Sessions
    BY DEF FInv
  <2>1. ASSUME NEW r \in Requests, Store(r) PROVE DOMAIN hist' = Sessions
    BY <2>0, <2>1 DEF Store, Push, Expire, Trim, Weigh, Pop, redis
  <2>2. ASSUME NEW r \in Requests, Summary(r) PROVE DOMAIN hist' = Sessions
    BY <2>0, <2>2 DEF Summary, ReadHistory, Summarise, Delete, Replace, redis
  <2>3. ASSUME NEW r \in Requests, Arrive(r) \/ Cached(r) \/ Pipeline(r) \/ Interrupted(r)
        PROVE  UNCHANGED redis
    BY <2>3 DEF Arrive, Cached, Pipeline, Interrupted, Scan, Fetch, FillEmbedding, FillResponse,
       Proceed, Answer, StreamEnds, Reply, Abort, Refuse, AnswerFails, Leave, CommandFails
  <2>4. ASSUME NEW r \in Requests, NEW role \in Roles, TaskStep(r, role) \/ SaveFails(r, role)
        PROVE  UNCHANGED redis
    BY <2>4 DEF TaskStep, Find, Insert, Save, SaveFails
  <2>5. ASSUME Expiry PROVE DOMAIN hist' = Sessions
    BY <2>0, <2>5 DEF Expiry, ExpireSession, ExpireEmbedding, ExpireResponse, redis
  <2>6. ASSUME NEW p \in Processes, Restart(p) PROVE UNCHANGED redis
    BY <2>6 DEF Restart
  <2>7. UNCHANGED vars => UNCHANGED redis
    BY DEF vars
  <2>8. UNCHANGED redis => DOMAIN hist' = Sessions
    BY <2>0 DEF redis
  <2> QED
    BY <2>1, <2>2, <2>3, <2>4, <2>5, <2>6, <2>7, <2>8 DEF Next, RequestStep
<1>3. ASSUME NEW r \in Requests PROVE Settled(r)'
  <2> SUFFICES ASSUME req'[r].pc \in {"summarise", "delete"}
               PROVE  hist'[Session[r]] \in {req'[r].read, <<>>}
    BY DEF Settled
  <2>0. Settled(r) /\ Session[r] \in Sessions
    BY ChatAssumption DEF FInv
  <2>1. UNCHANGED <<req, hist>> => hist'[Session[r]] \in {req'[r].read, <<>>}
    BY <2>0 DEF Settled
  <2>2. ASSUME NEW o \in Requests, Arrive(o) \/ RequestStep(o) \/ Interrupted(o)
        PROVE  hist'[Session[r]] \in {req'[r].read, <<>>}
    <3>1. CASE o # r
      <4>1. req'[r] = req[r]
        <5>1. PICK y : req' = [req EXCEPT ![o] = y]
          BY <2>2, Alone
        <5> QED
          BY <1>1, <3>1, <5>1
      <4>2. req[r].pc \in Waiting
        BY <2>2, <3>1, Loops DEF HasLoop, OneReplica
      <4> QED
        BY <4>1, <4>2 DEF Waiting, Ended
    <3>2. CASE o = r
      <4>1. CASE ReadHistory(r)
        <5> DEFINE y == [req[r] EXCEPT !.pc = "summarise", !.read = hist[Session[r]]]
        <5>1. y.read = hist[Session[r]]
          BY <1>1 DEF Fields
        <5>2. Fills(r) \notin {"summarise", "delete"}
          BY DEF Fills
        <5>3. ~Goto(r, Fills(r))
          BY <1>1, <5>2 DEF Goto, Fields
        <5>4. req'[r] = y /\ hist' = hist
          BY <1>1, <4>1, <5>3 DEF ReadHistory, Becomes, redis
        <5> QED
          BY <5>1, <5>4
      <4>2. CASE Summarise(r)
        <5>1. req[r].pc = "summarise" /\ hist' = hist
          BY <4>2 DEF Summarise, At, redis
        <5>2. req'[r].read = req[r].read
          BY <1>1, <4>2 DEF Summarise, Goto, Fields
        <5> QED
          BY <2>0, <5>1, <5>2 DEF Settled
      <4> QED
        BY <1>1, <2>2, <3>2, <4>1, <4>2, Reaches
    <3> QED
      BY <3>1, <3>2
  <2>3. ASSUME NEW o \in Requests, NEW role \in Roles, TaskStep(o, role) \/ SaveFails(o, role)
        PROVE  hist'[Session[r]] \in {req'[r].read, <<>>}
    BY <2>1, <2>3 DEF TaskStep, Find, Insert, Save, SaveFails, redis
  <2>4. CASE Expiry
    <3>1. ASSUME NEW s \in Sessions, ExpireSession(s)
          PROVE  hist'[Session[r]] \in {req'[r].read, <<>>}
      <4>1. req' = req /\ hist' = [hist EXCEPT ![s] = <<>>]
        BY <3>1 DEF ExpireSession
      <4> QED
        BY <2>0, <4>1 DEF Settled, FInv
    <3> QED
      BY <2>1, <2>4, <3>1 DEF Expiry, ExpireEmbedding, ExpireResponse, redis
  <2>5. ASSUME NEW p \in Processes, Restart(p)
        PROVE  hist'[Session[r]] \in {req'[r].read, <<>>}
    <3>1. hist' = hist /\ (req'[r] = req[r] \/ req'[r] = [req[r] EXCEPT !.pc = "failed"])
      BY <2>5 DEF Restart, redis
    <3>2. [req[r] EXCEPT !.pc = "failed"].pc = "failed"
      BY <1>1 DEF Fields
    <3> QED
      BY <2>0, <3>1, <3>2 DEF Settled
  <2>6. CASE UNCHANGED vars
    BY <2>1, <2>6 DEF vars, redis
  <2> QED
    BY <2>2, <2>3, <2>4, <2>5, <2>6 DEF Next
<1> QED
  BY <1>2, <1>3 DEF FInv

\* SummaryFresh: with one server process, a summary replaces exactly the history it
\* was made from, unless that has expired.
THEOREM SummariesAreFresh == ASSUME OneReplica PROVE Spec => []SummaryFresh
<1>1. Init => FInv
  <2> SUFFICES ASSUME Init PROVE FInv
    OBVIOUS
  <2>1. DOMAIN hist = Sessions
    BY DEF Init
  <2>2. ASSUME NEW r \in Requests PROVE req[r].pc \in {"new", "served"}
    BY DEF Init, PastRequest, NewRequest
  <2> QED
    BY <2>1, <2>2 DEF FInv, Settled
<1>2. FInv => SummaryFresh
  BY DEF FInv, Settled, SummaryFresh
<1> QED
  BY <1>1, <1>2, IInit, INext, FNext, PTL DEF Spec

-----------------------------------------------------------------------------
(* What is stored of an answer. *)

Todos == {<<>>, <<"user">>, <<"assistant">>, <<"user", "assistant">>}

\* The request has yet to store its question for the last time.
Asking(x) == x.phase = "ask" \/ x.todo = <<"user", "assistant">>

Plain(x) ==
  /\ x.todo \in Todos /\ x.drop \in Nat /\ x.read \in Seq(Message)
  /\ x.pc \in StorePcs => x.todo # <<>>
  /\ x.phase = "ask" => x.todo \in {<<>>, <<"user">>}
  /\ x.todo = <<"user">> => x.phase = "ask"
  /\ x.phase # "ask" => x.answer # None
  /\ x.pc \in {"reply", "replaying"} => x.phase # "ask"

\* What a step of a request makes of its state.
Onward(r) ==
  /\ Plain(req'[r])
  /\ req'[r].phase = "ask" => req[r].phase = "ask"
  /\ Asking(req'[r]) => Asking(req[r])
  /\ req'[r].read \in {req[r].read, hist[Session[r]], <<>>}
  /\ req'[r].pc = "replace" => Delete(r)

LEMMA TodoTails ==
  /\ Tail(<<"user">>) = <<>> /\ Tail(<<"assistant">>) = <<>>
  /\ Tail(<<"user", "assistant">>) = <<"assistant">>
  /\ Head(<<"user">>) = "user" /\ Head(<<"assistant">>) = "assistant"
  /\ Head(<<"user", "assistant">>) = "user"
OBVIOUS

LEMMA TodoDiffer ==
  /\ <<"user">> # <<>> /\ <<"assistant">> # <<>> /\ <<"user", "assistant">> # <<>>
  /\ <<"user">> # <<"assistant">> /\ <<"user">> # <<"user", "assistant">>
  /\ <<"assistant">> # <<"user", "assistant">>
OBVIOUS

\* Only other fields change than those that say what is left to store.
LEMMA SameTurn ==
  ASSUME Locals, NEW r \in Requests, Plain(req[r]), hist[Session[r]] \in Seq(Message),
         NEW y, req' = [req EXCEPT ![r] = y],
         y.phase = req[r].phase, y.todo = req[r].todo, y.answer = req[r].answer,
         y.drop \in Nat, y.read \in {req[r].read, hist[Session[r]], <<>>},
         y.pc \in StorePcs => req[r].pc \in StorePcs,
         y.pc \in {"reply", "replaying"} => req[r].phase # "ask",
         y.pc = "replace" => Delete(r)
  PROVE  Onward(r)
<1>1. req'[r] = y
  BY DEF Locals
<1>2. y.read \in Seq(Message)
  <2>1. req[r].read \in Seq(Message) /\ <<>> \in Seq(Message)
    BY DEF Plain
  <2> QED
    BY <2>1
<1>3. Plain(y)
  BY <1>2 DEF Plain
<1> QED
  BY <1>1, <1>3 DEF Onward, Asking

LEMMA OnGoto ==
  ASSUME Locals, NEW r \in Requests, Plain(req[r]), hist[Session[r]] \in Seq(Message),
         NEW p, Goto(r, p),
         p \in StorePcs => req[r].pc \in StorePcs,
         p \in {"reply", "replaying"} => req[r].phase # "ask",
         p = "replace" => Delete(r)
  PROVE  Onward(r)
<1> DEFINE x == req[r]
           y == [x EXCEPT !.pc = p]
<1>1. DOMAIN x = Fields
  BY DEF Locals, Local, Fits
<1>2. /\ y.phase = x.phase /\ y.todo = x.todo /\ y.answer = x.answer /\ y.drop = x.drop
      /\ y.read = x.read /\ y.pc = p
  BY <1>1 DEF Fields
<1>3. req' = [req EXCEPT ![r] = y]
  BY DEF Goto
<1>4. x.drop \in Nat
  BY DEF Plain
<1> HIDE DEF y
<1> QED
  BY <1>2, <1>3, <1>4, SameTurn

\* Something else is to be stored.
LEMMA OtherTurn ==
  ASSUME Locals, NEW r \in Requests, Plain(req[r]),
         NEW y, req' = [req EXCEPT ![r] = y], y.pc = "push", y.drop = 0, y.read = req[r].read,
         \/ /\ y.phase = "ask" /\ y.todo = <<"user">> /\ req[r].phase = "ask"
         \/ /\ y.phase # "ask" /\ y.answer # None
            /\ \/ y.todo = <<"assistant">>
               \/ y.todo = <<"user", "assistant">> /\ req[r].phase = "ask"
  PROVE  Onward(r)
<1>1. req'[r] = y
  BY DEF Locals
<1>2. y.read \in Seq(Message) /\ y.drop \in Nat
  BY DEF Plain
<1>3. Plain(y)
  BY <1>2, TodoDiffer DEF Plain, Todos
<1> QED
  BY <1>1, <1>3, TodoDiffer DEF Onward, Asking

LEMMA OnStored ==
  ASSUME Locals, NEW r \in Requests, Plain(req[r]), hist[Session[r]] \in Seq(Message),
         req[r].pc \in StorePcs, Becomes(r, Stored(r))
  PROVE  Onward(r)
<1> DEFINE x == req[r]
           nx == CASE x.phase = "ask" -> "scan"
                   [] x.phase = "hit" -> IF r \in Streams THEN "replaying" ELSE "reply"
                   [] x.phase = "answer" -> "history"
<1>1. /\ DOMAIN x = Fields /\ x.phase \in {"ask", "answer", "hit"}
      /\ req' = [req EXCEPT ![r] = Stored(r)]
  BY DEF Locals, Local, Fits, Becomes
<1>2. x.todo \in Todos /\ x.todo # <<>>
  BY DEF Plain
<1>3. CASE x.todo = <<"user", "assistant">>
  <2> DEFINE y == Stores(x, x.phase, <<"assistant">>)
  <2>1. Stored(r) = y
    BY <1>3, TodoTails, TodoDiffer DEF Stored
  <2>2. /\ y.pc = "push" /\ y.drop = 0 /\ y.read = x.read /\ y.phase = x.phase
        /\ y.todo = <<"assistant">> /\ y.answer = x.answer
    BY <1>1 DEF Stores, Fields
  <2>3. x.phase # "ask" /\ x.answer # None
    BY <1>3, TodoDiffer DEF Plain
  <2> HIDE DEF y
  <2> QED
    BY <1>1, <2>1, <2>2, <2>3, OtherTurn
<1>4. CASE x.todo # <<"user", "assistant">>
  <2> DEFINE y == [x EXCEPT !.todo = <<>>, !.pc = nx]
  <2>1. Stored(r) = y
    BY <1>2, <1>4, TodoTails DEF Stored, Todos
  <2>2. /\ y.pc = nx /\ y.drop = x.drop /\ y.read = x.read /\ y.phase = x.phase
        /\ y.todo = <<>> /\ y.answer = x.answer
    BY <1>1 DEF Fields
  <2>3. \/ x.phase = "ask" /\ nx = "scan"
        \/ x.phase = "hit" /\ nx \in {"replaying", "reply"}
        \/ x.phase = "answer" /\ nx = "history"
    BY <1>1
  <2>4. req'[r] = y
    BY <1>1, <2>1 DEF Locals
  <2> HIDE DEF y, nx
  <2>5. y.pc \notin StorePcs /\ y.pc # "replace" /\ (y.pc \in {"reply", "replaying"} => y.phase # "ask")
    BY <2>2, <2>3 DEF StorePcs
  <2>6. Plain(y)
    BY <2>2, <2>5, TodoDiffer DEF Plain, Todos
  <2> QED
    BY <2>2, <2>4, <2>5, <2>6, TodoDiffer DEF Onward, Asking
<1> QED
  BY <1>3, <1>4

LEMMA OStore ==
  ASSUME Locals, NEW r \in Requests, Plain(req[r]), hist[Session[r]] \in Seq(Message), Store(r)
  PROVE  Onward(r)
<1>1. req[r].pc \in StorePcs /\ DOMAIN req[r] = Fields
  BY DEF Store, Push, Expire, Trim, Weigh, Pop, At, StorePcs, Locals, Local, Fits
<1>2. CASE Push(r) \/ Expire(r) \/ Trim(r)
  BY <1>1, <1>2, OnGoto DEF Push, Expire, Trim
<1>3. CASE Weigh(r)
  <2> PICK n \in 0 .. Len(hist[Session[r]]) :
             Becomes(r, IF n = 0 THEN Stored(r) ELSE [req[r] EXCEPT !.pc = "pop", !.drop = n])
    BY <1>3 DEF Weigh
  <2> DEFINE y == [req[r] EXCEPT !.pc = "pop", !.drop = n]
  <2>1. CASE Becomes(r, y)
    <3>1. /\ y.phase = req[r].phase /\ y.todo = req[r].todo /\ y.answer = req[r].answer
          /\ y.drop = n /\ y.read = req[r].read /\ y.pc = "pop"
      BY <1>1 DEF Fields
    <3>2. req' = [req EXCEPT ![r] = y]
      BY <2>1 DEF Becomes
    <3>3. n \in Nat
      OBVIOUS
    <3> HIDE DEF y
    <3> QED
      BY <1>1, <3>1, <3>2, <3>3, SameTurn
  <2>2. CASE Becomes(r, Stored(r))
    BY <1>1, <2>2, OnStored
  <2> QED
    BY <2>1, <2>2
<1>4. CASE Pop(r)
  BY <1>1, <1>4, OnStored DEF Pop
<1> QED
  BY <1>2, <1>3, <1>4 DEF Store

LEMMA OSummary ==
  ASSUME Locals, NEW r \in Requests, Plain(req[r]), hist[Session[r]] \in Seq(Message), Summary(r)
  PROVE  Onward(r)
<1>1. req[r].pc \in SummaryPcs /\ DOMAIN req[r] = Fields /\ req[r].phase = "answer"
  BY DEF Summary, ReadHistory, Summarise, Delete, Replace, At, SummaryPcs, Locals, Local, Fits
<1>2. Fills(r) \in {"reply", "embedding"}
  BY DEF Fills
<1>3. ASSUME NEW p \in {"summarise", Fills(r)}, NEW list \in {hist[Session[r]], <<>>},
             Becomes(r, [req[r] EXCEPT !.pc = p, !.read = list])
      PROVE  Onward(r)
  <2> DEFINE y == [req[r] EXCEPT !.pc = p, !.read = list]
  <2>1. /\ y.phase = req[r].phase /\ y.todo = req[r].todo /\ y.answer = req[r].answer
        /\ y.drop = req[r].drop /\ y.read = list /\ y.pc = p
    BY <1>1 DEF Fields
  <2>2. req' = [req EXCEPT ![r] = y]
    BY <1>3 DEF Becomes
  <2>3. p \in {"summarise", "reply", "embedding"} /\ req[r].drop \in Nat
    BY <1>2 DEF Plain
  <2> HIDE DEF y
  <2> QED
    BY <1>1, <2>1, <2>2, <2>3, SameTurn DEF StorePcs
<1>4. ASSUME NEW p \in {Fills(r), "delete"}, Goto(r, p) PROVE Onward(r)
  <2>1. p \in {"reply", "embedding", "delete"}
    BY <1>2
  <2>2. p \notin StorePcs /\ p # "replace" /\ req[r].phase # "ask"
    BY <1>1, <2>1 DEF StorePcs
  <2> QED
    BY <1>4, <2>2, OnGoto
<1>5. Delete(r) => Onward(r)
  BY <1>1, OnGoto DEF Delete, StorePcs
<1> QED
  BY <1>3, <1>4, <1>5 DEF Summary, ReadHistory, Summarise, Replace

LEMMA OCached ==
  ASSUME Locals, NEW r \in Requests, Plain(req[r]), hist[Session[r]] \in Seq(Message), Cached(r)
  PROVE  Onward(r)
<1> DEFINE x == req[r]
<1>1. /\ DOMAIN x = Fields /\ x.drop \in Nat
      /\ x.pc \in FillPcs => x.phase = "answer"
  BY DEF Locals, Local, Fits, Plain
<1>2. ASSUME NEW p \in {"answer", "response", "reply"}, Goto(r, p), p = "reply" => x.phase = "answer"
      PROVE  Onward(r)
  BY <1>2, OnGoto DEF StorePcs
<1>3. CASE FillEmbedding(r) \/ FillResponse(r)
  BY <1>1, <1>2, <1>3 DEF FillEmbedding, FillResponse, At, FillPcs
<1>4. ASSUME NEW e, Becomes(r, [x EXCEPT !.pc = "fetch", !.hit = e]) PROVE Onward(r)
  <2> DEFINE y == [x EXCEPT !.pc = "fetch", !.hit = e]
  <2>1. /\ y.phase = x.phase /\ y.todo = x.todo /\ y.answer = x.answer
        /\ y.drop = x.drop /\ y.read = x.read /\ y.pc = "fetch"
    BY <1>1 DEF Fields
  <2>2. req' = [req EXCEPT ![r] = y]
    BY <1>4 DEF Becomes
  <2> HIDE DEF y
  <2> QED
    BY <1>1, <2>1, <2>2, SameTurn DEF StorePcs
<1>5. ASSUME NEW o, o # None, Becomes(r, [Stores(x, "hit", <<"assistant">>) EXCEPT !.answer = o])
      PROVE  Onward(r)
  <2> DEFINE y == [Stores(x, "hit", <<"assistant">>) EXCEPT !.answer = o]
  <2>1. /\ y.pc = "push" /\ y.drop = 0 /\ y.read = x.read /\ y.phase = "hit"
        /\ y.todo = <<"assistant">> /\ y.answer = o
    BY <1>1 DEF Stores, Fields
  <2>2. req' = [req EXCEPT ![r] = y]
    BY <1>5 DEF Becomes
  <2> HIDE DEF y
  <2> QED
    BY <1>5, <2>1, <2>2, OtherTurn
<1>6. CASE Scan(r)
  BY <1>2, <1>4, <1>6 DEF Scan
<1>7. CASE Fetch(r)
  BY <1>2, <1>5, <1>7 DEF Fetch
<1> QED
  BY <1>3, <1>6, <1>7 DEF Cached

LEMMA OPipeline ==
  ASSUME Locals, NEW r \in Requests, Plain(req[r]), hist[Session[r]] \in Seq(Message),
         Arrive(r) \/ Pipeline(r)
  PROVE  Onward(r)
<1> DEFINE x == req[r]
<1>1. /\ DOMAIN x = Fields
      /\ x.pc \in {"arrived", "answer", "streaming"} => x.phase = "ask"
  BY DEF Locals, Local, Fits
<1>2. ASSUME NEW p \in {"arrived", "streaming", "served"}, Goto(r, p) PROVE Onward(r)
  BY <1>2, OnGoto DEF StorePcs
<1>3. ASSUME NEW todo \in {<<"assistant">>, <<"user", "assistant">>}, NEW blank,
             x.phase = "ask",
             Becomes(r, [Stores(x, "answer", todo) EXCEPT !.answer = r, !.blank = blank])
      PROVE  Onward(r)
  <2> DEFINE y == [Stores(x, "answer", todo) EXCEPT !.answer = r, !.blank = blank]
  <2>1. /\ y.pc = "push" /\ y.drop = 0 /\ y.read = x.read /\ y.phase = "answer"
        /\ y.todo = todo /\ y.answer = r
    BY <1>1 DEF Stores, Fields
  <2>2. req' = [req EXCEPT ![r] = y]
    BY <1>3 DEF Becomes
  <2>3. y.phase # "ask" /\ y.answer # None
    BY <2>1, OwnEntry
  <2> HIDE DEF y
  <2> QED
    BY <1>3, <2>1, <2>2, <2>3, OtherTurn
<1>4. CASE Proceed(r)
  <2> DEFINE y == Stores(x, "ask", <<"user">>)
  <2>1. /\ y.pc = "push" /\ y.drop = 0 /\ y.read = x.read /\ y.phase = "ask"
        /\ y.todo = <<"user">>
    BY <1>1 DEF Stores, Fields
  <2>2. req' = [req EXCEPT ![r] = y] /\ x.phase = "ask"
    BY <1>1, <1>4 DEF Becomes, Proceed
  <2> HIDE DEF y
  <2> QED
    BY <2>1, <2>2, OtherTurn
<1>5. CASE Answer(r) \/ StreamEnds(r)
  BY <1>1, <1>2, <1>3, <1>5 DEF Answer, StreamEnds, At
<1>6. CASE Arrive(r) \/ Reply(r)
  BY <1>2, <1>6 DEF Arrive, Reply
<1> QED
  BY <1>4, <1>5, <1>6 DEF Pipeline

LEMMA OInterrupted ==
  ASSUME Locals, NEW r \in Requests, Plain(req[r]), hist[Session[r]] \in Seq(Message),
         Interrupted(r)
  PROVE  Onward(r)
<1> DEFINE x == req[r]
<1>1. /\ DOMAIN x = Fields /\ x.drop \in Nat
      /\ x.pc \in FillPcs \cup SummaryPcs => x.phase = "answer"
  BY DEF Locals, Local, Fits, Plain
<1>2. ASSUME NEW p \in {"failed", "refused", "answer", "reply"}, Goto(r, p),
             p = "reply" => x.phase = "answer"
      PROVE  Onward(r)
  BY <1>2, OnGoto DEF StorePcs
<1>3. CASE CommandFails(r)
  <2>1. CASE x.pc \in StorePcs /\ Becomes(r, Stored(r))
    BY <2>1, OnStored
  <2>2. CASE \/ x.pc \in CachePcs /\ Goto(r, "answer")
             \/ x.pc \in FillPcs /\ Goto(r, "reply")
    BY <1>1, <1>2, <2>2
  <2>3. CASE /\ x.pc \in {"history", "delete", "replace"}
             /\ Becomes(r, [x EXCEPT !.pc = Fills(r), !.read = <<>>])
    <3> DEFINE y == [x EXCEPT !.pc = Fills(r), !.read = <<>>]
    <3>1. /\ y.phase = x.phase /\ y.todo = x.todo /\ y.answer = x.answer
          /\ y.drop = x.drop /\ y.read = <<>> /\ y.pc = Fills(r)
      BY <1>1 DEF Fields
    <3>2. req' = [req EXCEPT ![r] = y] /\ x.phase = "answer"
      BY <1>1, <2>3 DEF Becomes, SummaryPcs
    <3>3. Fills(r) \in {"reply", "embedding"}
      BY DEF Fills
    <3> HIDE DEF y
    <3> QED
      BY <1>1, <3>1, <3>2, <3>3, SameTurn DEF StorePcs
  <2> QED
    BY <1>3, <2>1, <2>2, <2>3 DEF CommandFails
<1> QED
  BY <1>2, <1>3 DEF Interrupted, Abort, Refuse, AnswerFails, Leave

LEMMA OStep ==
  ASSUME Locals, NEW r \in Requests, Plain(req[r]), hist[Session[r]] \in Seq(Message),
         Arrive(r) \/ RequestStep(r) \/ Interrupted(r)
  PROVE  Onward(r)
BY OStore, OSummary, OCached, OPipeline, OInterrupted DEF RequestStep

-----------------------------------------------------------------------------
\* The list holds an answer of the request.
Says(list, r) == \E i \in DOMAIN list : list[i].role = "assistant" /\ list[i].req = r

\* No summary follows a message, no question its answer.
Ordered(list) ==
  \A i, j \in DOMAIN list : i < j =>
    /\ list[j].role # "summary"
    /\ ~(/\ list[i].role = "assistant" /\ list[j].role = "user"
         /\ list[i].req = list[j].req)

\* What is left of a list at its end.
LEMMA LastParts ==
  ASSUME NEW list \in Seq(Message), NEW n \in 0 .. Len(list)
  PROVE  /\ LastOf(n, list) \in Seq(Message) /\ Len(LastOf(n, list)) = n
         /\ \A i \in 1 .. n : /\ LastOf(n, list)[i] = list[Len(list) - n + i]
                              /\ Len(list) - n + i \in 1 .. Len(list)
<1> DEFINE a == Len(list) - n + 1
           l == SubSeq(list, a, Len(list))
<1>1. Len(list) \in Nat /\ n \in Nat /\ a \in 1 .. Len(list) + 1 /\ Len(list) - a + 1 = n
  OBVIOUS
<1>2. l \in Seq(Message) /\ Len(l) = n
  <2>1. a \in Nat
    BY <1>1
  <2>2. \A k \in a .. Len(list) : list[k] \in Message
    BY <1>1
  <2> HIDE DEF a
  <2>3. l \in Seq(Message)
    BY <1>1, <2>1, <2>2
  <2>4. Len(l) = IF a <= Len(list) THEN Len(list) - a + 1 ELSE 0
    BY <1>1, <2>1
  <2>5. a <= Len(list) \/ n = 0
    BY <1>1
  <2> QED
    BY <1>1, <2>3, <2>4, <2>5
<1>3. ASSUME NEW i \in 1 .. n
      PROVE  l[i] = list[Len(list) - n + i] /\ Len(list) - n + i \in 1 .. Len(list)
  <2>1. Len(list) - n + i \in 1 .. Len(list) /\ a + i - 1 = Len(list) - n + i
    BY <1>1
  <2> HIDE DEF a
  <2>2. i \in Nat /\ 1 <= i /\ i <= Len(list) - a + 1 /\ a \in Nat
    BY <1>1
  <2>3. l[i] = list[a + i - 1]
    BY <1>1, <2>2
  <2> QED
    BY <2>1, <2>3
<1>4. LastOf(n, list) = l
  BY DEF LastOf
<1> QED
  BY <1>2, <1>3, <1>4

LEMMA LastKeeps ==
  ASSUME NEW list \in Seq(Message), NEW n \in 0 .. Len(list)
  PROVE  /\ LastOf(n, list) \in Seq(Message)
         /\ \A r : Says(LastOf(n, list), r) => Says(list, r)
         /\ Ordered(list) => Ordered(LastOf(n, list))
<1> DEFINE l == LastOf(n, list)
           at(i) == Len(list) - n + i
<1>1. l \in Seq(Message) /\ DOMAIN l = 1 .. n /\ DOMAIN list = 1 .. Len(list)
  BY LastParts
<1>2. \A i \in DOMAIN l : l[i] = list[at(i)] /\ at(i) \in DOMAIN list
  BY <1>1, LastParts
<1>3. \A i, j \in DOMAIN l : i < j => at(i) < at(j)
  BY <1>1
<1> HIDE DEF l, at
<1>4. \A r : Says(l, r) => Says(list, r)
  BY <1>2 DEF Says
<1>5. Ordered(list) => Ordered(l)
  BY <1>2, <1>3 DEF Ordered
<1> QED
  BY <1>1, <1>4, <1>5 DEF l

LEMMA AppendKeeps ==
  ASSUME NEW list \in Seq(Message), NEW m \in Message
  PROVE  /\ Append(list, m) \in Seq(Message)
         /\ \A r : Says(Append(list, m), r) =>
              Says(list, r) \/ (m.role = "assistant" /\ m.req = r)
         /\ Ordered(list) /\ m.role # "summary" /\ (m.role = "user" => ~Says(list, m.req)) =>
              Ordered(Append(list, m))
<1> DEFINE l == Append(list, m)
<1>1. /\ l \in Seq(Message) /\ DOMAIN list = 1 .. Len(list)
      /\ DOMAIN l = DOMAIN list \cup {Len(list) + 1}
      /\ \A i \in DOMAIN list : l[i] = list[i] /\ i < Len(list) + 1 /\ ~(Len(list) + 1 < i)
      /\ l[Len(list) + 1] = m /\ ~(Len(list) + 1 < Len(list) + 1)
  OBVIOUS
<1> HIDE DEF l
<1>2. ASSUME NEW r, Says(l, r) PROVE Says(list, r) \/ (m.role = "assistant" /\ m.req = r)
  <2>1. PICK i \in DOMAIN l : l[i].role = "assistant" /\ l[i].req = r
    BY <1>2 DEF Says
  <2>2. i \in DOMAIN list \/ l[i] = m
    BY <1>1
  <2> QED
    BY <1>1, <2>1, <2>2 DEF Says
<1>3. ASSUME Ordered(list), m.role # "summary", m.role = "user" => ~Says(list, m.req)
      PROVE  Ordered(l)
  <2> SUFFICES ASSUME NEW i \in DOMAIN l, NEW j \in DOMAIN l, i < j
               PROVE  /\ l[j].role # "summary"
                      /\ ~(/\ l[i].role = "assistant" /\ l[j].role = "user"
                           /\ l[i].req = l[j].req)
    BY DEF Ordered
  <2>1. i \in DOMAIN list
    BY <1>1
  <2>2. CASE j \in DOMAIN list
    BY <1>1, <1>3, <2>1, <2>2 DEF Ordered
  <2>3. CASE j = Len(list) + 1
    BY <1>1, <1>3, <2>1, <2>3 DEF Says
  <2> QED
    BY <1>1, <2>2, <2>3
<1> QED
  BY <1>1, <1>2, <1>3 DEF l

\* The list a summary writes holds nothing but the summary and the end of what
\* was read.
LEMMA NewKeeps ==
  ASSUME NEW r \in Requests, NEW list \in Seq(Message), req[r].read \in Seq(Message)
  PROVE  /\ list \o NewHistory(r) \in Seq(Message)
         /\ \A o : Says(list \o NewHistory(r), o) => Says(list, o) \/ Says(req[r].read, o)
         /\ list = <<>> /\ Ordered(req[r].read) => Ordered(list \o NewHistory(r))
<1> DEFINE read == req[r].read
           end == IF Len(read) > 4 THEN LastOf(4, read) ELSE <<>>
           sum == [req |-> r, role |-> "summary"]
           new == <<sum>> \o end
           l == list \o new
<1>1. /\ end \in Seq(Message) /\ \A o : Says(end, o) => Says(read, o)
      /\ Ordered(read) => Ordered(end)
  <2>1. CASE Len(read) > 4
    <3>1. 4 \in 0 .. Len(read)
      BY <2>1
    <3> QED
      BY <2>1, <3>1, LastKeeps
  <2>2. CASE ~(Len(read) > 4)
    BY <2>2 DEF Says, Ordered
  <2> QED
    BY <2>1, <2>2
<1>2. Ordered(read) => \A i \in DOMAIN end : end[i].role # "summary"
  <2>1. CASE Len(read) > 4
    <3>1. 4 \in 0 .. Len(read) /\ end = LastOf(4, read)
      BY <2>1
    <3>2. /\ DOMAIN end = 1 .. 4
          /\ \A i \in 1 .. 4 : end[i] = read[Len(read) - 4 + i]
      <4>1. Len(LastOf(4, read)) = 4 /\ LastOf(4, read) \in Seq(Message)
        BY <3>1, LastParts
      <4>2. \A i \in 1 .. 4 : LastOf(4, read)[i] = read[Len(read) - 4 + i]
        BY <3>1, LastParts
      <4> QED
        BY <3>1, <4>1, <4>2
    <3>3. \A i \in 1 .. 4 : /\ 1 \in DOMAIN read /\ 1 < Len(read) - 4 + i
                           /\ Len(read) - 4 + i \in DOMAIN read
      BY <2>1
    <3> HIDE DEF end
    <3> QED
      BY <3>2, <3>3 DEF Ordered
  <2>2. CASE ~(Len(read) > 4)
    BY <2>2
  <2> QED
    BY <2>1, <2>2
<1>3. sum \in Message /\ sum.role = "summary"
  BY DEF Message
<1>4. NewHistory(r) = new
  BY DEF NewHistory
<1> HIDE DEF end, sum
<1>5. /\ new \in Seq(Message) /\ DOMAIN new = 1 .. Len(end) + 1 /\ DOMAIN end = 1 .. Len(end)
      /\ new[1] = sum /\ \A i \in 1 .. Len(end) : new[i + 1] = end[i]
      /\ Len(end) \in Nat
  BY <1>1, <1>3
<1> HIDE DEF new
<1>6. /\ l \in Seq(Message) /\ DOMAIN l = 1 .. Len(list) + Len(new) /\ DOMAIN list = 1 .. Len(list)
      /\ \A i \in 1 .. Len(list) : l[i] = list[i]
      /\ \A i \in 1 .. Len(new) : l[Len(list) + i] = new[i]
      /\ Len(new) = Len(end) + 1 /\ Len(list) \in Nat
  BY <1>5
<1> HIDE DEF l
<1>7. ASSUME NEW o, Says(l, o) PROVE Says(list, o) \/ Says(end, o)
  <2>1. PICK i \in DOMAIN l : l[i].role = "assistant" /\ l[i].req = o
    BY <1>7 DEF Says
  <2>2. CASE i \in DOMAIN list
    BY <1>6, <2>1, <2>2 DEF Says
  <2>3. CASE i \notin DOMAIN list
    <3> DEFINE k == i - Len(list)
    <3>1. k \in 1 .. Len(new) /\ Len(list) + k = i
      BY <1>6, <2>3
    <3>2. l[i] = new[k]
      BY <1>6, <3>1
    <3>3. k # 1
      BY <1>3, <1>5, <2>1, <3>2
    <3>4. k - 1 \in DOMAIN end /\ (k - 1) + 1 = k
      BY <1>5, <1>6, <3>1, <3>3
    <3>5. l[i] = end[k - 1]
      BY <1>5, <3>2, <3>4
    <3> QED
      BY <2>1, <3>4, <3>5 DEF Says
  <2> QED
    BY <2>2, <2>3
<1>8. ASSUME list = <<>>, Ordered(read) PROVE Ordered(l)
  <2>1. Len(list) = 0
    BY <1>8
  <2>2. DOMAIN l = 1 .. Len(end) + 1 /\ l[1] = sum
    BY <1>5, <1>6, <2>1
  <2>3. \A i \in DOMAIN l : i # 1 => i - 1 \in DOMAIN end /\ l[i] = end[i - 1]
    <3> SUFFICES ASSUME NEW i \in DOMAIN l, i # 1
                 PROVE  i - 1 \in DOMAIN end /\ l[i] = end[i - 1]
      OBVIOUS
    <3>1. i - 1 \in 1 .. Len(end) /\ i \in 1 .. Len(new) /\ (i - 1) + 1 = i
      BY <1>5, <1>6, <2>2
    <3>2. l[i] = new[i]
      BY <1>6, <2>1, <3>1
    <3> QED
      BY <1>5, <3>1, <3>2
  <2> SUFFICES ASSUME NEW i \in DOMAIN l, NEW j \in DOMAIN l, i < j
               PROVE  /\ l[j].role # "summary"
                      /\ ~(/\ l[i].role = "assistant" /\ l[j].role = "user"
                           /\ l[i].req = l[j].req)
    BY DEF Ordered
  <2>4. j # 1
    BY <2>2
  <2>5. l[j] = end[j - 1] /\ j - 1 \in DOMAIN end
    BY <2>3, <2>4
  <2>6. l[j].role # "summary"
    BY <1>2, <1>8, <2>5
  <2>7. CASE i = 1
    BY <1>3, <2>2, <2>6, <2>7
  <2>8. CASE i # 1
    <3>1. l[i] = end[i - 1] /\ i - 1 \in DOMAIN end
      BY <2>3, <2>8
    <3>2. i - 1 < j - 1
      BY <2>2
    <3> QED
      BY <1>1, <1>8, <2>5, <2>6, <3>1, <3>2 DEF Ordered
  <2> QED
    BY <2>7, <2>8
<1> QED
  BY <1>1, <1>4, <1>6, <1>7, <1>8 DEF l

-----------------------------------------------------------------------------
\* No answer of the request is in any history, nor in one that was read.
Unsaid(r) == /\ \A s \in Sessions : ~Says(hist[s], r)
             /\ \A o \in Requests : ~Says(req[o].read, r)

LInv == /\ hist \in [Sessions -> Seq(Message)]
        /\ \A r \in Requests : Plain(req[r])
        /\ \A r \in Requests : Asking(req[r]) => Unsaid(r)

\* The commands that change a history.
LEMMA Commands ==
  ASSUME NEW r \in Requests, Arrive(r) \/ RequestStep(r) \/ Interrupted(r)
  PROVE  hist' = hist \/ Push(r) \/ Trim(r) \/ Pop(r) \/ Delete(r) \/ Replace(r)
<1>1. CASE Arrive(r) \/ Cached(r) \/ Pipeline(r) \/ Interrupted(r)
  BY <1>1 DEF Arrive, Cached, Pipeline, Interrupted, Scan, Fetch, FillEmbedding, FillResponse,
     Proceed, Answer, StreamEnds, Reply, Abort, Refuse, AnswerFails, Leave, CommandFails, redis
<1>2. CASE Store(r) \/ Summary(r)
  BY <1>2 DEF Store, Summary, Expire, Weigh, ReadHistory, Summarise, redis
<1> QED
  BY <1>1, <1>2 DEF RequestStep

\* A command leaves the history its messages or the end of it, or makes it the
\* summary and the end of what was read, and adds no answer to what was there but
\* the request's own, once its question is stored for good.
LEMMA NewList ==
  ASSUME LInv, NEW r \in Requests, Arrive(r) \/ RequestStep(r) \/ Interrupted(r)
  PROVE  \E list \in Seq(Message) :
           /\ hist' = [hist EXCEPT ![Session[r]] = list]
           /\ \A o : Says(list, o) =>
                \/ Says(hist[Session[r]], o) \/ Says(req[r].read, o)
                \/ o = r /\ ~Asking(req[r])
           /\ /\ Ordered(hist[Session[r]]) /\ Ordered(req[r].read)
              /\ req[r].pc = "replace" => hist[Session[r]] = <<>>
              => Ordered(list)
<1> DEFINE old == hist[Session[r]]
           x == req[r]
<1>1. /\ Session[r] \in Sessions /\ old \in Seq(Message) /\ Plain(x)
      /\ x.read \in Seq(Message) /\ Len(old) \in Nat
  <2>1. Session[r] \in Sessions
    BY ChatAssumption
  <2>2. old \in Seq(Message) /\ Plain(x)
    BY <2>1 DEF LInv
  <2> QED
    BY <2>1, <2>2 DEF Plain
<1>2. CASE hist' = hist
  <2>1. hist' = [hist EXCEPT ![Session[r]] = old]
    BY <1>1, <1>2 DEF LInv
  <2> QED
    BY <1>1, <2>1
<1>3. CASE Push(r)
  <2> DEFINE m == [req |-> r, role |-> Head(x.todo)]
  <2>1. /\ hist' = [hist EXCEPT ![Session[r]] = Append(old, m)]
        /\ x.todo \in Todos /\ x.todo # <<>>
    BY <1>1, <1>3 DEF Push, At, Plain, StorePcs
  <2>2. \/ x.todo = <<"assistant">> /\ m.role = "assistant"
        \/ x.todo \in {<<"user">>, <<"user", "assistant">>} /\ m.role = "user"
    BY <2>1, TodoTails DEF Todos
  <2>3. m \in Message /\ m.req = r /\ m.role # "summary"
    BY <2>2 DEF Message, Roles
  <2>4. m.role = "assistant" => ~Asking(x)
    BY <1>1, <2>2, TodoDiffer DEF Plain, Asking
  <2>5. m.role = "user" => Asking(x)
    BY <1>1, <2>2, TodoDiffer DEF Plain, Asking
  <2>6. m.role = "user" => ~Says(old, r)
    BY <1>1, <2>5 DEF LInv, Unsaid
  <2> HIDE DEF m, old
  <2>7. Append(old, m) \in Seq(Message)
    BY <1>1, <2>3, AppendKeeps
  <2>8. \A o : Says(Append(old, m), o) => Says(old, o) \/ (o = r /\ ~Asking(x))
    BY <1>1, <2>3, <2>4, AppendKeeps
  <2>9. Ordered(old) => Ordered(Append(old, m))
    BY <1>1, <2>3, <2>6, AppendKeeps
  <2> QED
    BY <2>1, <2>7, <2>8, <2>9 DEF old
<1>4. ASSUME NEW n \in 0 .. Len(old), hist' = [hist EXCEPT ![Session[r]] = LastOf(n, old)]
      PROVE  \E list \in Seq(Message) :
               /\ hist' = [hist EXCEPT ![Session[r]] = list]
               /\ \A o : Says(list, o) => Says(old, o)
               /\ Ordered(old) => Ordered(list)
  BY <1>1, <1>4, LastKeeps
<1>5. CASE Trim(r)
  <2>1. Window \in Nat
    BY ChatAssumption DEF Window
  <2>2. CASE Len(old) > Window
    <3>1. Window \in 0 .. Len(old)
      BY <1>1, <2>1, <2>2
    <3>2. hist' = [hist EXCEPT ![Session[r]] = LastOf(Window, old)]
      BY <1>5, <2>2 DEF Trim
    <3> QED
      BY <1>4, <3>1, <3>2
  <2>3. CASE ~(Len(old) > Window)
    <3>1. hist' = [hist EXCEPT ![Session[r]] = old]
      BY <1>5, <2>3 DEF Trim
    <3> QED
      BY <1>1, <3>1
  <2> QED
    BY <2>2, <2>3
<1>6. CASE Pop(r)
  <2> DEFINE n == IF x.drop < Len(old) THEN x.drop ELSE Len(old)
  <2>1. x.drop \in Nat
    BY <1>1 DEF Plain
  <2>2. Len(old) - n \in 0 .. Len(old)
    BY <1>1, <2>1
  <2>3. hist' = [hist EXCEPT ![Session[r]] = LastOf(Len(old) - n, old)]
    BY <1>6 DEF Pop
  <2> QED
    BY <1>4, <2>2, <2>3
<1>7. CASE Delete(r)
  <2>1. hist' = [hist EXCEPT ![Session[r]] = <<>>]
    BY <1>7 DEF Delete
  <2>2. <<>> \in Seq(Message) /\ Ordered(<<>>) /\ \A o : ~Says(<<>>, o)
    BY DEF Ordered, Says
  <2> QED
    BY <2>1, <2>2
<1>8. CASE Replace(r)
  <2>1. hist' = [hist EXCEPT ![Session[r]] = old \o NewHistory(r)] /\ x.pc = "replace"
    BY <1>8 DEF Replace, At
  <2> HIDE DEF old
  <2>2. old \o NewHistory(r) \in Seq(Message)
    BY <1>1, NewKeeps
  <2>3. \A o : Says(old \o NewHistory(r), o) => Says(old, o) \/ Says(x.read, o)
    BY <1>1, NewKeeps
  <2>4. old = <<>> /\ Ordered(x.read) => Ordered(old \o NewHistory(r))
    BY <1>1, NewKeeps
  <2> QED
    BY <2>1, <2>2, <2>3, <2>4 DEF old
<1> QED
  BY <1>2, <1>3, <1>5, <1>6, <1>7, <1>8, Commands

\* An expiry empties a history and changes no request.
LEMMA Expires ==
  ASSUME DOMAIN hist = Sessions, Expiry
  PROVE  /\ req' = req /\ DOMAIN hist' = Sessions
         /\ \A s \in Sessions : hist'[s] \in {hist[s], <<>>}
<1>1. CASE \E s \in Sessions : ExpireSession(s)
  <2>1. PICK s \in Sessions : ExpireSession(s)
    BY <1>1
  <2> QED
    BY <2>1 DEF ExpireSession
<1>2. CASE \E e \in Entry : ExpireEmbedding(e) \/ ExpireResponse(e)
  BY <1>2 DEF ExpireEmbedding, ExpireResponse, redis
<1> QED
  BY <1>1, <1>2 DEF Expiry

\* A restart changes nothing of a request but where it is.
LEMMA Restarts ==
  ASSUME Locals, NEW p \in Processes, Restart(p)
  PROVE  /\ hist' = hist
         /\ \A r \in Requests :
              \/ req'[r] = req[r]
              \/ /\ req[r].pc # "refused" /\ req'[r].pc = "failed"
                 /\ \A f \in Fields \ {"pc"} : req'[r][f] = req[r][f]
<1>1. hist' = hist
  BY DEF Restart, redis
<1>2. ASSUME NEW r \in Requests, req'[r] # req[r]
      PROVE  req[r].pc \notin Ended /\ req'[r] = [req[r] EXCEPT !.pc = "failed"]
  BY <1>2 DEF Restart
<1>3. \A r \in Requests : DOMAIN req[r] = Fields
  BY DEF Locals, Local, Fits
<1>4. ASSUME NEW r \in Requests, req'[r] # req[r]
      PROVE  /\ req[r].pc # "refused" /\ req'[r].pc = "failed"
             /\ \A f \in Fields \ {"pc"} : req'[r][f] = req[r][f]
  BY <1>2, <1>3, <1>4 DEF Ended, Fields
<1> QED
  BY <1>1, <1>4

\* The steps of the tasks change neither requests nor histories.
LEMMA Tasks ==
  ASSUME NEW r \in Requests, NEW role \in Roles, TaskStep(r, role) \/ SaveFails(r, role)
  PROVE  req' = req /\ hist' = hist
BY DEF TaskStep, Find, Insert, Save, SaveFails, redis

LEMMA Silence == Ordered(<<>>) /\ \A r : ~Says(<<>>, r)
BY DEF Ordered, Says

\* The histories and requests of the past.
LEMMA FirstLists ==
  ASSUME Init
  PROVE  /\ hist \in [Sessions -> Seq(Message)]
         /\ \A s \in Sessions : Ordered(hist[s])
         /\ \A s \in Sessions, r \in Requests : Says(hist[s], r) => r \in Past
         /\ \A r \in Requests :
              /\ Plain(req[r]) /\ req[r].read = <<>> /\ req[r].pc \in {"new", "served"}
              /\ r \in Past => ~Asking(req[r]) /\ req[r].phase = "answer"
<1>1. ASSUME NEW s \in Sessions
      PROVE  hist[s] \in Seq(Message) /\ Ordered(hist[s]) /\ \A r : Says(hist[s], r) => r \in Past
  <2>1. CASE s \in ttl
    <3>1. PICK r \in Past : hist[s] = PastTurn(r)
      BY <2>1 DEF Init
    <3>2. r \in Requests
      BY ChatAssumption
    <3>3. PastTurn(r) \in Seq(Message)
      BY <3>2 DEF PastTurn, Message, Roles
    <3>4. /\ DOMAIN PastTurn(r) = {1, 2, 3}
          /\ PastTurn(r)[1].role = "user" /\ PastTurn(r)[2].role = "user"
          /\ PastTurn(r)[3].role = "assistant" /\ PastTurn(r)[3].req = r
      BY DEF PastTurn
    <3> QED
      BY <3>1, <3>3, <3>4 DEF Ordered, Says
  <2>2. CASE s \notin ttl
    <3>1. hist[s] = <<>>
      BY <2>2 DEF Init
    <3> QED
      BY <3>1, Silence
  <2> QED
    BY <2>1, <2>2
<1>2. ASSUME NEW r \in Requests
      PROVE  /\ Plain(req[r]) /\ req[r].read = <<>> /\ req[r].pc \in {"new", "served"}
             /\ r \in Past => ~Asking(req[r]) /\ req[r].phase = "answer"
  <2> DEFINE x == req[r]
  <2>1. /\ x.todo = <<>> /\ x.drop = 0 /\ x.read = <<>>
        /\ \/ r \in Past /\ x.pc = "served" /\ x.phase = "answer" /\ x.answer = r
           \/ r \notin Past /\ x.pc = "new" /\ x.phase = "ask" /\ x.answer = None
    BY DEF Init, PastRequest, NewRequest
  <2>2. x.read \in Seq(Message) /\ x.todo \in Todos /\ x.drop \in Nat
    BY <2>1 DEF Todos
  <2> HIDE DEF x
  <2>3. Plain(x)
    BY <2>1, <2>2, OwnEntry, TodoDiffer DEF Plain, StorePcs
  <2> QED
    BY <2>1, <2>3, TodoDiffer DEF Asking, x
<1>3. hist \in [Sessions -> Seq(Message)]
  <2>1. hist = [s \in Sessions |-> hist[s]]
    BY DEF Init
  <2> QED
    BY <1>1, <2>1
<1> QED
  BY <1>1, <1>2, <1>3

LEMMA LInit == Init => LInv
<1> SUFFICES ASSUME Init PROVE LInv
  OBVIOUS
<1>1. ASSUME NEW r \in Requests, Asking(req[r]) PROVE Unsaid(r)
  BY <1>1, FirstLists, Silence DEF Unsaid
<1> QED
  BY <1>1, FirstLists DEF LInv

LEMMA LNext == IInv /\ LInv /\ [Next]_vars => LInv'
<1> SUFFICES ASSUME IInv, LInv, [Next]_vars PROVE LInv'
  OBVIOUS
<1>1. Locals /\ DOMAIN req = Requests /\ DOMAIN hist = Sessions
  BY DEF IInv, Locals, LInv
<1>2. ASSUME NEW r \in Requests, Arrive(r) \/ RequestStep(r) \/ Interrupted(r)
      PROVE  LInv'
  <2>0. Session[r] \in Sessions
    BY ChatAssumption
  <2>1. Onward(r)
    BY <1>1, <1>2, <2>0, OStep DEF LInv
  <2>2. \A o \in Requests \ {r} : req'[o] = req[o]
    <3>1. PICK y : req' = [req EXCEPT ![r] = y]
      BY <1>2, Alone
    <3> QED
      BY <1>1, <3>1
  <2>3. PICK list \in Seq(Message) :
          /\ hist' = [hist EXCEPT ![Session[r]] = list]
          /\ \A o : Says(list, o) =>
               \/ Says(hist[Session[r]], o) \/ Says(req[r].read, o)
               \/ o = r /\ ~Asking(req[r])
    BY <1>2, NewList
  <2>4. hist' \in [Sessions -> Seq(Message)]
    BY <2>3 DEF LInv
  <2>5. ASSUME NEW o \in Requests PROVE Plain(req'[o])
    BY <2>1, <2>2 DEF LInv, Onward
  <2>6. ASSUME NEW o \in Requests, Asking(req'[o]) PROVE Unsaid(o)'
    <3>1. Asking(req[o]) /\ Unsaid(o)
      BY <2>1, <2>2, <2>6 DEF Onward, LInv
    <3>2. ASSUME NEW s \in Sessions PROVE ~Says(hist'[s], o)
      BY <1>1, <2>0, <2>3, <3>1 DEF Unsaid
    <3>3. ASSUME NEW q \in Requests PROVE ~Says(req'[q].read, o)
      <4>1. CASE q = r
        BY <2>0, <2>1, <3>1, <4>1, Silence DEF Unsaid, Onward
      <4>2. CASE q # r
        BY <2>2, <3>1, <4>2 DEF Unsaid
      <4> QED
        BY <4>1, <4>2
    <3> QED
      BY <3>2, <3>3 DEF Unsaid
  <2> QED
    BY <2>4, <2>5, <2>6 DEF LInv
<1>3. UNCHANGED <<req, hist>> => LInv'
  BY DEF LInv, Unsaid
<1>4. ASSUME NEW r \in Requests, NEW role \in Roles, TaskStep(r, role) \/ SaveFails(r, role)
      PROVE  LInv'
  BY <1>3, <1>4, Tasks
<1>5. CASE Expiry
  <2>1. /\ req' = req /\ DOMAIN hist' = Sessions
        /\ \A s \in Sessions : hist'[s] \in {hist[s], <<>>}
    BY <1>1, <1>5, Expires
  <2>2. hist' \in [Sessions -> Seq(Message)]
    <3>1. ASSUME NEW s \in Sessions, ExpireSession(s) PROVE hist' \in [Sessions -> Seq(Message)]
      <4>1. hist' = [hist EXCEPT ![s] = <<>>]
        BY <3>1 DEF ExpireSession
      <4>2. <<>> \in Seq(Message)
        OBVIOUS
      <4> QED
        BY <4>1, <4>2 DEF LInv
    <3> QED
      BY <1>5, <3>1 DEF Expiry, ExpireEmbedding, ExpireResponse, redis, LInv
  <2>3. ASSUME NEW r \in Requests, Asking(req'[r]) PROVE Unsaid(r)'
    BY <2>1, <2>3, Silence DEF LInv, Unsaid
  <2> QED
    BY <2>1, <2>2, <2>3 DEF LInv
<1>6. ASSUME NEW p \in Processes, Restart(p) PROVE LInv'
  <2>1. ASSUME NEW r \in Requests
        PROVE  /\ Plain(req'[r]) /\ req'[r].read = req[r].read
               /\ Asking(req'[r]) => Asking(req[r])
    <3>1. Plain(req[r])
      BY DEF LInv
    <3>2. CASE req'[r] = req[r]
      BY <3>1, <3>2
    <3>3. CASE req'[r] # req[r]
      <4>1. /\ req'[r].pc = "failed" /\ req'[r].phase = req[r].phase
            /\ req'[r].todo = req[r].todo /\ req'[r].drop = req[r].drop
            /\ req'[r].read = req[r].read /\ req'[r].answer = req[r].answer
        BY <1>1, <1>6, <3>3, Restarts DEF Fields
      <4> QED
        BY <3>1, <4>1 DEF Plain, Asking, StorePcs
    <3> QED
      BY <3>2, <3>3
  <2>2. hist' = hist
    BY <1>1, <1>6, Restarts
  <2> QED
    BY <2>1, <2>2 DEF LInv, Unsaid
<1>7. UNCHANGED vars => LInv'
  BY <1>3 DEF vars, redis
<1> QED
  BY <1>2, <1>4, <1>5, <1>6, <1>7 DEF Next

-----------------------------------------------------------------------------
(* Where an answer that was cut off may be. *)

\* The request has an answer, or was refused.
Kept(r) == req[r].phase # "ask" \/ req[r].pc = "refused"

\* A task, or a row, of an answer is there only once the request has it.
KInv == /\ task \in [Requests -> [Roles -> TaskPc]]
        /\ \A r \in Requests : task[r]["assistant"] # "none" => Kept(r)
        /\ \A m \in rows : m.role = "assistant" => m.req \in Requests /\ Kept(m.req)

\* A refused request makes no step, and only an answered or a refused one has its
\* answer persisted.
LEMMA Refusals ==
  ASSUME Locals, NEW r \in Requests, Plain(req[r]),
         Arrive(r) \/ RequestStep(r) \/ Interrupted(r)
  PROVE  /\ req[r].pc # "refused" /\ rows' = rows
         /\ \/ task' = task \/ task' = [task EXCEPT ![r]["user"] = "ready"]
            \/ /\ task' = [task EXCEPT ![r]["assistant"] = "ready"]
               /\ req'[r].phase # "ask" \/ req'[r].pc = "refused"
<1> DEFINE x == req[r]
<1>1. DOMAIN x = Fields
  BY DEF Locals, Local, Fits
<1>2. /\ x.pc # "refused" /\ rows' = rows
  <2>1. CASE Store(r)
    BY <2>1 DEF Store, Push, Expire, Trim, Weigh, Pop, At, postgres
  <2>2. CASE Summary(r)
    BY <2>2 DEF Summary, ReadHistory, Summarise, Delete, Replace, At, postgres
  <2>3. CASE Cached(r)
    BY <2>3 DEF Cached, Scan, Fetch, FillEmbedding, FillResponse, At, postgres
  <2>4. CASE Arrive(r) \/ Pipeline(r)
    BY <2>4 DEF Arrive, Pipeline, Proceed, Answer, StreamEnds, Reply, At, postgres
  <2>5. CASE Interrupted(r)
    BY <2>5 DEF Interrupted, Abort, Refuse, AnswerFails, Leave, CommandFails, At, postgres,
       StorePcs, CachePcs, FillPcs
  <2> QED
    BY <2>1, <2>2, <2>3, <2>4, <2>5 DEF RequestStep
<1>3. CASE Arrive(r)
  BY <1>2, <1>3 DEF Arrive, Persists
<1>4. CASE Reply(r)
  <2>1. x.phase # "ask" /\ Goto(r, "served") /\ Persists(r, "assistant")
    BY <1>4 DEF Reply, At, Plain
  <2>2. req'[r].phase = x.phase
    BY <1>1, <2>1 DEF Goto, Locals, Fields
  <2> QED
    BY <1>2, <2>1, <2>2 DEF Persists
<1>5. CASE Refuse(r)
  <2>1. req'[r].pc = "refused"
    BY <1>1, <1>5 DEF Refuse, Goto, Locals, Fields
  <2> QED
    BY <1>2, <1>5, <2>1 DEF Refuse, Persists
<1>6. ASSUME ~Arrive(r), ~Reply(r), ~Refuse(r) PROVE task' = task
  <2>1. CASE Store(r) \/ Summary(r)
    BY <2>1 DEF Store, Push, Expire, Trim, Weigh, Pop, Summary, ReadHistory, Summarise, Delete, Replace
  <2>2. CASE Cached(r) \/ Pipeline(r)
    BY <1>6, <2>2 DEF Cached, Scan, Fetch, FillEmbedding, FillResponse, Pipeline, Proceed, Answer, StreamEnds
  <2>3. CASE Interrupted(r)
    BY <1>6, <2>3 DEF Interrupted, Abort, AnswerFails, Leave, CommandFails
  <2> QED
    BY <1>6, <2>1, <2>2, <2>3 DEF RequestStep
<1> QED
  BY <1>2, <1>3, <1>4, <1>5, <1>6

\* What a task's step makes of the tasks and the rows.
LEMMA TaskMoves ==
  ASSUME KInv, NEW r \in Requests, NEW role \in Roles, TaskStep(r, role) \/ SaveFails(r, role)
  PROVE  /\ task[r][role] # "none" /\ req' = req
         /\ \E to \in TaskPc : task' = [task EXCEPT ![r][role] = to]
         /\ rows' \subseteq rows \cup {[req |-> r, role |-> role]}
<1>1. CASE Find(r, role)
  BY <1>1 DEF Find, Turn, Moves, TaskPc, postgres
<1>2. CASE Insert(r, role)
  BY <1>2 DEF Insert, Turn, Moves, TaskPc, postgres
<1>3. CASE Save(r, role)
  BY <1>3 DEF Save, Turn, Moves, TaskPc
<1>4. CASE SaveFails(r, role)
  BY <1>4 DEF SaveFails, Turn, Moves, TaskPc, postgres
<1> QED
  BY <1>1, <1>2, <1>3, <1>4 DEF TaskStep

LEMMA KNext == IInv /\ LInv /\ KInv /\ [Next]_vars => KInv'
<1> SUFFICES ASSUME IInv, LInv, KInv, [Next]_vars PROVE KInv'
  OBVIOUS
<1>1. Locals /\ DOMAIN req = Requests
  BY DEF IInv, Locals
\* Who has an answer keeps it.
<1>2. ASSUME \A r \in Requests : Kept(r) => Kept(r)', UNCHANGED <<task, rows>> PROVE KInv'
  BY <1>2 DEF KInv
<1>3. UNCHANGED req => \A r \in Requests : Kept(r) => Kept(r)'
  BY DEF Kept
<1>4. ASSUME NEW r \in Requests, Arrive(r) \/ RequestStep(r) \/ Interrupted(r)
      PROVE  KInv'
  <2>0. Session[r] \in Sessions /\ Plain(req[r])
    BY ChatAssumption DEF LInv
  <2>1. Onward(r)
    BY <1>1, <1>4, <2>0, OStep DEF LInv
  <2>2. \A o \in Requests \ {r} : req'[o] = req[o]
    <3>1. PICK y : req' = [req EXCEPT ![r] = y]
      BY <1>4, Alone
    <3> QED
      BY <1>1, <3>1
  <2>3. /\ req[r].pc # "refused" /\ rows' = rows
        /\ \/ task' = task \/ task' = [task EXCEPT ![r]["user"] = "ready"]
           \/ /\ task' = [task EXCEPT ![r]["assistant"] = "ready"]
              /\ req'[r].phase # "ask" \/ req'[r].pc = "refused"
    BY <1>1, <1>4, <2>0, Refusals
  <2>4. ASSUME NEW o \in Requests, Kept(o) PROVE Kept(o)'
    <3>1. CASE o = r
      BY <2>1, <2>3, <2>4, <3>1 DEF Onward, Kept
    <3>2. CASE o # r
      BY <2>2, <2>4, <3>2 DEF Kept
    <3> QED
      BY <3>1, <3>2
  <2>5. task' \in [Requests -> [Roles -> TaskPc]]
    BY <2>3 DEF KInv, TaskPc, Roles
  <2>6. ASSUME NEW o \in Requests, task'[o]["assistant"] # "none" PROVE Kept(o)'
    <3>1. CASE task'[o]["assistant"] = task[o]["assistant"]
      BY <2>4, <2>6, <3>1 DEF KInv
    <3>2. CASE task'[o]["assistant"] # task[o]["assistant"]
      <4>1. o = r /\ (req'[r].phase # "ask" \/ req'[r].pc = "refused")
        BY <2>3, <3>2 DEF KInv, Roles
      <4> QED
        BY <4>1 DEF Kept
    <3> QED
      BY <3>1, <3>2
  <2>7. ASSUME NEW m \in rows', m.role = "assistant" PROVE m.req \in Requests /\ Kept(m.req)'
    BY <2>3, <2>4, <2>7 DEF KInv
  <2> QED
    BY <2>5, <2>6, <2>7 DEF KInv
<1>5. ASSUME NEW r \in Requests, NEW role \in Roles, TaskStep(r, role) \/ SaveFails(r, role)
      PROVE  KInv'
  <2>1. /\ task[r][role] # "none" /\ req' = req
        /\ rows' \subseteq rows \cup {[req |-> r, role |-> role]}
    BY <1>5, TaskMoves
  <2>2. PICK to \in TaskPc : task' = [task EXCEPT ![r][role] = to]
    BY <1>5, TaskMoves
  <2>3. \A o \in Requests : Kept(o) => Kept(o)'
    BY <1>3, <2>1
  <2>4. task' \in [Requests -> [Roles -> TaskPc]]
    BY <2>2 DEF KInv
  <2>5. ASSUME NEW o \in Requests, task'[o]["assistant"] # "none" PROVE Kept(o)'
    BY <2>1, <2>2, <2>3, <2>5 DEF KInv, Roles
  <2>6. ASSUME NEW m \in rows', m.role = "assistant" PROVE m.req \in Requests /\ Kept(m.req)'
    <3>1. CASE m \in rows
      BY <2>3, <2>6, <3>1 DEF KInv
    <3>2. CASE m \notin rows
      <4>1. m.req = r /\ role = "assistant"
        BY <2>1, <2>6, <3>2
      <4> QED
        BY <2>1, <2>3, <4>1 DEF KInv
    <3> QED
      BY <3>1, <3>2
  <2> QED
    BY <2>4, <2>5, <2>6 DEF KInv
<1>6. CASE Expiry
  <2>1. UNCHANGED <<req, task, rows>>
    BY <1>6 DEF Expiry, ExpireSession, ExpireEmbedding, ExpireResponse, postgres
  <2> QED
    BY <1>2, <1>3, <2>1
<1>7. ASSUME NEW p \in Processes, Restart(p) PROVE KInv'
  <2>1. ASSUME NEW r \in Requests, Kept(r) PROVE Kept(r)'
    <3>1. CASE req'[r] = req[r]
      BY <2>1, <3>1 DEF Kept
    <3>2. CASE req'[r] # req[r]
      <4>1. req[r].pc # "refused" /\ req'[r].phase = req[r].phase
        BY <1>1, <1>7, <3>2, Restarts DEF Fields
      <4> QED
        BY <2>1, <4>1 DEF Kept
    <3> QED
      BY <3>1, <3>2
  <2>2. /\ rows' = rows
        /\ task' = [r \in Requests |-> [role \in Roles |->
             IF Process[r] = p /\ task[r][role] \notin {"none", "saved"}
             THEN "lost" ELSE task[r][role]]]
    BY <1>7 DEF Restart, postgres
  <2>3. task' \in [Requests -> [Roles -> TaskPc]]
    BY <2>2 DEF KInv, TaskPc
  <2>4. \A r \in Requests : task'[r]["assistant"] # "none" => task[r]["assistant"] # "none"
    BY <2>2 DEF KInv, Roles
  <2> QED
    BY <2>1, <2>2, <2>3, <2>4 DEF KInv
<1>8. UNCHANGED vars => KInv'
  BY <1>2, <1>3 DEF vars, postgres
<1> QED
  BY <1>4, <1>5, <1>6, <1>7, <1>8 DEF Next

\* NoPartialAnswer: however many replicas answer, fail and restart, a history, a
\* cache entry or a row holds only answers that were given in full, but for the
\* empty text that is persisted for a stream that was refused.
THEOREM NothingPartial == Spec => []NoPartialAnswer
<1>1. Init => KInv
  <2> SUFFICES ASSUME Init PROVE KInv
    OBVIOUS
  <2>1. rows = {} /\ task = [r \in Requests |-> [role \in Roles |-> "none"]]
    BY DEF Init
  <2> QED
    BY <2>1 DEF KInv, TaskPc, Roles
<1>2. IInv /\ LInv /\ KInv => NoPartialAnswer
  <2> SUFFICES ASSUME IInv, LInv, KInv PROVE NoPartialAnswer
    OBVIOUS
  <2> DEFINE answered == {r \in Requests : req[r].answer # None}
  <2>1. \A r \in Requests : req[r].phase # "ask" => r \in answered
    BY DEF LInv, Plain
  <2>2. ASSUME NEW s \in Sessions, NEW i \in DOMAIN hist[s], hist[s][i].role = "assistant"
        PROVE  hist[s][i].req \in answered
    <3>1. hist[s] \in Seq(Message)
      BY DEF LInv
    <3>2. hist[s][i].req \in Requests
      <4>1. hist[s][i] \in Message
        BY <3>1
      <4> QED
        BY <4>1 DEF Message
    <3>3. Says(hist[s], hist[s][i].req)
      BY <2>2 DEF Says
    <3>4. ~Asking(req[hist[s][i].req])
      BY <3>2, <3>3 DEF LInv, Unsaid
    <3> QED
      BY <2>1, <3>2, <3>4 DEF Asking
  <2>3. ASSUME NEW e \in Entry PROVE resp[e] \in answered \cup {None}
    BY OwnEntry DEF IInv, Filled, Given
  <2>4. ASSUME NEW m \in rows, m.role = "assistant"
        PROVE  m.req \in answered \/ req[m.req].pc = "refused"
    BY <2>1, <2>4 DEF KInv, Kept
  <2> QED
    BY <2>2, <2>3, <2>4 DEF NoPartialAnswer
<1> QED
  BY <1>1, <1>2, IInit, INext, LInit, LNext, KNext, PTL DEF Spec

-----------------------------------------------------------------------------
(* The order of a history. *)

\* Every list is in order, and a history that is about to be replaced is empty.
OInv == /\ \A s \in Sessions : Ordered(hist[s])
        /\ \A r \in Requests :
             /\ Ordered(req[r].read)
             /\ req[r].pc = "replace" => hist[Session[r]] = <<>>

LEMMA ONext == ASSUME OneReplica PROVE IInv /\ LInv /\ OInv /\ [Next]_vars => OInv'
<1> SUFFICES ASSUME IInv, LInv, OInv, [Next]_vars PROVE OInv'
  OBVIOUS
<1>1. Locals /\ DOMAIN req = Requests /\ DOMAIN hist = Sessions
  BY DEF IInv, Locals, LInv
<1>2. ASSUME NEW r \in Requests, Arrive(r) \/ RequestStep(r) \/ Interrupted(r)
      PROVE  OInv'
  <2>0. Session[r] \in Sessions
    BY ChatAssumption
  <2>1. Onward(r)
    BY <1>1, <1>2, <2>0, OStep DEF LInv
  <2>2. \A o \in Requests \ {r} : req'[o] = req[o]
    <3>1. PICK y : req' = [req EXCEPT ![r] = y]
      BY <1>2, Alone
    <3> QED
      BY <1>1, <3>1
  <2>3. PICK list \in Seq(Message) :
          /\ hist' = [hist EXCEPT ![Session[r]] = list]
          /\ /\ Ordered(hist[Session[r]]) /\ Ordered(req[r].read)
             /\ req[r].pc = "replace" => hist[Session[r]] = <<>>
             => Ordered(list)
    BY <1>2, NewList
  <2>4. Ordered(list)
    BY <2>0, <2>3 DEF OInv
  <2>5. ASSUME NEW s \in Sessions PROVE Ordered(hist'[s])
    BY <1>1, <2>0, <2>3, <2>4 DEF OInv
  <2>6. ASSUME NEW o \in Requests PROVE Ordered(req'[o].read)
    <3>1. CASE o = r
      BY <2>0, <2>1, <3>1, Silence DEF Onward, OInv
    <3>2. CASE o # r
      BY <2>2, <3>2 DEF OInv
    <3> QED
      BY <3>1, <3>2
  <2>7. ASSUME NEW o \in Requests, req'[o].pc = "replace" PROVE hist'[Session[o]] = <<>>
    <3>1. CASE o = r
      <4>1. Delete(r)
        BY <2>1, <2>7, <3>1 DEF Onward
      <4> QED
        BY <1>1, <2>0, <3>1, <4>1 DEF Delete
    <3>2. CASE o # r
      <4>1. req[o].pc \in Waiting
        BY <1>2, <3>2, Loops DEF HasLoop, OneReplica
      <4> QED
        BY <2>2, <2>7, <3>2, <4>1 DEF Waiting, Ended
    <3> QED
      BY <3>1, <3>2
  <2> QED
    BY <2>5, <2>6, <2>7 DEF OInv
<1>3. UNCHANGED <<req, hist>> => OInv'
  BY DEF OInv
<1>4. ASSUME NEW r \in Requests, NEW role \in Roles, TaskStep(r, role) \/ SaveFails(r, role)
      PROVE  OInv'
  BY <1>3, <1>4, Tasks
<1>5. CASE Expiry
  <2>1. /\ req' = req /\ \A s \in Sessions : hist'[s] \in {hist[s], <<>>}
    BY <1>1, <1>5, Expires
  <2>2. \A r \in Requests : Session[r] \in Sessions
    BY ChatAssumption
  <2> QED
    BY <2>1, <2>2, Silence DEF OInv
<1>6. ASSUME NEW p \in Processes, Restart(p) PROVE OInv'
  <2>1. ASSUME NEW r \in Requests
        PROVE  /\ req'[r].read = req[r].read
               /\ req'[r].pc = "replace" => req[r].pc = "replace"
    <3>1. CASE req'[r] = req[r]
      BY <3>1
    <3>2. CASE req'[r] # req[r]
      BY <1>1, <1>6, <3>2, Restarts DEF Fields
    <3> QED
      BY <3>1, <3>2
  <2>2. hist' = hist
    BY <1>1, <1>6, Restarts
  <2> QED
    BY <2>1, <2>2 DEF OInv
<1>7. UNCHANGED vars => OInv'
  BY <1>3 DEF vars, redis
<1> QED
  BY <1>2, <1>4, <1>5, <1>6, <1>7 DEF Next

\* InOrder: with one server process, whatever is trimmed, summarised or expires and
\* however the requests of a session overlap, its history never shows an answer
\* before its question nor a summary after a message.
THEOREM HistoriesInOrder == ASSUME OneReplica PROVE Spec => []InOrder
<1>1. Init => OInv
  <2> SUFFICES ASSUME Init PROVE OInv
    OBVIOUS
  <2>1. \A s \in Sessions : Ordered(hist[s])
    BY FirstLists
  <2>2. \A r \in Requests : req[r].read = <<>> /\ req[r].pc # "replace"
    BY FirstLists
  <2> QED
    BY <2>1, <2>2, Silence DEF OInv
<1>2. OInv => InOrder
  BY DEF OInv, InOrder, Ordered
<1> QED
  BY <1>1, <1>2, IInit, INext, LInit, LNext, ONext, PTL DEF Spec
=============================================================================
