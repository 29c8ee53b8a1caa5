-------------------------------- MODULE Chat --------------------------------
(***************************************************************************)
(* Questions and their answers: RAGPipeline.run and .stream as the routes   *)
(* /query and /stream call them, the conversation history they keep in      *)
(* Redis, the semantic cache, and the copies of the messages that           *)
(* _persist_message commits to Postgres in tasks of its own.                *)
(*                                                                         *)
(* A step is one Redis command, one transaction's statement that another    *)
(* can see, or one call of the LLM.  Between two awaits a coroutine keeps   *)
(* the event loop of its process, so its steps are not interleaved with     *)
(* others of the process; those of other replicas interleave at every one.  *)
(* A definition marked "Variant" is a wrong version of the one after it,    *)
(* which the runs must notice in its place.                                 *)
(***************************************************************************)
EXTENDS Integers, Sequences

CONSTANTS
  Requests,    \* requests that may be made
  Sessions, Users, Queries, Processes,
  Session,     \* the session of each request
  Owner,       \* the user of each session
  Query,       \* the question of each request
  Streams,     \* the requests to /stream; the others are to /query
  Process,     \* the replica that serves each request
  Followed,    \* requests whose persist tasks are followed
  Past,        \* requests to /query served before, at most one of a session
  Similar,     \* pairs of questions whose embeddings pass the threshold
  None,        \* not a request or an entry
  MaxTurns,    \* max_history_turns
  MaxTokens,   \* max_history_tokens, in units of a question
  AnswerSize,  \* size of an answer or a summary, a question's being 1
  Trigger,     \* summarization_trigger_turns; 0 when summaries are disabled
  Faults,      \* faults and expiries that may happen, a subset of FaultKinds
  MaxFaults    \* bound on their number

FaultKinds == {"refused", "redis", "llm", "client", "database", "restart",
               "history expires", "embedding expires", "response expires"}

ASSUME ChatAssumption ==
  /\ Session \in [Requests -> Sessions] /\ Owner \in [Sessions -> Users]
  /\ Query \in [Requests -> Queries] /\ Streams \cup Followed \cup Past \subseteq Requests
  /\ Process \in [Requests -> Processes]
  /\ Similar \subseteq {{p, q} : p, q \in Queries}
  /\ None \notin Requests \cup (Users \X Queries)
  /\ MaxTurns \in Nat \ {0} /\ MaxTokens \in Nat \ {0} /\ AnswerSize \in Nat
  /\ Trigger \in Nat
  /\ Faults \subseteq FaultKinds /\ MaxFaults \in Nat

Roles == {"user", "assistant"}
Message == [req : Requests, role : Roles \cup {"summary"}]
Entry == Users \X Queries

StorePcs == {"push", "expire", "trim", "weigh", "pop"}
CachePcs == {"scan", "fetch"}
SummaryPcs == {"history", "summarise", "delete", "replace"}
FillPcs == {"embedding", "response"}
Ended == {"served", "refused", "failed"}
RequestPc == {"new", "arrived", "answer", "streaming", "replaying", "reply"} \cup Ended
               \cup StorePcs \cup CachePcs \cup SummaryPcs \cup FillPcs
TaskPc == {"none", "ready", "insert", "flushed", "append", "saved", "lost"}

VARIABLES
  req,      \* each request: where it is, the messages it still has to store
            \* and why, what it has read, the answer it gives
  hist,     \* the list of each session in Redis
  ttl,      \* sessions whose list will expire
  emb,      \* cache entries whose embedding is there
  resp,     \* the answer stored with each entry, None where there is none
  task,     \* the task that persists each message
  conv,     \* sessions with a committed conversations row
  rows,     \* committed conversation_messages rows
  faults    \* faults so far

redis == <<hist, ttl>>
cache == <<emb, resp>>
postgres == <<conv, rows>>
vars == <<req, redis, cache, task, postgres, faults>>

-----------------------------------------------------------------------------
NewRequest == [pc |-> "new", phase |-> "ask", todo |-> <<>>, drop |-> 0, read |-> <<>>,
               hit |-> None, answer |-> None, blank |-> FALSE]

PastRequest(r) == [NewRequest EXCEPT !.pc = "served", !.phase = "answer", !.answer = r]
PastTurn(r) == <<[req |-> r, role |-> "user"], [req |-> r, role |-> "user"],
                 [req |-> r, role |-> "assistant"]>>

Own(r) == <<Owner[Session[r]], Query[r]>>

\* Earlier requests have left their turn in the history, and perhaps a cache entry.
Init ==
  /\ req = [r \in Requests |-> IF r \in Past THEN PastRequest(r) ELSE NewRequest]
  /\ ttl = {Session[r] : r \in Past}
  /\ hist = [s \in Sessions |-> IF s \in ttl THEN PastTurn(CHOOSE r \in Past : Session[r] = s)
                                           ELSE <<>>]
  /\ \E kept \in SUBSET Past :
       /\ emb = {Own(r) : r \in kept}
       /\ resp = [e \in Entry |-> IF e \in emb THEN CHOOSE r \in kept : Own(r) = e ELSE None]
  /\ task = [r \in Requests |-> [role \in Roles |-> "none"]]
  /\ conv = {} /\ rows = {}
  /\ faults = 0

\* Variant: the summary is awaited.
WaitingMore == {"new", "arrived", "streaming", "replaying", "summarise"} \cup Ended

\* A coroutine that is not running: at an await, at a yield, or over.
Waiting == {"new", "arrived", "streaming", "replaying"} \cup Ended

\* No other coroutine of the process is running, so r may.
HasLoop(r) == \A o \in Requests \ {r} : Process[o] = Process[r] => req[o].pc \in Waiting
LoopFree(r) == HasLoop(r) /\ req[r].pc \in Waiting

At(r, pc) == req[r].pc = pc /\ HasLoop(r)
Becomes(r, x) == req' = [req EXCEPT ![r] = x]
Goto(r, pc) == req' = [req EXCEPT ![r].pc = pc]
Persists(r, role) == task' = IF r \in Followed THEN [task EXCEPT ![r][role] = "ready"] ELSE task
Fault(kind) == kind \in Faults /\ faults < MaxFaults /\ faults' = faults + 1

Stores(x, phase, todo) == [x EXCEPT !.pc = "push", !.phase = phase, !.todo = todo, !.drop = 0]

-----------------------------------------------------------------------------
(* execute_query, execute_query_stream *)

\* The question is persisted in a task of its own, from the start; without a
\* GROQ key /query answers before that and /stream after it.
Arrive(r) ==
  /\ req[r].pc = "new" /\ LoopFree(r)
  /\ Goto(r, "arrived") /\ Persists(r, "user")
  /\ UNCHANGED <<redis, cache, postgres, faults>>

\* There is no key, or Redis is away when the guard counts the request.
Abort(r) ==
  /\ Fault("refused")
  /\ \/ req[r].pc = "new" /\ r \notin Streams
     \/ req[r].pc = "arrived"
  /\ LoopFree(r) /\ Goto(r, "failed")
  /\ UNCHANGED <<redis, cache, task, postgres>>

\* The guard refuses the question.  A stream then ends like any other, and the
\* empty text it has gathered is persisted as the answer.
Refuse(r) ==
  /\ Fault("refused")
  /\ req[r].pc = "arrived" /\ LoopFree(r) /\ Goto(r, "refused")
  /\ IF r \in Streams THEN Persists(r, "assistant") ELSE UNCHANGED task
  /\ UNCHANGED <<redis, cache, postgres>>

\* The providers are resolved; what follows does not await.
Proceed(r) ==
  /\ req[r].pc = "arrived" /\ LoopFree(r)
  /\ Becomes(r, Stores(req[r], "ask", <<"user">>))
  /\ UNCHANGED <<redis, cache, task, postgres, faults>>

\* Retrieval, correction, reranking and generation; a stream waits at its tokens.
\* run() stores the question a second time.
Answer(r) ==
  /\ At(r, "answer")
  /\ IF r \in Streams THEN Goto(r, "streaming")
     ELSE \E blank \in BOOLEAN :
            Becomes(r, [Stores(req[r], "answer", <<"user", "assistant">>)
                          EXCEPT !.answer = r, !.blank = blank])
  /\ UNCHANGED <<redis, cache, task, postgres, faults>>

\* Retrieval or the LLM raises: a 500, or an error event in the stream.
AnswerFails(r) ==
  /\ Fault("llm")
  /\ At(r, "answer") \/ At(r, "streaming")
  /\ Goto(r, "failed")
  /\ UNCHANGED <<redis, cache, task, postgres>>

\* The last token, the citations and END have been taken.
StreamEnds(r) ==
  /\ At(r, "streaming")
  /\ \E blank \in BOOLEAN :
       Becomes(r, [Stores(req[r], "answer", <<"assistant">>) EXCEPT !.answer = r, !.blank = blank])
  /\ UNCHANGED <<redis, cache, task, postgres, faults>>

\* Variant: what has been said so far is stored when the client goes.
LeaveStoring(r) ==
  /\ Fault("client")
  /\ At(r, "streaming")
  /\ Becomes(r, Stores(req[r], "answer", <<"assistant">>))
  /\ UNCHANGED <<redis, cache, task, postgres>>

\* The client of a stream goes away: the generators are closed where they yield.
Leave(r) ==
  /\ Fault("client")
  /\ At(r, "streaming") \/ At(r, "replaying")
  /\ Goto(r, "failed")
  /\ UNCHANGED <<redis, cache, task, postgres>>

\* The answer is returned, or the stream was read to its end.
Reply(r) ==
  /\ At(r, "reply") \/ At(r, "replaying")
  /\ Goto(r, "served") /\ Persists(r, "assistant")
  /\ UNCHANGED <<redis, cache, postgres, faults>>

-----------------------------------------------------------------------------
(* ConversationStore.add_message *)

\* What follows once the first message to store is stored, or is not.
Stored(r) ==
  LET rest == Tail(req[r].todo)
  IN IF rest # <<>> THEN Stores(req[r], req[r].phase, rest)
     ELSE [req[r] EXCEPT !.todo = <<>>, !.pc =
             CASE req[r].phase = "ask" -> "scan"
               [] req[r].phase = "hit" -> IF r \in Streams THEN "replaying" ELSE "reply"
               [] req[r].phase = "answer" -> "history"]

Push(r) ==
  /\ At(r, "push")
  /\ hist' = [hist EXCEPT ![Session[r]] =
                Append(@, [req |-> r, role |-> Head(req[r].todo)])]
  /\ Goto(r, "expire")
  /\ UNCHANGED <<ttl, cache, task, postgres, faults>>

Expire(r) ==
  /\ At(r, "expire")
  /\ ttl' = IF hist[Session[r]] # <<>> THEN ttl \cup {Session[r]} ELSE ttl
  /\ Goto(r, "trim")
  /\ UNCHANGED <<hist, cache, task, postgres, faults>>

LastOf(n, list) == SubSeq(list, Len(list) - n + 1, Len(list))
Window == 2 * MaxTurns

Trim(r) ==
  /\ At(r, "trim")
  /\ hist' = [hist EXCEPT ![Session[r]] = IF Len(@) > Window THEN LastOf(Window, @) ELSE @]
  /\ Goto(r, "weigh")
  /\ UNCHANGED <<ttl, cache, task, postgres, faults>>

Short(m) == m.role = "user" \/ (m.role = "assistant" /\ req[m.req].blank)
Size(list) == Len(list) + (AnswerSize - 1) * Len(SelectSeq(list, LAMBDA m : ~Short(m)))

\* So many messages must go for the others to fit in the budget.
Excess(list, n) ==
  /\ Size(LastOf(Len(list) - n, list)) <= MaxTokens
  /\ \A k \in 0 .. n - 1 : Size(LastOf(Len(list) - k, list)) > MaxTokens

Weigh(r) ==
  /\ At(r, "weigh")
  /\ \E n \in 0 .. Len(hist[Session[r]]) :
       /\ Excess(hist[Session[r]], n)
       /\ Becomes(r, IF n = 0 THEN Stored(r) ELSE [req[r] EXCEPT !.pc = "pop", !.drop = n])
  /\ UNCHANGED <<redis, cache, task, postgres, faults>>

\* As many LPOPs as were counted, of whatever is at the head by now; the key of
\* an empty list is gone, with its expiry.
Pop(r) ==
  /\ At(r, "pop")
  /\ LET list == hist[Session[r]]
         n == IF req[r].drop < Len(list) THEN req[r].drop ELSE Len(list)
     IN /\ hist' = [hist EXCEPT ![Session[r]] = LastOf(Len(list) - n, list)]
        /\ ttl' = IF n = Len(list) THEN ttl \ {Session[r]} ELSE ttl
  /\ Becomes(r, Stored(r))
  /\ UNCHANGED <<cache, task, postgres, faults>>

-----------------------------------------------------------------------------
(* SemanticCache.get *)

\* Variant: the keys of every user are scanned.
EntriesOfAll(r) == {e \in emb : e[2] = Query[r] \/ {e[2], Query[r]} \in Similar}

\* The user's entries whose similarity reaches the threshold.
Entries(r) == {e \in emb : /\ e[1] = Owner[Session[r]]
                           /\ e[2] = Query[r] \/ {e[2], Query[r]} \in Similar}

Best(r) == IF Own(r) \in Entries(r) THEN {Own(r)} ELSE Entries(r)

Scan(r) ==
  /\ At(r, "scan")
  /\ \/ Entries(r) = {} /\ Goto(r, "answer")
     \/ \E e \in Best(r) : Becomes(r, [req[r] EXCEPT !.pc = "fetch", !.hit = e])
  /\ UNCHANGED <<redis, cache, task, postgres, faults>>

\* The response stored beside the embedding may be gone, or not be there yet.
Fetch(r) ==
  /\ At(r, "fetch")
  /\ LET found == resp[req[r].hit]
     IN IF found = None THEN Goto(r, "answer")
        ELSE Becomes(r, [Stores(req[r], "hit", <<"assistant">>) EXCEPT !.answer = found])
  /\ UNCHANGED <<redis, cache, task, postgres, faults>>

-----------------------------------------------------------------------------
(* ConversationStore.summarize_if_needed *)

\* A stream that said nothing is not cached.
Fills(r) == IF r \in Streams /\ req[r].blank THEN "reply" ELSE "embedding"

ReadHistory(r) ==
  /\ At(r, "history")
  /\ LET list == hist[Session[r]]
     IN IF Trigger > 0 /\ Len(list) \div 2 >= Trigger
        THEN Becomes(r, [req[r] EXCEPT !.pc = "summarise", !.read = list])
        ELSE Goto(r, Fills(r))
  /\ UNCHANGED <<redis, cache, task, postgres, faults>>

\* The LLM is called; it may fail or return nothing.
Summarise(r) ==
  /\ At(r, "summarise")
  /\ Goto(r, "delete") \/ Goto(r, Fills(r))
  /\ UNCHANGED <<redis, cache, task, postgres, faults>>

Delete(r) ==
  /\ At(r, "delete")
  /\ hist' = [hist EXCEPT ![Session[r]] = <<>>] /\ ttl' = ttl \ {Session[r]}
  /\ Goto(r, "replace")
  /\ UNCHANGED <<cache, task, postgres, faults>>

\* Variant: the recent messages first.
SummaryLast(r) ==
  LET list == req[r].read
  IN (IF Len(list) > 4 THEN LastOf(4, list) ELSE <<>>) \o <<[req |-> r, role |-> "summary"]>>

\* The summary and the last two turns that were read.
NewHistory(r) ==
  LET list == req[r].read
  IN <<[req |-> r, role |-> "summary"]>> \o (IF Len(list) > 4 THEN LastOf(4, list) ELSE <<>>)

\* One RPUSH; no EXPIRE follows it.
Replace(r) ==
  /\ At(r, "replace")
  /\ hist' = [hist EXCEPT ![Session[r]] = @ \o NewHistory(r)]
  /\ Becomes(r, [req[r] EXCEPT !.pc = Fills(r), !.read = <<>>])
  /\ UNCHANGED <<ttl, cache, task, postgres, faults>>

-----------------------------------------------------------------------------
(* SemanticCache.set *)

FillEmbedding(r) ==
  /\ At(r, "embedding")
  /\ emb' = emb \cup {Own(r)} /\ Goto(r, "response")
  /\ UNCHANGED <<redis, resp, task, postgres, faults>>

FillResponse(r) ==
  /\ At(r, "response")
  /\ resp' = [resp EXCEPT ![Own(r)] = r] /\ Goto(r, "reply")
  /\ UNCHANGED <<redis, emb, task, postgres, faults>>

-----------------------------------------------------------------------------
(* Redis *)

\* A command raises: the message goes to a list that is dropped with the
\* pipeline of this request, the lookup is a miss, the summary or the cache
\* entry is left as far as it came.
CommandFails(r) ==
  /\ Fault("redis") /\ HasLoop(r)
  /\ \/ req[r].pc \in StorePcs /\ Becomes(r, Stored(r))
     \/ req[r].pc \in CachePcs /\ Goto(r, "answer")
     \/ req[r].pc \in {"history", "delete", "replace"}
          /\ Becomes(r, [req[r] EXCEPT !.pc = Fills(r), !.read = <<>>])
     \/ req[r].pc \in FillPcs /\ Goto(r, "reply")
  /\ UNCHANGED <<redis, cache, task, postgres>>

ExpireSession(s) ==
  /\ Fault("history expires") /\ s \in ttl
  /\ hist' = [hist EXCEPT ![s] = <<>>] /\ ttl' = ttl \ {s}
  /\ UNCHANGED <<req, cache, task, postgres>>

ExpireEmbedding(e) ==
  /\ Fault("embedding expires") /\ e \in emb
  /\ emb' = emb \ {e}
  /\ UNCHANGED <<req, redis, resp, task, postgres>>

ExpireResponse(e) ==
  /\ Fault("response expires") /\ resp[e] # None
  /\ resp' = [resp EXCEPT ![e] = None]
  /\ UNCHANGED <<req, redis, emb, task, postgres>>

-----------------------------------------------------------------------------
(* _persist_message *)

Turn(r, role, from) == task[r][role] = from /\ LoopFree(r)
Moves(r, role, to) == task' = [task EXCEPT ![r][role] = to]

Find(r, role) ==
  /\ Turn(r, role, "ready")
  /\ Moves(r, role, IF Session[r] \in conv THEN "append" ELSE "insert")
  /\ UNCHANGED <<req, redis, cache, postgres, faults>>

\* Variant: it waits for any task that may insert.
InsertWaiting(r, role) ==
  /\ Turn(r, role, "insert")
  /\ \A o \in Requests : Session[o] = Session[r] =>
       \A other \in Roles : <<o, other>> # <<r, role>> => task[o][other] # "insert"
  /\ Moves(r, role, IF Session[r] \in conv THEN "lost" ELSE "flushed")
  /\ UNCHANGED <<req, redis, cache, postgres, faults>>

\* conversations.session_id is unique: an insert waits for the one under way,
\* and fails once a row is there; the exception is only logged.
Insert(r, role) ==
  /\ Turn(r, role, "insert")
  /\ \A o \in Requests : Session[o] = Session[r] =>
       \A other \in Roles : task[o][other] # "flushed"
  /\ Moves(r, role, IF Session[r] \in conv THEN "lost" ELSE "flushed")
  /\ UNCHANGED <<req, redis, cache, postgres, faults>>

Save(r, role) ==
  /\ Turn(r, role, "flushed") \/ Turn(r, role, "append")
  /\ conv' = conv \cup {Session[r]}
  /\ rows' = rows \cup {[req |-> r, role |-> role]}
  /\ Moves(r, role, "saved")
  /\ UNCHANGED <<req, redis, cache, faults>>

SaveFails(r, role) ==
  /\ Fault("database")
  /\ \E from \in {"ready", "insert", "flushed", "append"} : Turn(r, role, from)
  /\ Moves(r, role, "lost")
  /\ UNCHANGED <<req, redis, cache, postgres>>

-----------------------------------------------------------------------------
\* The replica is killed: its coroutines and tasks are gone.
Restart(p) ==
  /\ Fault("restart")
  /\ req' = [r \in Requests |->
               IF Process[r] = p /\ req[r].pc \notin {"new"} \cup Ended
               THEN [req[r] EXCEPT !.pc = "failed"] ELSE req[r]]
  /\ task' = [r \in Requests |-> [role \in Roles |->
               IF Process[r] = p /\ task[r][role] \notin {"none", "saved"}
               THEN "lost" ELSE task[r][role]]]
  /\ UNCHANGED <<redis, cache, postgres>>

Store(r) == Push(r) \/ Expire(r) \/ Trim(r) \/ Weigh(r) \/ Pop(r)
Summary(r) == ReadHistory(r) \/ Summarise(r) \/ Delete(r) \/ Replace(r)
Cached(r) == Scan(r) \/ Fetch(r) \/ FillEmbedding(r) \/ FillResponse(r)
Pipeline(r) == Proceed(r) \/ Answer(r) \/ StreamEnds(r) \/ Reply(r)
RequestStep(r) == Store(r) \/ Summary(r) \/ Cached(r) \/ Pipeline(r)
Interrupted(r) == Abort(r) \/ Refuse(r) \/ AnswerFails(r) \/ Leave(r) \/ CommandFails(r)
TaskStep(r, role) == Find(r, role) \/ Insert(r, role) \/ Save(r, role)
Expiry ==
  \/ \E s \in Sessions : ExpireSession(s)
  \/ \E e \in Entry : ExpireEmbedding(e) \/ ExpireResponse(e)

Next ==
  \/ \E r \in Requests : Arrive(r) \/ RequestStep(r) \/ Interrupted(r)
  \/ \E r \in Requests, role \in Roles : TaskStep(r, role) \/ SaveFails(r, role)
  \/ Expiry
  \/ \E p \in Processes : Restart(p)

Spec == Init /\ [][Next]_vars

\* The event loop of a replica goes on as long as something can run on it; it is
\* not assumed to be fair to each.  Requests are the users' to make, and faults
\* and expiries happen or not.
Loop(p) ==
  \E r \in Requests : Process[r] = p /\ (RequestStep(r) \/ \E role \in Roles : TaskStep(r, role))
Fairness == \A p \in Processes : WF_vars(Loop(p))
FairSpec == Spec /\ Fairness

-----------------------------------------------------------------------------
(* Correctness *)

TypeOK ==
  /\ req \in [Requests -> [pc : RequestPc, phase : {"ask", "answer", "hit"},
                           todo : Seq(Roles), drop : Nat, read : Seq(Message),
                           hit : Entry \cup {None}, answer : Requests \cup {None},
                           blank : BOOLEAN]]
  /\ hist \in [Sessions -> Seq(Message)] /\ ttl \subseteq Sessions
  /\ emb \subseteq Entry /\ resp \in [Entry -> Requests \cup {None}]
  /\ task \in [Requests -> [Roles -> TaskPc]]
  /\ conv \subseteq Sessions /\ rows \subseteq Message
  /\ faults \in 0 .. MaxFaults

\* Whatever expires, fails or is filled at the same time, an answer taken from
\* the cache was given in full to the same user for a question the threshold
\* accepts (SemanticCache.get and set).
ServedOwn ==
  \A r \in Requests : req[r].answer \notin {None, r} =>
    LET o == req[r].answer
    IN /\ req[o].answer = o /\ ~(o \in Streams /\ req[o].blank)
       /\ Owner[Session[o]] = Owner[Session[r]]
       /\ Query[o] = Query[r] \/ {Query[o], Query[r]} \in Similar

\* The history the LLM is given never shows an answer before its question, nor
\* a summary after a message it sums up (add_message, _summarise).
InOrder ==
  \A s \in Sessions : \A i, j \in DOMAIN hist[s] : i < j =>
    /\ hist[s][j].role # "summary"
    /\ ~(/\ hist[s][i].role = "assistant" /\ hist[s][j].role = "user"
         /\ hist[s][i].req = hist[s][j].req)

\* A summary replaces exactly the history it was made from, unless that has
\* expired: no message stored while the LLM was asked is lost (_summarise).
SummaryFresh ==
  \A r \in Requests : req[r].pc = "delete" =>
    hist[Session[r]] \in {req[r].read, <<>>}

\* An answer that was cut off, by the LLM, the client or a restart, is nowhere:
\* neither in the history, nor in the cache, nor in Postgres, where the only
\* other text is the empty one of a stream that was refused (stream).
NoPartialAnswer ==
  LET answered == {r \in Requests : req[r].answer # None}
  IN /\ \A s \in Sessions : \A i \in DOMAIN hist[s] :
          hist[s][i].role = "assistant" => hist[s][i].req \in answered
     /\ \A e \in Entry : resp[e] \in answered \cup {None}
     /\ \A m \in rows : m.role = "assistant" =>
          m.req \in answered \/ req[m.req].pc = "refused"

\* Every request that arrives is answered, refused or fails, and every task ends,
\* whatever runs on the same event loop.
Over(r) == /\ req[r].pc \in {"new"} \cup Ended
           /\ \A role \in Roles : task[r][role] \in {"none", "saved", "lost"}
Ends == []<>(\A r \in Requests : Over(r))
=============================================================================
