---------------------------- MODULE IngestionJobs ----------------------------
(***************************************************************************)
(* Uploads and their ingestion jobs: the rows ingestion_jobs, its log and   *)
(* documents, the thread that runs run_ingestion_job, the user's cancel and *)
(* delete requests, and one client of the job's log stream.                *)
(*                                                                         *)
(* A step ends where another transaction can be seen: at a commit, a flush  *)
(* that takes row locks, a publication, or between a handler's read and its *)
(* write.  A definition marked "Variant" is a wrong version of the one      *)
(* after it, which the runs must notice in its place.                      *)
(***************************************************************************)
EXTENDS Integers, Sequences

CONSTANTS
  Jobs,       \* jobs that may be submitted
  Sources,    \* file names
  Source,     \* the file name of each job
  NoJob,      \* not a job
  Faults,     \* kinds of fault that may happen, a subset of FaultKinds
  MaxFaults,  \* bound on their number
  Requests,   \* user requests made, a subset of RequestKinds
  Attended    \* jobs the user comes back to: follows, cancels or deletes

FaultKinds == {"restart", "database"}
RequestKinds == {"cancel", "delete_job", "delete_document"}

ASSUME IngestionJobsAssumption ==
  /\ Source \in [Jobs -> Sources]
  /\ NoJob \notin Jobs
  /\ Faults \subseteq FaultKinds /\ MaxFaults \in Nat
  /\ Requests \subseteq RequestKinds
  /\ Attended \subseteq Jobs

Status == {"unborn", "queued", "processing", "completed", "failed", "cancelled", "deleted"}
WorkerPc == {"none", "queued", "loaded", "say", "store", "index", "report", "select",
             "insert", "update"}
FinalLine == 3
Lines == 1 .. 4         \* started, extracting, completed or failed, crashed
Worker == [pc : WorkerPc, line : {0} \cup Lines, ok : BOOLEAN, doc : Jobs \cup {NoJob}]
Stream == [pc : {"off", "open", "read", "live"}, job : Jobs \cup {NoJob}, running : BOOLEAN]

VARIABLES
  job,      \* ingestion_jobs.status; "deleted" once the row is
  logs,     \* lines stored in ingestion_job_logs
  docs,     \* documents rows, each named by the job that created it
  index,    \* jobs whose chunks are in the vector store
  worker,   \* the thread of each job
  cancel,   \* cancel requests between their read and their write
  delete,   \* delete requests likewise: the documents found, NotAsked for none
  removed,  \* file names of which a document was deleted
  stream,   \* the client's stream
  shown,    \* the lines it has yielded
  faults    \* faults so far

rows == <<job, logs, docs, index>>
requests == <<cancel, delete, removed>>
client == <<stream, shown>>
vars == <<rows, worker, requests, client, faults>>

-----------------------------------------------------------------------------
Idle == [pc |-> "none", line |-> 0, ok |-> FALSE, doc |-> NoJob]
NotAsked == {NoJob}
Closed == [pc |-> "off", job |-> NoJob, running |-> FALSE]

Init ==
  /\ job = [j \in Jobs |-> "unborn"] /\ logs = [j \in Jobs |-> {}]
  /\ docs = {} /\ index = {}
  /\ worker = [j \in Jobs |-> Idle]
  /\ cancel = {} /\ delete = [j \in Jobs |-> NotAsked] /\ removed = {}
  /\ stream = Closed /\ shown = <<>>
  /\ faults = 0

Exists(j) == job[j] \notin {"unborn", "deleted"}
DocsOf(s) == {d \in docs : Source[d] = s}
Goto(j, pc) == worker' = [worker EXCEPT ![j].pc = pc]
Speak(j, line) == worker' = [worker EXCEPT ![j].pc = "say", ![j].line = line]
Ends(j) == worker' = [worker EXCEPT ![j] = Idle]

\* Row locks: of the worker's uncommitted update of its job, and, against a
\* delete, of the foreign key of its uncommitted log line.
Updated(j) == worker[j].pc \in {"select", "insert", "update"}
Locked(j) == Updated(j) \/ worker[j].pc = "store"

\* redis.publish: a client that is subscribed is shown the line; the final line
\* ends the stream ("Crashed" is not among the messages it looks for).
Publish(j, line) ==
  IF stream.pc = "live" /\ stream.job = j
  THEN /\ shown' = Append(shown, line)
       /\ stream' = IF line = FinalLine THEN Closed ELSE stream
  ELSE UNCHANGED client

-----------------------------------------------------------------------------
(* submit_job: the row is committed, then a thread is started. *)

Submit(j) ==
  /\ job[j] = "unborn" /\ job' = [job EXCEPT ![j] = "queued"]
  /\ Goto(j, "queued")
  /\ UNCHANGED <<logs, docs, index, requests, client, faults>>

-----------------------------------------------------------------------------
(* run_ingestion_job *)

Load(j) ==
  /\ worker[j].pc = "queued"
  /\ IF Exists(j) THEN Goto(j, "loaded") ELSE Ends(j)
  /\ UNCHANGED <<rows, requests, client, faults>>

\* The status becomes "processing", whatever it was when it was loaded.
Mark(j) ==
  /\ worker[j].pc = "loaded" /\ Exists(j)
  /\ job' = [job EXCEPT ![j] = "processing"]
  /\ Speak(j, 1)
  /\ UNCHANGED <<logs, docs, index, requests, client, faults>>

Said(j) == IF worker[j].line = 1 THEN Speak(j, 2) ELSE Goto(j, "index")

\* Variant: the line is committed first and published then.
StoreThenSay(j) ==
  /\ worker[j].pc = "say" /\ Exists(j)
  /\ IF worker[j].line \in logs[j]
     THEN Publish(j, worker[j].line) /\ Said(j) /\ UNCHANGED logs
     ELSE /\ logs' = [logs EXCEPT ![j] = logs[j] \cup {worker[j].line}]
          /\ UNCHANGED <<client, worker>>
  /\ UNCHANGED <<job, docs, index, requests, faults>>

\* _log_and_publish: the flush inserts the line, whose job must be there, and
\* the line is published; db.commit() comes after.
Say(j) ==
  /\ worker[j].pc = "say" /\ Exists(j)
  /\ Publish(j, worker[j].line) /\ Goto(j, "store")
  /\ UNCHANGED <<rows, requests, faults>>

Store(j) ==
  /\ worker[j].pc = "store"
  /\ logs' = [logs EXCEPT ![j] = logs[j] \cup {worker[j].line}] /\ Said(j)
  /\ UNCHANGED <<job, docs, index, requests, client, faults>>

\* pipeline.ingest_path on the one file, whose own errors become a report: its
\* chunks are indexed, it is skipped, or it failed.
Ingest(j) ==
  /\ worker[j].pc = "index"
  /\ \E ok \in BOOLEAN :
       /\ worker' = [worker EXCEPT ![j].pc = "report", ![j].line = FinalLine, ![j].ok = ok]
       /\ index' \in IF ok THEN {index, index \cup {j}} ELSE {index}
  /\ UNCHANGED <<job, logs, docs, requests, client, faults>>

\* The status the job ends with.
Outcome(j) == IF worker[j].ok THEN "completed" ELSE "failed"

\* Variants: the job's row is committed before the catalogue's; nobody looks
\* whether the row is still there.
ReportAndCommit(j) ==
  /\ worker[j].pc = "report" /\ Exists(j)
  /\ job' = [job EXCEPT ![j] = Outcome(j)]
  /\ Publish(j, FinalLine) /\ Goto(j, "select")
  /\ UNCHANGED <<logs, docs, index, requests, faults>>
ReportUnchecked(j) ==
  /\ worker[j].pc = "report"
  /\ Publish(j, FinalLine) /\ Goto(j, "select")
  /\ UNCHANGED <<rows, requests, faults>>

\* The final line is published with the update of the job still uncommitted.
Report(j) ==
  /\ worker[j].pc = "report" /\ Exists(j)
  /\ Publish(j, FinalLine) /\ Goto(j, "select")
  /\ UNCHANGED <<rows, requests, faults>>

\* The catalogue row of this file name: scalar_one_or_none.
Select(j) ==
  /\ worker[j].pc = "select"
  /\ \/ DocsOf(Source[j]) = {} /\ Goto(j, "insert")
     \/ \E d \in DocsOf(Source[j]) :
          /\ DocsOf(Source[j]) = {d}
          /\ worker' = [worker EXCEPT ![j].pc = "update", ![j].doc = d]
  /\ UNCHANGED <<rows, requests, client, faults>>

\* One transaction: the job, the final line and the catalogue row, which is
\* inserted, or updated where its chunk count changes.
Commit(j) ==
  /\ \/ worker[j].pc = "insert" /\ docs' = docs \cup {j}
     \/ worker[j].pc = "update" /\ UNCHANGED docs
  /\ job' = [job EXCEPT ![j] = Outcome(j)]
  /\ logs' = [logs EXCEPT ![j] = logs[j] \cup {FinalLine}]
  /\ Ends(j)
  /\ UNCHANGED <<index, requests, client, faults>>

\* A flush against a row that is gone: the handler's own commit needs a rollback
\* first and fails too, so nothing is written.
GivesUp(j) ==
  /\ \/ worker[j].pc \in {"loaded", "say", "report"} /\ ~Exists(j)
     \/ worker[j].pc = "update" /\ worker[j].doc \notin docs
  /\ Ends(j)
  /\ UNCHANGED <<rows, requests, client, faults>>

\* Variant: the exception handler only logs.
FailsSilently(j) ==
  /\ worker[j].pc \in {"index", "select"}
  /\ Ends(j)
  /\ UNCHANGED <<rows, requests, client, faults>>

\* Any other exception: the blob or the file is missing, the manifest cannot be
\* saved once the chunks are indexed, two catalogue rows are found.  "failed" is
\* committed, with the lines flushed so far; the line "Crashed" is published
\* and flushed but not committed.
Fails(j) ==
  /\ \/ /\ worker[j].pc = "index"
        /\ index' \in {index, index \cup {j}} /\ UNCHANGED logs
     \/ /\ worker[j].pc = "select"
        /\ \E d, e \in DocsOf(Source[j]) : d # e
        /\ logs' = [logs EXCEPT ![j] = logs[j] \cup {FinalLine}] /\ UNCHANGED index
  /\ IF Exists(j) THEN job' = [job EXCEPT ![j] = "failed"] /\ Publish(j, 4)
                  ELSE UNCHANGED <<job, client>>
  /\ Ends(j)
  /\ UNCHANGED <<docs, requests, faults>>

Fault(k) == k \in Faults /\ faults < MaxFaults /\ faults' = faults + 1

\* A commit fails: as GivesUp.
DatabaseFails(j) ==
  /\ worker[j].pc \in {"loaded", "store", "insert", "update"} /\ Fault("database")
  /\ Ends(j)
  /\ UNCHANGED <<rows, requests, client>>

\* The server stops and is started again: the threads were its own.
Restart ==
  /\ Fault("restart")
  /\ worker' = [j \in Jobs |-> Idle]
  /\ cancel' = {} /\ delete' = [j \in Jobs |-> NotAsked]
  /\ stream' = Closed /\ shown' = <<>>
  /\ UNCHANGED <<rows, removed>>

-----------------------------------------------------------------------------
(* The user's requests: what is read, and what is written. *)

CancelRead(j) ==
  /\ "cancel" \in Requests /\ j \in Attended \ cancel
  /\ job[j] \in {"queued", "processing"} /\ cancel' = cancel \cup {j}
  /\ UNCHANGED <<rows, worker, delete, removed, client, faults>>

\* An update of a row that is gone fails the request.
CancelWrite(j) ==
  /\ j \in cancel /\ ~Updated(j) /\ cancel' = cancel \ {j}
  /\ job' = IF Exists(j) THEN [job EXCEPT ![j] = "cancelled"] ELSE job
  /\ UNCHANGED <<logs, docs, index, worker, delete, removed, client, faults>>

\* The chunks are asked for by file name, where they are indexed under the path of
\* a temporary copy: none is removed.  The document is looked up by job.
DeleteRead(j) ==
  /\ "delete_job" \in Requests /\ j \in Attended /\ Exists(j) /\ delete[j] = NotAsked
  /\ delete' = [delete EXCEPT ![j] = docs \cap {j}]
  /\ UNCHANGED <<rows, worker, cancel, removed, client, faults>>

\* The job's log goes with it; a row that is gone already is only a warning.
DeleteWrite(j) ==
  /\ delete[j] # NotAsked /\ ~Locked(j)
  /\ job' = [job EXCEPT ![j] = "deleted"] /\ logs' = [logs EXCEPT ![j] = {}]
  /\ docs' = docs \ delete[j]
  /\ removed' = removed \cup {Source[d] : d \in delete[j]}
  /\ delete' = [delete EXCEPT ![j] = NotAsked]
  /\ UNCHANGED <<index, worker, cancel, client, faults>>

\* Chunks are asked for by the row's id, and indexed under an id the extractor made.
DeleteDocument(d) ==
  /\ "delete_document" \in Requests /\ d \in docs
  /\ docs' = docs \ {d} /\ removed' = removed \cup {Source[d]}
  /\ UNCHANGED <<job, logs, index, worker, cancel, delete, client, faults>>

-----------------------------------------------------------------------------
(* stream_job_logs: the job is read, then the stored lines, then the channel. *)

Open(j) ==
  /\ stream.pc = "off" /\ Exists(j) /\ j \in Attended
  /\ stream' = [pc |-> "open", job |-> j, running |-> job[j] \in {"queued", "processing"}]
  /\ shown' = <<>>
  /\ UNCHANGED <<rows, worker, requests, faults>>

\* The stored lines, oldest first; "Crashed" is never among them.
Oldest(S) ==
  {s \in UNION {[1 .. n -> S] : n \in 0 .. FinalLine} :
     /\ \A i, k \in DOMAIN s : i < k => s[i] < s[k]
     /\ \A line \in S : \E i \in DOMAIN s : s[i] = line}

ReadLogs ==
  /\ stream.pc = "open"
  /\ shown' \in Oldest(logs[stream.job])
  /\ stream' = IF stream.running THEN [stream EXCEPT !.pc = "read"] ELSE Closed
  /\ UNCHANGED <<rows, worker, requests, faults>>

Subscribe ==
  /\ stream.pc = "read" /\ stream' = [stream EXCEPT !.pc = "live"]
  /\ UNCHANGED <<rows, worker, requests, shown, faults>>

Leave ==
  /\ stream.pc = "live" /\ stream' = Closed /\ shown' = <<>>
  /\ UNCHANGED <<rows, worker, requests, faults>>

-----------------------------------------------------------------------------
WorkerStep(j) == Load(j) \/ Mark(j) \/ Say(j) \/ Store(j) \/ Ingest(j) \/ Report(j)
                 \/ Select(j) \/ Commit(j) \/ GivesUp(j) \/ Fails(j)
User(j) == Submit(j) \/ CancelRead(j) \/ CancelWrite(j) \/ DeleteRead(j) \/ DeleteWrite(j)
           \/ DeleteDocument(j) \/ Open(j)

Next ==
  \/ \E j \in Jobs : WorkerStep(j) \/ DatabaseFails(j) \/ User(j)
  \/ Restart \/ ReadLogs \/ Subscribe \/ Leave

Spec == Init /\ [][Next]_vars

\* A thread that was started runs on.
FairSpec == Spec /\ \A j \in Jobs : WF_vars(WorkerStep(j))

-----------------------------------------------------------------------------
(* Properties *)

TypeOK ==
  /\ job \in [Jobs -> Status] /\ logs \in [Jobs -> SUBSET Lines]
  /\ docs \subseteq Jobs /\ index \subseteq Jobs
  /\ worker \in [Jobs -> Worker]
  /\ cancel \subseteq Jobs /\ delete \in [Jobs -> SUBSET (Jobs \cup {NoJob})]
  /\ removed \subseteq Sources
  /\ stream \in Stream /\ shown \in Seq(Lines)
  /\ faults \in Nat

\* A client of the log stream is shown every line at most once and in order,
\* whenever it connects (routes/ingestion.py yields the stored lines and then
\* subscribes; the worker publishes a line before it commits it).
LogOnce == \A i, k \in DOMAIN shown : i < k => shown[i] < shown[k]

\* A job is shown completed only with its file in the catalogue, unless the user
\* deleted it there: the two rows are one transaction.
Catalogued ==
  \A j \in Jobs :
    job[j] = "completed" => DocsOf(Source[j]) # {} \/ Source[j] \in removed

\* A job deleted while its thread runs stays deleted: no status, no log line and
\* no document of it is written afterwards.
DeleteIsFinal ==
  [][\A j \in Jobs : job[j] = "deleted" =>
       /\ job'[j] = "deleted" /\ logs'[j] = {}
       /\ j \in docs' => j \in docs]_vars

\* A job that was submitted is seen to end, unless a fault took its thread or the
\* document it updates was deleted meanwhile.
JobEnds ==
  \A j \in Jobs :
    job[j] \in {"queued", "processing"} ~>
      (job[j] \notin {"queued", "processing"} \/ faults > 0 \/ Source[j] \in removed)
=============================================================================
