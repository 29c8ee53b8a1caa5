--------------------------- MODULE IngestionProofs ---------------------------
(* Theorems about IngestionJobs: the catalogue, the rows of deleted jobs and the   *)
(* lines a reader of a job's log is sent, for any number of jobs, names, requests  *)
(* and faults.                                                                     *)
EXTENDS IngestionJobs, TLAPS

RTypes ==
  /\ job \in [Jobs -> Status] /\ logs \in [Jobs -> SUBSET ({0} \cup Lines)]
  /\ docs \subseteq Jobs
  /\ worker \in [Jobs -> Worker]
  /\ delete \in [Jobs -> (SUBSET Jobs) \cup {NotAsked}]
  /\ removed \subseteq Sources

\* The document a thread is to update is one of its file name, or was until the user
\* deleted it.
Link(j) ==
  worker[j].pc = "update" =>
    /\ worker[j].doc \in Jobs
    /\ Source[worker[j].doc] = Source[j]
    /\ worker[j].doc \in docs \/ Source[j] \in removed

\* A deleted job has no log, and no thread is at a point where it would write the row
\* without looking: there the row locks hold the deletion back.
Gone(j) == job[j] = "deleted" => logs[j] = {} /\ ~Locked(j)

Shown(j) == job[j] = "completed" => DocsOf(Source[j]) # {} \/ Source[j] \in removed

IInv ==
  /\ RTypes
  /\ \A j \in Jobs : Link(j) /\ Gone(j) /\ Shown(j)

\* A document leaves the catalogue only with its name among the removed ones.
Noted ==
  /\ \A d \in docs : d \in docs' \/ Source[d] \in removed'
  /\ removed \subseteq removed'

LEMMA IInit == Init => IInv
BY IngestionJobsAssumption
   DEF Init, IInv, RTypes, Link, Gone, Shown, Locked, Updated, Idle, NotAsked,
       Status, Worker, WorkerPc

\* The facts about a job whose row, log and thread a step leaves alone.
LEMMA Others ==
  ASSUME NEW j \in Jobs, IInv, Noted,
         job'[j] = job[j], logs'[j] = logs[j], worker'[j] = worker[j]
  PROVE  Link(j)' /\ Gone(j)' /\ Shown(j)'
<1>1. Link(j) /\ Gone(j) /\ Shown(j)
  BY DEF IInv
<1>2. Link(j)'
  BY <1>1 DEF Link, Noted
<1>3. Gone(j)'
  BY <1>1 DEF Gone, Locked, Updated
<1>4. ASSUME DocsOf(Source[j]) # {} PROVE DocsOf(Source[j])' # {} \/ Source[j] \in removed'
  <2>1. PICK d \in docs : Source[d] = Source[j]
    BY <1>4 DEF DocsOf
  <2> QED
    BY <2>1 DEF Noted, DocsOf
<1>5. Shown(j)'
  BY <1>1, <1>4 DEF Shown, Noted
<1> QED
  BY <1>2, <1>3, <1>5

\* A step of the thread of j that writes no row.
LEMMA Moves ==
  ASSUME IInv, NEW j \in Jobs, NEW w \in Worker,
         worker' = [worker EXCEPT ![j] = w],
         UNCHANGED <<job, logs, docs, delete, removed>>,
         w.pc \in {"store", "select", "insert", "update"} => job[j] # "deleted",
         w.pc = "update" => /\ w.doc \in Jobs /\ Source[w.doc] = Source[j]
                            /\ w.doc \in docs
  PROVE  IInv'
<1>1. RTypes'
  BY DEF IInv, RTypes
<1>2. Noted
  BY DEF Noted
<1>3. ASSUME NEW k \in Jobs, k # j PROVE Link(k)' /\ Gone(k)' /\ Shown(k)'
  <2>1. worker'[k] = worker[k]
    BY <1>3 DEF IInv, RTypes
  <2> QED
    BY <1>2, <2>1, Others
<1>4. Link(j)' /\ Gone(j)' /\ Shown(j)'
  <2>1. worker'[j] = w
    BY DEF IInv, RTypes
  <2>2. Link(j)'
    BY <2>1 DEF Link
  <2>3. Gone(j)'
    BY <2>1 DEF IInv, Gone, Locked, Updated
  <2>4. Shown(j)'
    BY DEF IInv, Shown, DocsOf
  <2> QED
    BY <2>2, <2>3, <2>4
<1> QED
  BY <1>1, <1>3, <1>4 DEF IInv

\* A step that writes j's row or log, and may move its thread.
LEMMA Writes ==
  ASSUME IInv, RTypes', Noted, NEW j \in Jobs,
         \A k \in Jobs : k # j => /\ job'[k] = job[k] /\ logs'[k] = logs[k]
                                  /\ worker'[k] = worker[k],
         Link(j)', Gone(j)', Shown(j)'
  PROVE  IInv'
<1>1. ASSUME NEW k \in Jobs, k # j PROVE Link(k)' /\ Gone(k)' /\ Shown(k)'
  BY <1>1, Others
<1> QED
  BY <1>1 DEF IInv

\* The records a thread's step makes of the one it finds.
LEMMA Steps ==
  ASSUME NEW w \in Worker, NEW p \in WorkerPc, NEW n \in Lines, NEW ok \in BOOLEAN,
         NEW d \in Jobs
  PROVE  /\ [w EXCEPT !.pc = p] \in Worker /\ [w EXCEPT !.pc = p].pc = p
         /\ [w EXCEPT !.pc = p, !.line = n] \in Worker
         /\ [w EXCEPT !.pc = p, !.line = n].pc = p
         /\ [w EXCEPT !.pc = p, !.line = n, !.ok = ok] \in Worker
         /\ [w EXCEPT !.pc = p, !.line = n, !.ok = ok].pc = p
         /\ [w EXCEPT !.pc = p, !.doc = d] \in Worker
         /\ [w EXCEPT !.pc = p, !.doc = d].pc = p
         /\ [w EXCEPT !.pc = p, !.doc = d].doc = d
<1>1. [w EXCEPT !.pc = p] \in Worker /\ [w EXCEPT !.pc = p].pc = p
  BY DEF Worker
<1>2. [w EXCEPT !.pc = p, !.line = n] \in Worker /\ [w EXCEPT !.pc = p, !.line = n].pc = p
  BY DEF Worker
<1>3. /\ [w EXCEPT !.pc = p, !.line = n, !.ok = ok] \in Worker
      /\ [w EXCEPT !.pc = p, !.line = n, !.ok = ok].pc = p
  BY DEF Worker
<1>4. /\ [w EXCEPT !.pc = p, !.doc = d] \in Worker
      /\ [w EXCEPT !.pc = p, !.doc = d].pc = p
      /\ [w EXCEPT !.pc = p, !.doc = d].doc = d
  BY DEF Worker
<1> QED
  BY <1>1, <1>2, <1>3, <1>4

\* A thread's step, as the record it leaves.
LEMMA Record ==
  ASSUME NEW j \in Jobs, worker \in [Jobs -> Worker]
  PROVE  /\ \A pc \in WorkerPc : Goto(j, pc) => worker' = [worker EXCEPT ![j] = [worker[j] EXCEPT !.pc = pc]]
         /\ \A n \in Lines : Speak(j, n) =>
              worker' = [worker EXCEPT ![j] = [worker[j] EXCEPT !.pc = "say", !.line = n]]
BY DEF Goto, Speak, Worker

\* What each step of a thread keeps.
LEMMA IWorker ==
  ASSUME IInv, NEW j \in Jobs, WorkerStep(j) \/ DatabaseFails(j)
  PROVE  IInv'
<1>0. RTypes /\ Link(j) /\ Gone(j) /\ Shown(j) /\ worker \in [Jobs -> Worker]
  BY DEF IInv, RTypes
<1>1. Idle \in Worker /\ Idle.pc = "none"
  BY DEF Idle, Worker, WorkerPc
<1>2. worker[j] \in Worker /\ WorkerPc # {} /\ Lines = {1, 2, 3, 4} /\ FinalLine \in Lines
  BY <1>0, <1>1 DEF Worker, Lines, FinalLine
<1>3. ASSUME NEW pc \in WorkerPc, Goto(j, pc),
             UNCHANGED <<job, logs, docs, delete, removed>>,
             pc \in {"store", "select", "insert"} => job[j] # "deleted", pc # "update"
      PROVE  IInv'
  <2> DEFINE w == [worker[j] EXCEPT !.pc = pc]
  <2>1. w \in Worker /\ w.pc = pc
    BY <1>2 DEF Worker
  <2>2. worker' = [worker EXCEPT ![j] = w]
    BY <1>0, <1>3, Record
  <2> HIDE DEF w
  <2> QED
    BY <1>3, <2>1, <2>2, Moves
<1>4. ASSUME Ends(j), UNCHANGED <<job, logs, docs, delete, removed>> PROVE IInv'
  BY <1>1, <1>4, Moves DEF Ends
<1> USE DEF rows, requests
<1>5. CASE Load(j)
  BY <1>3, <1>4, <1>5 DEF Load, WorkerPc
<1>6. CASE Mark(j)
  <2>1. /\ job' = [job EXCEPT ![j] = "processing"] /\ Speak(j, 1)
        /\ UNCHANGED <<logs, docs, delete, removed>>
    BY <1>6 DEF Mark
  <2> DEFINE w == [worker[j] EXCEPT !.pc = "say", !.line = 1]
  <2>2. w \in Worker /\ w.pc = "say"
    BY <1>2 DEF Worker, WorkerPc
  <2>3. worker' = [worker EXCEPT ![j] = w]
    BY <1>0, <1>2, <2>1, Record
  <2> HIDE DEF w
  <2>4. worker'[j] = w /\ job'[j] = "processing"
    BY <1>0, <2>1, <2>3 DEF RTypes
  <2>5. RTypes'
    BY <1>0, <2>1, <2>2, <2>3 DEF RTypes, Status
  <2>6. Link(j)' /\ Gone(j)' /\ Shown(j)'
    BY <2>2, <2>4 DEF Link, Gone, Shown
  <2>7. Noted
    BY <2>1 DEF Noted
  <2>8. \A k \in Jobs : k # j => /\ job'[k] = job[k] /\ logs'[k] = logs[k]
                                 /\ worker'[k] = worker[k]
    BY <1>0, <2>1, <2>3 DEF RTypes
  <2> QED
    BY <2>5, <2>6, <2>7, <2>8, Writes
<1>7. CASE Say(j)
  BY <1>3, <1>7 DEF Say, WorkerPc, Exists
<1>8. CASE Store(j)
  <2>1. /\ worker[j].pc = "store" /\ UNCHANGED <<job, docs, delete, removed>>
        /\ logs' = [logs EXCEPT ![j] = logs[j] \cup {worker[j].line}]
        /\ Said(j)
    BY <1>8 DEF Store
  <2>2. job[j] # "deleted"
    BY <1>0, <2>1 DEF Gone, Locked
  <2>3. PICK w \in Worker : w.pc \in {"say", "index"} /\ worker' = [worker EXCEPT ![j] = w]
    <3>1. CASE worker[j].line = 1
      <4>1. worker' = [worker EXCEPT ![j] = [worker[j] EXCEPT !.pc = "say", !.line = 2]]
        BY <1>0, <1>2, <2>1, <3>1, Record DEF Said
      <4> QED
        BY <1>2, <4>1 DEF Worker, WorkerPc
    <3>2. CASE worker[j].line # 1
      <4>1. worker' = [worker EXCEPT ![j] = [worker[j] EXCEPT !.pc = "index"]]
        BY <1>0, <2>1, <3>2, Record DEF Said, WorkerPc
      <4> QED
        BY <1>2, <4>1 DEF Worker, WorkerPc
    <3> QED
      BY <3>1, <3>2
  <2>4. worker[j].line \in {0} \cup Lines
    BY <1>2 DEF Worker
  <2>5. worker'[j] = w
    BY <1>0, <2>3
  <2>6. RTypes'
    BY <1>0, <2>1, <2>3, <2>4 DEF RTypes
  <2>7. Link(j)' /\ Gone(j)' /\ Shown(j)'
    BY <1>0, <2>1, <2>2, <2>3, <2>5 DEF Link, Gone, Shown, DocsOf
  <2>8. Noted
    BY <2>1 DEF Noted
  <2>9. \A k \in Jobs : k # j => /\ job'[k] = job[k] /\ logs'[k] = logs[k]
                                 /\ worker'[k] = worker[k]
    BY <1>0, <2>1, <2>3 DEF RTypes
  <2> QED
    BY <2>6, <2>7, <2>8, <2>9, Writes
<1>9. CASE Ingest(j)
  <2>1. PICK ok \in BOOLEAN :
          worker' = [worker EXCEPT ![j].pc = "report", ![j].line = FinalLine, ![j].ok = ok]
    BY <1>9 DEF Ingest
  <2> DEFINE w == [worker[j] EXCEPT !.pc = "report", !.line = FinalLine, !.ok = ok]
  <2>2. w \in Worker /\ w.pc = "report"
    BY <1>2 DEF Worker, WorkerPc
  <2>3. worker' = [worker EXCEPT ![j] = w]
    BY <1>0, <2>1 DEF Worker
  <2> HIDE DEF w
  <2> QED
    BY <1>9, <2>2, <2>3, Moves DEF Ingest
<1>10. CASE Report(j)
  BY <1>3, <1>10 DEF Report, WorkerPc, Exists
<1>11. CASE Select(j)
  <2>1. job[j] # "deleted"
    BY <1>0, <1>11 DEF Select, Gone, Locked, Updated
  <2>2. CASE Goto(j, "insert")
    BY <1>3, <1>11, <2>1, <2>2 DEF Select, WorkerPc
  <2>3. ASSUME NEW d \in DocsOf(Source[j]),
               worker' = [worker EXCEPT ![j].pc = "update", ![j].doc = d]
        PROVE  IInv'
    <3> DEFINE w == [worker[j] EXCEPT !.pc = "update", !.doc = d]
    <3>1. d \in Jobs /\ d \in docs /\ Source[d] = Source[j]
      BY <1>0 DEF DocsOf, RTypes
    <3>2. w \in Worker /\ w.pc = "update" /\ w.doc = d
      BY <1>2, <3>1 DEF Worker, WorkerPc
    <3>3. worker' = [worker EXCEPT ![j] = w]
      BY <1>0, <2>3 DEF Worker
    <3> HIDE DEF w
    <3> QED
      BY <1>11, <2>1, <3>1, <3>2, <3>3, Moves DEF Select
  <2> QED
    BY <1>11, <2>2, <2>3 DEF Select
<1>12. CASE Commit(j)
  <2>1. /\ job' = [job EXCEPT ![j] = Outcome(j)]
        /\ logs' = [logs EXCEPT ![j] = logs[j] \cup {FinalLine}]
        /\ worker' = [worker EXCEPT ![j] = Idle]
        /\ UNCHANGED <<delete, removed>>
    BY <1>12 DEF Commit, Ends
  <2>2. \/ worker[j].pc = "insert" /\ docs' = docs \cup {j}
        \/ worker[j].pc = "update" /\ UNCHANGED docs
    BY <1>12 DEF Commit
  <2>3. RTypes'
    BY <1>0, <1>1, <1>2, <2>1, <2>2 DEF RTypes, Outcome, Status
  <2>4. Noted
    BY <2>1, <2>2 DEF Noted
  <2>5. worker'[j].pc = "none" /\ job'[j] \in {"completed", "failed"}
    BY <1>0, <1>1, <2>1 DEF RTypes, Outcome
  <2>6. Link(j)' /\ Gone(j)'
    BY <2>5 DEF Link, Gone
  <2>7. DocsOf(Source[j])' # {} \/ Source[j] \in removed'
    <3>1. CASE worker[j].pc = "insert" /\ docs' = docs \cup {j}
      BY <3>1 DEF DocsOf
    <3>2. CASE worker[j].pc = "update" /\ UNCHANGED docs
      BY <1>0, <2>1, <3>2 DEF DocsOf, Link
    <3> QED
      BY <2>2, <3>1, <3>2
  <2>8. Shown(j)'
    BY <2>7 DEF Shown
  <2>9. \A k \in Jobs : k # j => /\ job'[k] = job[k] /\ logs'[k] = logs[k]
                                 /\ worker'[k] = worker[k]
    BY <1>0, <2>1 DEF RTypes
  <2> QED
    BY <2>3, <2>4, <2>6, <2>8, <2>9, Writes
<1>13. CASE GivesUp(j)
  BY <1>4, <1>13 DEF GivesUp
<1>14. CASE Fails(j)
  <2>1. /\ worker' = [worker EXCEPT ![j] = Idle]
        /\ UNCHANGED <<docs, delete, removed>>
        /\ \/ logs' = logs
           \/ worker[j].pc = "select" /\ logs' = [logs EXCEPT ![j] = logs[j] \cup {FinalLine}]
        /\ \/ Exists(j) /\ job' = [job EXCEPT ![j] = "failed"]
           \/ ~Exists(j) /\ job' = job
    BY <1>14 DEF Fails, Ends
  <2>2. logs' \in [Jobs -> SUBSET ({0} \cup Lines)] /\ job' \in [Jobs -> Status]
    BY <1>0, <1>2, <2>1 DEF RTypes, Status
  <2>3. RTypes'
    BY <1>0, <1>1, <2>1, <2>2 DEF RTypes
  <2>4. worker'[j].pc = "none"
    BY <1>0, <1>1, <2>1
  <2>5. Link(j)'
    BY <2>4 DEF Link
  <2>6. Gone(j)'
    <3>1. CASE Exists(j)
      BY <1>0, <2>1, <3>1 DEF Gone, RTypes, Exists
    <3>2. CASE ~Exists(j)
      <4>1. job'[j] = "deleted" => logs'[j] = {}
        BY <1>0, <2>1, <3>2 DEF Gone, Locked, Updated
      <4> QED
        BY <2>4, <4>1 DEF Gone, Locked, Updated
    <3> QED
      BY <3>1, <3>2
  <2>7. Shown(j)'
    BY <1>0, <2>1 DEF Shown, DocsOf, RTypes
  <2>8. Noted
    BY <2>1 DEF Noted
  <2>9. \A k \in Jobs : k # j => /\ job'[k] = job[k] /\ logs'[k] = logs[k]
                                 /\ worker'[k] = worker[k]
    BY <1>0, <2>1 DEF RTypes
  <2> QED
    BY <2>3, <2>5, <2>6, <2>7, <2>8, <2>9, Writes
<1>15. CASE DatabaseFails(j)
  BY <1>4, <1>15 DEF DatabaseFails
<1> QED
  BY <1>5, <1>6, <1>7, <1>8, <1>9, <1>10, <1>11, <1>12, <1>13, <1>14, <1>15 DEF WorkerStep

\* A request that moves no thread.
LEMMA Asked ==
  ASSUME IInv, RTypes', Noted, worker' = worker,
         \A j \in Jobs : \/ job'[j] = job[j] /\ logs'[j] = logs[j]
                        \/ job'[j] \notin {"deleted", "completed"}
                        \/ /\ job'[j] = "deleted" /\ logs'[j] = {}
                           /\ worker[j].pc \notin {"store", "select", "insert", "update"}
  PROVE  IInv'
<1>1. ASSUME NEW j \in Jobs PROVE Link(j)' /\ Gone(j)' /\ Shown(j)'
  <2>1. CASE job'[j] = job[j] /\ logs'[j] = logs[j]
    BY <2>1, Others
  <2>2. Link(j)'
    BY DEF IInv, Link, Noted
  <2>3. CASE job'[j] \notin {"deleted", "completed"}
    BY <2>2, <2>3 DEF Gone, Shown
  <2>4. CASE /\ job'[j] = "deleted" /\ logs'[j] = {}
             /\ worker[j].pc \notin {"store", "select", "insert", "update"}
    BY <2>2, <2>4 DEF Gone, Shown, Locked, Updated
  <2> QED
    BY <2>1, <2>3, <2>4
<1> QED
  BY <1>1 DEF IInv

LEMMA IUser ==
  ASSUME IInv, NEW j \in Jobs, User(j)
  PROVE  IInv'
<1>0. RTypes
  BY DEF IInv
<1> USE DEF rows, requests, client
<1>1. CASE Submit(j)
  <2>1. /\ job[j] = "unborn" /\ job' = [job EXCEPT ![j] = "queued"] /\ Goto(j, "queued")
        /\ UNCHANGED <<logs, docs, delete, removed>>
    BY <1>1 DEF Submit
  <2> DEFINE w == [worker[j] EXCEPT !.pc = "queued"]
  <2>2. w \in Worker /\ w.pc = "queued"
    BY <1>0 DEF RTypes, Worker, WorkerPc
  <2>3. worker' = [worker EXCEPT ![j] = w]
    BY <1>0, <2>1 DEF RTypes, Goto, Worker
  <2> HIDE DEF w
  <2>4. worker'[j] = w /\ job'[j] = "queued"
    BY <1>0, <2>1, <2>3 DEF RTypes
  <2>5. RTypes'
    BY <1>0, <2>1, <2>2, <2>3 DEF RTypes, Status
  <2>6. Link(j)' /\ Gone(j)' /\ Shown(j)'
    BY <2>2, <2>4 DEF Link, Gone, Shown
  <2>7. Noted
    BY <2>1 DEF Noted
  <2>8. \A k \in Jobs : k # j => /\ job'[k] = job[k] /\ logs'[k] = logs[k]
                                 /\ worker'[k] = worker[k]
    BY <1>0, <2>1, <2>3 DEF RTypes
  <2> QED
    BY <2>5, <2>6, <2>7, <2>8, Writes
<1>2. CASE CancelRead(j) \/ Open(j)
  <2>1. UNCHANGED <<job, logs, docs, worker, delete, removed>>
    BY <1>2 DEF CancelRead, Open
  <2> QED
    BY <1>0, <2>1, Asked DEF RTypes, Noted
<1>3. CASE CancelWrite(j)
  <2>1. /\ UNCHANGED <<logs, docs, worker, delete, removed>>
        /\ job' = job \/ job' = [job EXCEPT ![j] = "cancelled"]
    BY <1>3 DEF CancelWrite
  <2>2. RTypes' /\ Noted
    BY <1>0, <2>1 DEF RTypes, Noted, Status
  <2>3. \A k \in Jobs : job'[k] = job[k] \/ job'[k] = "cancelled"
    BY <1>0, <2>1 DEF RTypes
  <2> QED
    BY <2>1, <2>2, <2>3, Asked
<1>4. CASE DeleteRead(j)
  <2>1. /\ UNCHANGED <<job, logs, docs, worker, removed>>
        /\ delete' = [delete EXCEPT ![j] = docs \cap {j}]
    BY <1>4 DEF DeleteRead
  <2>2. RTypes' /\ Noted
    BY <1>0, <2>1 DEF RTypes, Noted
  <2> QED
    BY <2>1, <2>2, Asked
<1>5. CASE DeleteWrite(j)
  <2>1. /\ ~Locked(j) /\ worker' = worker
        /\ job' = [job EXCEPT ![j] = "deleted"] /\ logs' = [logs EXCEPT ![j] = {}]
        /\ docs' = docs \ delete[j]
        /\ delete' = [delete EXCEPT ![j] = NotAsked]
    BY <1>5 DEF DeleteWrite
  <2>2. removed' = removed \cup {Source[d] : d \in delete[j]} /\ delete[j] # NotAsked
    BY <1>5 DEF DeleteWrite
  <2>3. Noted
    BY <2>1, <2>2 DEF Noted
  <2>4. removed' \subseteq Sources
    <3>1. delete[j] \subseteq Jobs
      BY <1>0, <2>2 DEF RTypes
    <3> QED
      BY <1>0, <2>2, <3>1, IngestionJobsAssumption DEF RTypes
  <2>5. RTypes'
    BY <1>0, <2>1, <2>4 DEF RTypes, Status, NotAsked
  <2>6. \A k \in Jobs : \/ job'[k] = job[k] /\ logs'[k] = logs[k]
                        \/ /\ job'[k] = "deleted" /\ logs'[k] = {}
                           /\ worker[k].pc \notin {"store", "select", "insert", "update"}
    BY <1>0, <2>1 DEF RTypes, Locked, Updated
  <2> QED
    BY <2>1, <2>3, <2>5, <2>6, Asked
<1>6. CASE DeleteDocument(j)
  <2>1. /\ UNCHANGED <<job, logs, worker, delete>> /\ j \in docs
        /\ docs' = docs \ {j} /\ removed' = removed \cup {Source[j]}
    BY <1>6 DEF DeleteDocument
  <2>2. RTypes' /\ Noted
    BY <1>0, <2>1, IngestionJobsAssumption DEF RTypes, Noted
  <2> QED
    BY <2>1, <2>2, Asked
<1> QED
  BY <1>1, <1>2, <1>3, <1>4, <1>5, <1>6 DEF User

LEMMA INext == IInv /\ [Next]_vars => IInv'
<1> SUFFICES ASSUME IInv, [Next]_vars PROVE IInv'
  OBVIOUS
<1>0. RTypes
  BY DEF IInv
<1>1. ASSUME NEW j \in Jobs, WorkerStep(j) \/ DatabaseFails(j) PROVE IInv'
  BY <1>1, IWorker
<1>2. ASSUME NEW j \in Jobs, User(j) PROVE IInv'
  BY <1>2, IUser
<1>3. CASE Restart
  <2>1. /\ worker' = [j \in Jobs |-> Idle] /\ delete' = [j \in Jobs |-> NotAsked]
        /\ UNCHANGED <<job, logs, docs, removed>>
    BY <1>3 DEF Restart, rows
  <2>2. RTypes'
    BY <1>0, <2>1 DEF RTypes, Idle, Worker, WorkerPc, NotAsked
  <2>3. ASSUME NEW j \in Jobs PROVE Link(j)' /\ Gone(j)' /\ Shown(j)'
    <3>1. worker'[j].pc = "none"
      BY <2>1 DEF Idle
    <3>2. Gone(j) /\ Shown(j)
      BY DEF IInv
    <3> QED
      BY <2>1, <3>1, <3>2 DEF Link, Gone, Shown, Locked, Updated, DocsOf
  <2> QED
    BY <2>2, <2>3 DEF IInv
<1>4. CASE ReadLogs \/ Subscribe \/ Leave \/ UNCHANGED vars
  <2>1. UNCHANGED <<job, logs, docs, worker, delete, removed>>
    BY <1>4 DEF ReadLogs, Subscribe, Leave, vars, rows, requests
  <2> QED
    BY <1>0, <2>1, Asked DEF RTypes, Noted
<1> QED
  BY <1>1, <1>2, <1>3, <1>4 DEF Next

\* What a step may do to a job that is deleted.
FinalStep ==
  \A j \in Jobs : job[j] = "deleted" =>
    /\ job'[j] = "deleted" /\ logs'[j] = {}
    /\ j \in docs' => j \in docs

LEMMA IFinal == IInv /\ IInv' /\ [Next]_vars => FinalStep
<1> SUFFICES ASSUME IInv, IInv', [Next]_vars, NEW j \in Jobs, job[j] = "deleted"
             PROVE  job'[j] = "deleted" /\ (j \in docs' => j \in docs)
  BY DEF FinalStep, IInv, Gone
<1>0. RTypes /\ Gone(j)
  BY DEF IInv
<1> USE DEF rows, requests, client
<1>1. ASSUME NEW k \in Jobs, Commit(k) PROVE job'[j] = "deleted" /\ (j \in docs' => j \in docs)
  <2>1. Locked(k)
    BY <1>1 DEF Commit, Locked, Updated
  <2>2. k # j
    BY <1>0, <2>1 DEF Gone
  <2> QED
    BY <1>0, <1>1, <2>2 DEF Commit, RTypes
<1>2. ASSUME NEW k \in Jobs, WorkerStep(k) \/ DatabaseFails(k), ~Commit(k)
      PROVE  job'[j] = "deleted" /\ docs' = docs
  <2>1. docs' = docs
    BY <1>2 DEF WorkerStep, Load, Mark, Say, Store, Ingest, Report, Select, GivesUp, Fails,
                DatabaseFails
  <2>2. CASE Mark(k)
    BY <1>0, <2>1, <2>2 DEF Mark, Exists, RTypes
  <2>3. CASE Fails(k)
    BY <1>0, <2>1, <2>3 DEF Fails, Exists, RTypes
  <2>4. CASE ~Mark(k) /\ ~Fails(k)
    BY <1>0, <1>2, <2>1, <2>4 DEF WorkerStep, Load, Say, Store, Ingest, Report, Select, GivesUp,
                DatabaseFails
  <2> QED
    BY <2>2, <2>3, <2>4
<1>3. ASSUME NEW k \in Jobs, User(k)
      PROVE  job'[j] = "deleted" /\ (j \in docs' => j \in docs)
  <2>1. docs' \subseteq docs
    BY <1>3 DEF User, Submit, CancelRead, CancelWrite, DeleteRead, DeleteWrite, DeleteDocument,
                Open
  <2>2. CASE Submit(k)
    BY <1>0, <2>1, <2>2 DEF Submit, RTypes
  <2>3. CASE CancelWrite(k)
    BY <1>0, <2>1, <2>3 DEF CancelWrite, Exists, RTypes
  <2>4. CASE DeleteWrite(k)
    BY <1>0, <2>1, <2>4 DEF DeleteWrite, RTypes
  <2>5. CASE CancelRead(k) \/ DeleteRead(k) \/ DeleteDocument(k) \/ Open(k)
    BY <1>0, <2>1, <2>5 DEF CancelRead, DeleteRead, DeleteDocument, Open
  <2> QED
    BY <1>3, <2>2, <2>3, <2>4, <2>5 DEF User
<1>4. CASE Restart \/ ReadLogs \/ Subscribe \/ Leave \/ UNCHANGED vars
  BY <1>4 DEF Restart, ReadLogs, Subscribe, Leave, vars
<1> QED
  BY <1>1, <1>2, <1>3, <1>4 DEF Next

\* A job is shown completed only with its file in the catalogue, unless the user took it
\* out: the two rows are one transaction, and the user's deletions note the name.
THEOREM CompletedIsCatalogued == Spec => []Catalogued
<1>1. IInv => Catalogued
  BY DEF IInv, Shown, Catalogued
<1> QED
  BY IInit, INext, <1>1, PTL DEF Spec

\* No step of a thread, a request or a restart brings a deleted job back, or writes a log
\* line or a document of it (run_ingestion_job beside delete_job).
THEOREM DeletedStays == Spec => DeleteIsFinal
<1>1. IInv /\ IInv' /\ [Next]_vars => [FinalStep]_vars
  BY IFinal
<1> QED
  BY IInit, INext, <1>1, PTL DEF Spec, DeleteIsFinal, FinalStep

-----------------------------------------------------------------------------
(* The client of a job's log. *)

\* Line n is below every line that the thread may still publish.
Past(n, w) ==
  /\ w.pc \in {"queued", "loaded"} => n < 1
  /\ w.pc = "say" => n < w.line
  /\ w.pc = "store" => n <= w.line
  /\ w.pc \in {"index", "report"} => n < FinalLine
  /\ w.pc = "select" => n <= FinalLine

\* What is stored of a job's log was published, and a job's thread runs once.
Told(j) ==
  /\ worker[j].pc \in {"say", "store"} => worker[j].line \in {1, 2}
  /\ job[j] = "unborn" => logs[j] = {} /\ worker[j].pc = "none"
  /\ \A n \in logs[j] : Past(n, worker[j])

\* A client that has read the stored lines is shown only later ones.
Follows ==
  /\ stream.pc # "off" => stream.job \in Jobs /\ job[stream.job] # "unborn"
  /\ stream.pc = "open" => shown = <<>>
  /\ stream.pc \in {"read", "live"} =>
       \A i \in DOMAIN shown : Past(shown[i], worker[stream.job])

STypes == stream \in Stream /\ shown \in Seq({0} \cup Lines)

SInv == STypes /\ LogOnce /\ Follows /\ \A j \in Jobs : Told(j)

LEMMA SInit == Init => SInv
<1>1. Init => STypes /\ LogOnce /\ Follows
  <2>1. Closed \in Stream /\ Closed.pc = "off"
    BY DEF Stream, Closed
  <2>2. <<>> \in Seq({0} \cup Lines) /\ DOMAIN <<>> = {}
    OBVIOUS
  <2> QED
    BY <2>1, <2>2 DEF Init, STypes, LogOnce, Follows
<1>2. Init => \A j \in Jobs : Told(j)
  <2>1. Idle.pc = "none"
    BY DEF Idle
  <2> QED
    BY <2>1 DEF Init, Told
<1> QED
  BY <1>1, <1>2 DEF SInv

\* A line later than all that was shown keeps the order.
LEMMA Later ==
  ASSUME NEW q \in Seq({0} \cup Lines), NEW m \in Lines,
         \A i, k \in DOMAIN q : i < k => q[i] < q[k],
         \A i \in DOMAIN q : q[i] < m
  PROVE  /\ Append(q, m) \in Seq({0} \cup Lines)
         /\ \A i, k \in DOMAIN Append(q, m) : i < k => Append(q, m)[i] < Append(q, m)[k]
         /\ \A i \in DOMAIN Append(q, m) : i \in DOMAIN q \/ Append(q, m)[i] = m
         /\ \A i \in DOMAIN q : Append(q, m)[i] = q[i]
<1>1. Append(q, m) \in Seq({0} \cup Lines)
  OBVIOUS
<1>2. /\ Len(q) \in Nat /\ DOMAIN q = 1 .. Len(q)
      /\ DOMAIN Append(q, m) = 1 .. Len(q) + 1
      /\ Append(q, m)[Len(q) + 1] = m
      /\ \A i \in 1 .. Len(q) : Append(q, m)[i] = q[i]
  OBVIOUS
<1>3. ASSUME NEW i \in DOMAIN Append(q, m), NEW k \in DOMAIN Append(q, m), i < k
      PROVE  Append(q, m)[i] < Append(q, m)[k]
  <2>1. i \in 1 .. Len(q) /\ (k \in 1 .. Len(q) \/ k = Len(q) + 1)
    BY <1>2, <1>3
  <2> QED
    BY <1>2, <1>3, <2>1
<1>4. ASSUME NEW i \in DOMAIN Append(q, m) PROVE i \in DOMAIN q \/ Append(q, m)[i] = m
  BY <1>2
<1> QED
  BY <1>1, <1>2, <1>3, <1>4

\* A step of the thread of k that publishes nothing, or a line later than all
\* that it published, and stores only what it has published.
LEMMA Advances ==
  ASSUME SInv, RTypes, NEW k \in Jobs, NEW w \in Worker, worker[k].pc # "none",
         worker' = [worker EXCEPT ![k] = w],
         w.pc \in {"say", "store"} => w.line \in {1, 2},
         \A n \in {0} \cup Lines : Past(n, worker[k]) => Past(n, w),
         \A j \in Jobs : (job'[j] = "unborn") <=> (job[j] = "unborn"),
         \A j \in Jobs \ {k} : logs'[j] = logs[j],
         \A n \in logs'[k] : n \in logs[k] \/ Past(n, w),
         \/ UNCHANGED client
         \/ \E m \in Lines : /\ Publish(k, m) /\ Past(m, w)
                             /\ \A n \in {0} \cup Lines : Past(n, worker[k]) => n < m
  PROVE  SInv'
<1>1. /\ worker'[k] = w /\ \A j \in Jobs \ {k} : worker'[j] = worker[j]
      /\ \A j \in Jobs : logs[j] \in SUBSET ({0} \cup Lines)
  BY DEF RTypes
<1>2. ASSUME NEW j \in Jobs PROVE Told(j)'
  <2>1. Told(j)
    BY DEF SInv
  <2>2. CASE j = k
    <3>1. \A n \in logs'[k] : Past(n, w)
      BY <1>1, <2>1, <2>2 DEF Told
    <3> QED
      BY <1>1, <2>1, <2>2, <3>1 DEF Told, Past
  <2>3. CASE j # k
    <3>1. worker'[j] = worker[j] /\ logs'[j] = logs[j]
      BY <1>1, <2>3
    <3> QED
      BY <2>1, <3>1 DEF Told, Past
  <2> QED
    BY <2>2, <2>3
<1>s. STypes /\ LogOnce /\ Follows
  BY DEF SInv
<1>3. CASE UNCHANGED client
  <2>1. stream' = stream /\ shown' = shown
    BY <1>3 DEF client
  <2>2. STypes' /\ LogOnce'
    BY <1>s, <2>1 DEF STypes, LogOnce
  <2>3. ASSUME stream.pc \in {"read", "live"}, NEW i \in DOMAIN shown
        PROVE  Past(shown[i], worker'[stream.job])
    <3>1. shown[i] \in {0} \cup Lines /\ stream.job \in Jobs
      BY <1>s, <2>3 DEF STypes, Follows
    <3>2. Past(shown[i], worker[stream.job])
      BY <1>s, <2>3 DEF Follows
    <3>3. CASE stream.job = k
      BY <1>1, <3>1, <3>2, <3>3
    <3>4. CASE stream.job # k
      <4>1. worker'[stream.job] = worker[stream.job]
        BY <1>1, <3>1, <3>4
      <4> QED
        BY <3>2, <4>1
    <3> QED
      BY <3>3, <3>4
  <2>4. Follows'
    BY <1>s, <2>1, <2>3 DEF Follows, Past
  <2> QED
    BY <1>2, <2>2, <2>4 DEF SInv
<1>4. ASSUME NEW m \in Lines, stream.pc = "live", stream.job = k,
             shown' = Append(shown, m), stream' \in {Closed, stream}, Past(m, w),
             \A n \in {0} \cup Lines : Past(n, worker[k]) => n < m
      PROVE  SInv'
  <2>1. ASSUME NEW i \in DOMAIN shown PROVE shown[i] < m /\ Past(shown[i], w)
    <3>1. shown[i] \in {0} \cup Lines
      BY <1>s DEF STypes
    <3>2. Past(shown[i], worker[k])
      BY <1>s, <1>4 DEF Follows
    <3> QED
      BY <1>4, <3>1, <3>2
  <2>2. shown \in Seq({0} \cup Lines) /\ \A i, n \in DOMAIN shown : i < n => shown[i] < shown[n]
    BY <1>s DEF STypes, LogOnce
  <2>3. /\ shown' \in Seq({0} \cup Lines)
        /\ \A i, n \in DOMAIN shown' : i < n => shown'[i] < shown'[n]
        /\ \A i \in DOMAIN shown' : i \in DOMAIN shown \/ shown'[i] = m
        /\ \A i \in DOMAIN shown : shown'[i] = shown[i]
    BY <1>4, <2>1, <2>2, Later
  <2>4. stream' \in Stream
    <3>1. stream \in Stream /\ Closed \in Stream
      BY <1>s DEF STypes, Stream, Closed
    <3> QED
      BY <1>4, <3>1
  <2>5. ASSUME NEW i \in DOMAIN shown' PROVE Past(shown'[i], w)
    <3>1. CASE i \in DOMAIN shown
      <4>1. Past(shown[i], w) /\ shown'[i] = shown[i]
        BY <2>1, <2>3, <3>1
      <4> QED
        BY <4>1
    <3>2. CASE shown'[i] = m
      BY <1>4, <3>2
    <3> QED
      BY <2>3, <3>1, <3>2
  <2>6. Follows'
    <3>1. CASE stream' = stream
      <4>1. \A i \in DOMAIN shown' : Past(shown'[i], worker'[k])
        BY <1>1, <2>5
      <4> QED
        BY <1>s, <1>4, <3>1, <4>1 DEF Follows, Past
    <3>2. CASE stream' = Closed
      BY <3>2 DEF Follows, Closed
    <3> QED
      BY <1>4, <3>1, <3>2
  <2>7. STypes' /\ LogOnce'
    BY <2>3, <2>4 DEF STypes, LogOnce
  <2> QED
    BY <1>2, <2>6, <2>7 DEF SInv
<1> QED
  BY <1>3, <1>4 DEF Publish

\* No step of a thread shows the client a line it has had, or an earlier one.
LEMMA SWorker ==
  ASSUME SInv, RTypes, NEW j \in Jobs, WorkerStep(j) \/ DatabaseFails(j)
  PROVE  SInv'
<1> DEFINE x == worker[j]
<1>0. /\ x \in Worker /\ worker \in [Jobs -> Worker] /\ job \in [Jobs -> Status]
      /\ logs \in [Jobs -> SUBSET ({0} \cup Lines)]
  BY DEF RTypes
<1>1. Idle \in Worker /\ \A n : Past(n, Idle)
  BY DEF Idle, Worker, WorkerPc, Past
<1>2. Lines = {1, 2, 3, 4} /\ FinalLine = 3 /\ {0} \cup Lines = 0 .. 4
  BY DEF Lines, FinalLine
<1>t. Told(j)
  BY DEF SInv
<1>3. x.pc # "none" => job[j] # "unborn"
  BY <1>t DEF Told
<1>4. ASSUME NEW w \in Worker, x.pc # "none", worker' = [worker EXCEPT ![j] = w],
             w.pc \notin {"say", "store"}, UNCHANGED <<job, logs, client>>,
             \A n \in {0} \cup Lines : Past(n, x) => Past(n, w)
      PROVE  SInv'
  BY <1>4, Advances
<1>5. ASSUME x.pc # "none", Ends(j), UNCHANGED <<job, logs, client>> PROVE SInv'
  <2>1. Idle.pc = "none"
    BY DEF Idle
  <2> QED
    BY <1>1, <1>4, <1>5, <2>1 DEF Ends
<1>g. ASSUME NEW pc \in WorkerPc
      PROVE  /\ [x EXCEPT !.pc = pc] \in Worker /\ [x EXCEPT !.pc = pc].pc = pc
             /\ [x EXCEPT !.pc = pc].line = x.line
             /\ Goto(j, pc) => worker' = [worker EXCEPT ![j] = [x EXCEPT !.pc = pc]]
  BY <1>0 DEF Goto, Worker
<1>p. ASSUME NEW n \in Lines
      PROVE  LET w == [x EXCEPT !.pc = "say", !.line = n]
             IN  /\ w \in Worker /\ w.pc = "say" /\ w.line = n
                 /\ Speak(j, n) => worker' = [worker EXCEPT ![j] = w]
  BY <1>0 DEF Speak, Worker, WorkerPc
<1> HIDE DEF x
<1> USE DEF rows, requests
<1>6. CASE Load(j)
  <2>1. /\ x.pc = "queued" /\ UNCHANGED <<job, logs, client>>
        /\ Goto(j, "loaded") \/ Ends(j)
    BY <1>6 DEF Load, client, x
  <2>2. CASE Goto(j, "loaded")
    <3> DEFINE w == [x EXCEPT !.pc = "loaded"]
    <3>1. w \in Worker /\ w.pc = "loaded" /\ worker' = [worker EXCEPT ![j] = w]
      BY <1>g, <2>2 DEF WorkerPc
    <3> HIDE DEF w
    <3>2. \A n \in {0} \cup Lines : Past(n, x) => Past(n, w)
      BY <2>1, <3>1 DEF Past
    <3> QED
      BY <1>4, <2>1, <3>1, <3>2
  <2> QED
    BY <1>5, <2>1, <2>2
<1>7. CASE Mark(j)
  <2>1. /\ x.pc = "loaded" /\ UNCHANGED <<logs, client>> /\ Speak(j, 1)
        /\ job' = [job EXCEPT ![j] = "processing"]
    BY <1>7 DEF Mark, client, x
  <2>2. \A k \in Jobs : (job'[k] = "unborn") <=> (job[k] = "unborn")
    BY <1>0, <1>3, <2>1
  <2> DEFINE w == [x EXCEPT !.pc = "say", !.line = 1]
  <2>3. w \in Worker /\ w.pc = "say" /\ w.line = 1 /\ worker' = [worker EXCEPT ![j] = w]
    BY <1>2, <1>p, <2>1
  <2> HIDE DEF w
  <2>4. \A n \in {0} \cup Lines : Past(n, x) => Past(n, w)
    BY <2>1, <2>3 DEF Past
  <2> QED
    BY <2>1, <2>2, <2>3, <2>4, Advances DEF x
<1>8. CASE Say(j)
  <2>1. /\ x.pc = "say" /\ Publish(j, x.line) /\ Goto(j, "store") /\ UNCHANGED <<job, logs>>
    BY <1>8 DEF Say, x
  <2>2. x.line \in {1, 2}
    BY <1>t, <2>1 DEF Told, x
  <2> DEFINE w == [x EXCEPT !.pc = "store"]
  <2>3. w \in Worker /\ w.pc = "store" /\ w.line = x.line /\ worker' = [worker EXCEPT ![j] = w]
    BY <1>g, <2>1 DEF WorkerPc
  <2> HIDE DEF w
  <2>4. \A n \in {0} \cup Lines : Past(n, x) => Past(n, w) /\ n < x.line
    BY <1>2, <2>1, <2>2, <2>3 DEF Past
  <2>5. Past(x.line, w) /\ x.line \in Lines
    BY <1>2, <2>2, <2>3 DEF Past
  <2> QED
    BY <2>1, <2>2, <2>3, <2>4, <2>5, Advances DEF x
<1>9. CASE Store(j)
  <2>1. /\ x.pc = "store" /\ UNCHANGED <<job, client>> /\ Said(j)
        /\ logs' = [logs EXCEPT ![j] = logs[j] \cup {x.line}]
    BY <1>9 DEF Store, client, x
  <2>2. x.line \in {1, 2}
    BY <1>t, <2>1 DEF Told, x
  <2>3. PICK w \in Worker : /\ worker' = [worker EXCEPT ![j] = w]
                            /\ \/ x.line = 1 /\ w.pc = "say" /\ w.line = 2
                               \/ x.line = 2 /\ w.pc = "index"
    <3>1. CASE x.line = 1
      <4>1. Speak(j, 2)
        BY <2>1, <3>1 DEF Said, x
      <4> QED
        BY <1>2, <1>p, <3>1, <4>1
    <3>2. CASE x.line = 2
      <4>1. Goto(j, "index")
        BY <2>1, <3>2 DEF Said, x
      <4> QED
        BY <1>g, <3>2, <4>1 DEF WorkerPc
    <3> QED
      BY <2>2, <3>1, <3>2
  <2>4. \A n \in {0} \cup Lines : Past(n, x) => Past(n, w)
    BY <1>2, <2>1, <2>3 DEF Past
  <2>5. Past(x.line, w)
    BY <1>2, <2>3 DEF Past
  <2>6. /\ \A k \in Jobs \ {j} : logs'[k] = logs[k]
        /\ \A n \in logs'[j] : n \in logs[j] \/ Past(n, w)
    BY <1>0, <2>1, <2>5
  <2> QED
    BY <2>1, <2>3, <2>4, <2>6, Advances DEF x
<1>10. CASE Ingest(j)
  <2>1. x.pc = "index" /\ UNCHANGED <<job, logs, client>>
    BY <1>10 DEF Ingest, client, x
  <2>2. PICK ok \in BOOLEAN :
          worker' = [worker EXCEPT ![j].pc = "report", ![j].line = FinalLine, ![j].ok = ok]
    BY <1>10 DEF Ingest
  <2> DEFINE w == [x EXCEPT !.pc = "report", !.line = FinalLine, !.ok = ok]
  <2>3. w \in Worker /\ w.pc = "report"
    BY <1>0, <1>2 DEF Worker, WorkerPc
  <2>4. worker' = [worker EXCEPT ![j] = w]
    BY <1>0, <2>2 DEF Worker, x
  <2> HIDE DEF w
  <2>5. \A n \in {0} \cup Lines : Past(n, x) => Past(n, w)
    BY <2>1, <2>3 DEF Past
  <2> QED
    BY <1>4, <2>1, <2>3, <2>4, <2>5
<1>11. CASE Report(j)
  <2>1. /\ x.pc = "report" /\ Publish(j, FinalLine) /\ Goto(j, "select")
        /\ UNCHANGED <<job, logs>>
    BY <1>11 DEF Report, x
  <2> DEFINE w == [x EXCEPT !.pc = "select"]
  <2>2. w \in Worker /\ w.pc = "select" /\ worker' = [worker EXCEPT ![j] = w]
    BY <1>g, <2>1 DEF WorkerPc
  <2> HIDE DEF w
  <2>3. \A n \in {0} \cup Lines : Past(n, x) => Past(n, w) /\ n < FinalLine
    BY <1>2, <2>1, <2>2 DEF Past
  <2>4. Past(FinalLine, w) /\ FinalLine \in Lines
    BY <1>2, <2>2 DEF Past
  <2> QED
    BY <2>1, <2>2, <2>3, <2>4, Advances DEF x
<1>12. CASE Select(j)
  <2>1. x.pc = "select" /\ UNCHANGED <<job, logs, client>>
    BY <1>12 DEF Select, client, x
  <2>2. PICK w \in Worker : /\ worker' = [worker EXCEPT ![j] = w]
                            /\ w.pc \in {"insert", "update"}
    <3>1. CASE Goto(j, "insert")
      BY <1>g, <3>1 DEF WorkerPc
    <3>2. ASSUME NEW d \in DocsOf(Source[j]),
                 worker' = [worker EXCEPT ![j].pc = "update", ![j].doc = d]
          PROVE  \E w \in Worker : /\ worker' = [worker EXCEPT ![j] = w]
                                   /\ w.pc \in {"insert", "update"}
      <4> DEFINE w == [x EXCEPT !.pc = "update", !.doc = d]
      <4>1. d \in Jobs
        BY DEF DocsOf, RTypes
      <4>2. w \in Worker /\ w.pc = "update"
        BY <1>0, <4>1 DEF Worker, WorkerPc
      <4>3. worker' = [worker EXCEPT ![j] = w]
        BY <1>0, <3>2 DEF Worker, x
      <4> HIDE DEF w
      <4> QED
        BY <4>2, <4>3
    <3> QED
      BY <1>12, <3>1, <3>2 DEF Select
  <2>3. \A n \in {0} \cup Lines : Past(n, x) => Past(n, w)
    BY <2>2 DEF Past
  <2> QED
    BY <1>4, <2>1, <2>2, <2>3
<1>13. CASE Commit(j)
  <2>1. /\ x.pc \in {"insert", "update"} /\ UNCHANGED client
        /\ job' = [job EXCEPT ![j] = Outcome(j)]
        /\ logs' = [logs EXCEPT ![j] = logs[j] \cup {FinalLine}]
        /\ worker' = [worker EXCEPT ![j] = Idle]
    BY <1>13 DEF Commit, Ends, client, x
  <2>2. \A k \in Jobs : (job'[k] = "unborn") <=> (job[k] = "unborn")
    BY <1>0, <1>3, <2>1 DEF Outcome
  <2>3. /\ \A k \in Jobs \ {j} : logs'[k] = logs[k]
        /\ \A n \in logs'[j] : n \in logs[j] \/ Past(n, Idle)
    BY <1>0, <1>1, <2>1
  <2>4. Idle.pc = "none"
    BY DEF Idle
  <2> QED
    BY <1>1, <2>1, <2>2, <2>3, <2>4, Advances DEF x
<1>14. CASE GivesUp(j)
  BY <1>5, <1>14 DEF GivesUp, client, x
<1>15. CASE Fails(j)
  <2>1. /\ x.pc \in {"index", "select"}
        /\ worker' = [worker EXCEPT ![j] = Idle]
        /\ logs' = logs \/ logs' = [logs EXCEPT ![j] = logs[j] \cup {FinalLine}]
        /\ \/ job' = [job EXCEPT ![j] = "failed"] /\ Publish(j, 4)
           \/ UNCHANGED <<job, client>>
    BY <1>15 DEF Fails, Ends, x
  <2>2. \A k \in Jobs : (job'[k] = "unborn") <=> (job[k] = "unborn")
    BY <1>0, <1>3, <2>1
  <2>3. /\ \A k \in Jobs \ {j} : logs'[k] = logs[k]
        /\ \A n \in logs'[j] : n \in logs[j] \/ Past(n, Idle)
    BY <1>0, <1>1, <2>1
  <2>4. \A n \in {0} \cup Lines : Past(n, x) => n < 4
    BY <1>2, <2>1 DEF Past
  <2>5. Idle.pc = "none"
    BY DEF Idle
  <2>6. UNCHANGED client \/ \E m \in Lines : /\ Publish(j, m) /\ Past(m, Idle)
                             /\ \A n \in {0} \cup Lines : Past(n, x) => n < m
    BY <1>1, <1>2, <2>1, <2>4
  <2> QED
    BY <1>1, <2>1, <2>2, <2>3, <2>5, <2>6, Advances DEF x
<1>16. CASE DatabaseFails(j)
  BY <1>5, <1>16 DEF DatabaseFails, client, x
<1> QED
  BY <1>6, <1>7, <1>8, <1>9, <1>10, <1>11, <1>12, <1>13, <1>14, <1>15, <1>16 DEF WorkerStep

\* A step that moves no thread and only empties logs.
LEMMA Stands ==
  ASSUME SInv, UNCHANGED worker,
         \A j \in Jobs : /\ logs'[j] \in {logs[j], {}}
                         /\ (job'[j] = "unborn") => (job[j] = "unborn")
  PROVE  \A j \in Jobs : Told(j)'
<1> SUFFICES ASSUME NEW j \in Jobs PROVE Told(j)'
  OBVIOUS
<1>1. Told(j)
  BY DEF SInv
<1> QED
  BY <1>1 DEF Told, Past

LEMMA SNext == SInv /\ RTypes /\ [Next]_vars => SInv'
<1> SUFFICES ASSUME SInv, RTypes, [Next]_vars PROVE SInv'
  OBVIOUS
<1>s. STypes /\ LogOnce /\ Follows
  BY DEF SInv
<1>i. \A n \in {0} \cup Lines : n \in Int
  BY DEF Lines
<1>e. Closed \in Stream /\ Closed.pc = "off" /\ <<>> \in Seq({0} \cup Lines) /\ DOMAIN <<>> = {}
  BY DEF Stream, Closed
<1>1. ASSUME NEW j \in Jobs, WorkerStep(j) \/ DatabaseFails(j) PROVE SInv'
  BY <1>1, SWorker
<1>2. ASSUME UNCHANGED <<worker, client>>,
             \A j \in Jobs : /\ logs'[j] \in {logs[j], {}}
                             /\ (job'[j] = "unborn") => (job[j] = "unborn")
      PROVE SInv'
  <2>1. \A j \in Jobs : Told(j)'
    BY <1>2, Stands
  <2>2. STypes' /\ LogOnce' /\ Follows'
    BY <1>s, <1>2 DEF client, STypes, LogOnce, Follows, Past
  <2> QED
    BY <2>1, <2>2 DEF SInv
<1>3. ASSUME NEW j \in Jobs, Submit(j) PROVE SInv'
  <2>1. /\ job[j] = "unborn" /\ job' = [job EXCEPT ![j] = "queued"] /\ Goto(j, "queued")
        /\ UNCHANGED <<logs, client>>
    BY <1>3 DEF Submit, client
  <2>2. /\ logs'[j] = {} /\ job'[j] = "queued"
        /\ worker'[j].pc = "queued"
        /\ \A k \in Jobs \ {j} : job'[k] = job[k] /\ logs'[k] = logs[k] /\ worker'[k] = worker[k]
    BY <2>1 DEF Goto, RTypes, SInv, Told, Worker
  <2>3. ASSUME NEW k \in Jobs PROVE Told(k)'
    BY <2>2 DEF SInv, Told, Past
  <2>4. stream' = stream /\ shown' = shown /\ (stream.pc # "off" => stream.job \in Jobs \ {j})
    BY <1>s, <2>1 DEF client, Follows
  <2>5. STypes' /\ LogOnce'
    BY <1>s, <2>4 DEF STypes, LogOnce
  <2>6. Follows'
    BY <1>s, <2>2, <2>4 DEF Follows, Past
  <2> QED
    BY <2>3, <2>5, <2>6 DEF SInv
<1>4. ASSUME NEW j \in Jobs,
             CancelRead(j) \/ CancelWrite(j) \/ DeleteRead(j) \/ DeleteWrite(j) \/ DeleteDocument(j)
      PROVE  SInv'
  <2>1. UNCHANGED <<worker, client>>
    BY <1>4 DEF CancelRead, CancelWrite, DeleteRead, DeleteWrite, DeleteDocument, client
  <2>2. CASE CancelRead(j) \/ DeleteRead(j) \/ DeleteDocument(j)
    BY <1>2, <2>1, <2>2 DEF CancelRead, DeleteRead, DeleteDocument, rows
  <2>3. CASE CancelWrite(j)
    <3>1. logs' = logs /\ (job' = job \/ job' = [job EXCEPT ![j] = "cancelled"])
      BY <2>3 DEF CancelWrite
    <3> QED
      BY <1>2, <2>1, <3>1 DEF RTypes
  <2>4. CASE DeleteWrite(j)
    <3>1. job' = [job EXCEPT ![j] = "deleted"] /\ logs' = [logs EXCEPT ![j] = {}]
      BY <2>4 DEF DeleteWrite
    <3> QED
      BY <1>2, <2>1, <3>1 DEF RTypes
  <2> QED
    BY <1>4, <2>2, <2>3, <2>4
<1>5. ASSUME NEW j \in Jobs, Open(j) PROVE SInv'
  <2>1. /\ Exists(j) /\ shown' = <<>> /\ UNCHANGED <<worker, job, logs>>
        /\ stream' = [pc |-> "open", job |-> j, running |-> job[j] \in {"queued", "processing"}]
    BY <1>5 DEF Open, rows
  <2>2. stream' \in Stream /\ stream'.pc = "open" /\ stream'.job = j
    BY <2>1 DEF Stream
  <2>3. \A k \in Jobs : Told(k)'
    BY <2>1, Stands
  <2>4. STypes' /\ LogOnce'
    BY <1>e, <2>1, <2>2 DEF STypes, LogOnce
  <2>5. Follows'
    BY <2>1, <2>2 DEF Follows, Exists
  <2> QED
    BY <2>3, <2>4, <2>5 DEF SInv
<1>6. CASE Restart \/ Leave
  <2>1. stream' = Closed /\ shown' = <<>> /\ UNCHANGED <<job, logs>>
    BY <1>6 DEF Restart, Leave, rows
  <2>2. ASSUME NEW j \in Jobs PROVE Told(j)'
    <3>1. worker'[j] = worker[j] \/ worker'[j] = Idle
      BY <1>6 DEF Restart, Leave
    <3>2. Idle.pc = "none"
      BY DEF Idle
    <3> QED
      BY <2>1, <3>1, <3>2 DEF SInv, Told, Past
  <2>3. STypes' /\ LogOnce' /\ Follows'
    BY <1>e, <2>1 DEF STypes, LogOnce, Follows
  <2> QED
    BY <2>2, <2>3 DEF SInv
<1>7. CASE ReadLogs
  <2>1. /\ stream.pc = "open" /\ shown' \in Oldest(logs[stream.job])
        /\ stream' = [stream EXCEPT !.pc = "read"] \/ stream' = Closed
        /\ UNCHANGED <<worker, job, logs>>
    BY <1>7 DEF ReadLogs, rows
  <2>2. stream.job \in Jobs /\ job[stream.job] # "unborn"
    BY <1>s, <2>1 DEF Follows
  <2>3. logs[stream.job] \in SUBSET ({0} \cup Lines) /\ FinalLine \in Nat
    BY <2>2 DEF RTypes, FinalLine
  <2>4. PICK n \in 0 .. FinalLine : shown' \in [1 .. n -> logs[stream.job]]
    BY <2>1 DEF Oldest
  <2>5. n \in Nat /\ shown' \in Seq({0} \cup Lines) /\ \A i \in DOMAIN shown' : shown'[i] \in logs[stream.job]
    BY <2>3, <2>4
  <2>6. LogOnce'
    BY <2>1 DEF Oldest, LogOnce
  <2>7. [stream EXCEPT !.pc = "read"] \in Stream /\ [stream EXCEPT !.pc = "read"].job = stream.job
        /\ [stream EXCEPT !.pc = "read"].pc = "read"
    BY <1>s DEF STypes, Stream
  <2>8. STypes'
    BY <1>e, <2>1, <2>5, <2>7 DEF STypes
  <2>9. \A j \in Jobs : Told(j)'
    BY <2>1, Stands
  <2>10. \A i \in DOMAIN shown' : Past(shown'[i], worker[stream.job])
    BY <2>2, <2>5 DEF SInv, Told
  <2>11. Follows'
    <3>1. CASE stream' = Closed
      BY <1>e, <3>1 DEF Follows
    <3>2. CASE stream' = [stream EXCEPT !.pc = "read"]
      <4>1. stream'.pc = "read" /\ stream'.job = stream.job
        BY <2>7, <3>2
      <4> QED
        BY <2>1, <2>2, <2>10, <4>1 DEF Follows, Past
    <3> QED
      BY <2>1, <3>1, <3>2
  <2> QED
    BY <2>6, <2>8, <2>9, <2>11 DEF SInv
<1>8. CASE Subscribe
  <2>1. /\ stream.pc = "read" /\ stream' = [stream EXCEPT !.pc = "live"]
        /\ UNCHANGED <<worker, job, logs, shown>>
    BY <1>8 DEF Subscribe, rows
  <2>2. stream' \in Stream /\ stream'.pc = "live" /\ stream'.job = stream.job
    BY <1>s, <2>1 DEF STypes, Stream
  <2>3. \A j \in Jobs : Told(j)'
    BY <2>1, Stands
  <2>4. STypes' /\ LogOnce' /\ Follows'
    BY <1>s, <2>1, <2>2 DEF STypes, LogOnce, Follows, Past
  <2> QED
    BY <2>3, <2>4 DEF SInv
<1>9. CASE UNCHANGED vars
  BY <1>2, <1>9 DEF vars, rows
<1> QED
  BY <1>1, <1>3, <1>4, <1>5, <1>6, <1>7, <1>8, <1>9 DEF Next, User

\* A client of the log stream is shown every line at most once and in order, whenever it
\* connects: what it finds stored was published before, so the channel it then subscribes
\* to only brings later lines, through cancellations, deletions, crashes and restarts.
THEOREM LinesOnce == Spec => []LogOnce
<1>1. SInv => LogOnce
  BY DEF SInv
<1>2. IInv => RTypes
  BY DEF IInv
<1> QED
  BY IInit, INext, SInit, SNext, <1>1, <1>2, PTL DEF Spec
=============================================================================
