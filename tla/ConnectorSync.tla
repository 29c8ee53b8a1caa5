---------------------------- MODULE ConnectorSync ----------------------------
(***************************************************************************)
(* One connector of the Celery-driven sync framework: the remote provider, *)
(* the rows connectors / connector_sync_states / connector_files, the      *)
(* discover_files_task and download_and_enqueue_task instances in flight,  *)
(* the Celery beat job, the asyncio health scheduler and the user's        *)
(* connect / sync / pause / resume / disconnect requests.                  *)
(*                                                                         *)
(* A definition marked "Variant" is a wrong version of the one after it,   *)
(* and is not part of the model: the runs must notice it in its place.     *)
(*                                                                         *)
(* A step is what the code does between two points where another process   *)
(* can be seen: a commit, a provider call or the publication of a task.    *)
(***************************************************************************)
EXTENDS Integers

CONSTANTS
  Files,          \* files the provider may hold
  Rows,           \* connector_files rows one remote file may come to own
  Syncs,          \* discover_files_task instances in flight
  NoFile, NoRow,  \* neither a file nor a row
  Loads,          \* download_and_enqueue_task instances in flight
  MaxRetries,     \* connectors/tasks.py MAX_RETRIES
  MaxClock,       \* bound on provider-side changes
  Faults,         \* kinds of fault that may happen, a subset of FaultKinds
  MaxFaults,      \* bound on their number
  Actors,         \* requests and background jobs that act, a subset of ActorKinds
  YieldsChanges,  \* incremental_sync yields FileChange, as test_orchestrator's adapter
  GivesToken,     \* the adapter defines get_initial_change_token
  CursorMode,     \* when incremental_sync writes cursor.token
  EagerLoads      \* connector.sync_state & co. can be read in an AsyncSession

FaultKinds == {"crash", "error", "database", "ingest", "lost", "refresh"}
ActorKinds == {"trigger", "pause", "disconnect", "beat", "refresh", "status"}

ASSUME ConnectorSyncAssumption ==
  /\ NoFile \notin Files /\ NoRow \notin Rows
  /\ MaxRetries \in Nat
  /\ MaxClock \in Nat
  /\ Faults \subseteq FaultKinds
  /\ MaxFaults \in Nat
  /\ Actors \subseteq ActorKinds
  /\ YieldsChanges \in BOOLEAN
  /\ GivesToken \in BOOLEAN
  /\ CursorMode \in {"never", "withToken", "always"}
  /\ EagerLoads \in BOOLEAN

NoVersion == -1                            \* older than every version

MaxDiscoverRetries == 1                    \* discover_files_task(max_retries=1)

Status == {"connected", "syncing", "paused", "error", "gone"}
RowStatus == {"absent", "syncing", "failed", "deleted"}
Version == Nat \cup {NoVersion}

SyncPc == {"none", "queued", "loaded", "listing", "writing", "sending"}
LoadPc == {"none", "queued", "held", "saved"}

SyncRec == [pc : SyncPc, inc : BOOLEAN, retries : Nat, st : Status,
            at : Nat, cursor : Version, todo : SUBSET Files, gone : SUBSET Files,
            file : Files \cup {NoFile}, row : Rows \cup {NoRow},
            copy : RowStatus]
LoadRec == [pc : LoadPc, file : Files \cup {NoFile}, ver : Version,
            retries : Nat]

VARIABLES
  clock, ver, live,           \* provider: changes so far, last change of a file, is it there
  status, autoSync,           \* connectors row; status "gone" once it is deleted
  due, age, token,            \* sync state: interval elapsed, age of last start, change_token
  row,                        \* connector_files rows: sync_status of each
  sync, load,                 \* Celery tasks in flight
  sched,                      \* where the asyncio scheduler's cycle stands
  faults,                     \* faults so far
  seen,                       \* provider time up to which a file was handed to a download
  indexed                     \* newest version of a file whose chunks were indexed

provider == <<clock, ver, live>>
state == <<status, autoSync, due, age, token>>
aux == <<seen, indexed>>
vars == <<provider, state, row, sync, load, sched, faults, aux>>

-----------------------------------------------------------------------------
NoSync == [pc |-> "none", inc |-> FALSE, retries |-> 0, st |-> "connected",
           at |-> 0, cursor |-> NoVersion, todo |-> {}, gone |-> {}, file |-> NoFile, row |-> NoRow,
           copy |-> "absent"]
QueuedSync(inc, n) == [NoSync EXCEPT !.pc = "queued", !.inc = inc, !.retries = n]

NoLoad == [pc |-> "none", file |-> NoFile, ver |-> NoVersion, retries |-> 0]
QueuedLoad(f, n) == [NoLoad EXCEPT !.pc = "queued", !.file = f, !.retries = n]

MaxOf(a, b) == IF a < b THEN b ELSE a
Running(s) == sync[s].pc \notin {"none", "queued"}
FilesLeft(s) == sync[s].todo \cup sync[s].gone

\* A fault of kind k is taken from the budget.
Fault(k) == k \in Faults /\ faults < MaxFaults /\ faults' = faults + 1

\* discover_files_task.delay(): the broker takes the task.
QueueSync(inc) ==
  \E s \in Syncs : /\ sync[s].pc = "none"
                   /\ sync' = [sync EXCEPT ![s] = QueuedSync(inc, 0)]

-----------------------------------------------------------------------------
\* connect_connector / connect_connector_direct: the row is committed, then the
\* first full sync is queued; a broker that is down is only logged.
Init ==
  /\ clock = 0
  /\ ver = [f \in Files |-> 0]
  /\ live \in [Files -> BOOLEAN]
  /\ status = "connected" /\ autoSync = TRUE
  /\ due = TRUE /\ age = "never" /\ token = NoVersion
  /\ row = [f \in Files |-> [r \in Rows |-> "absent"]]
  /\ \/ /\ sync \in [Syncs -> {NoSync, QueuedSync(FALSE, 0)}]
        /\ \E s \in Syncs : \A t \in Syncs : sync[t].pc = "queued" <=> t = s
     \/ "lost" \in Faults /\ sync = [s \in Syncs |-> NoSync]
  /\ load = [l \in Loads |-> NoLoad]
  /\ sched = "idle"
  /\ faults = 0
  /\ seen = [f \in Files |-> NoVersion]
  /\ indexed = [f \in Files |-> NoVersion]

-----------------------------------------------------------------------------
(* The provider. *)

Change(f) ==
  /\ clock < MaxClock
  /\ clock' = clock + 1
  /\ ver' = [ver EXCEPT ![f] = clock + 1]
  /\ live' = [live EXCEPT ![f] = TRUE]
  /\ UNCHANGED <<state, row, sync, load, sched, faults, aux>>

Remove(f) ==
  /\ live[f] /\ clock < MaxClock
  /\ clock' = clock + 1
  /\ ver' = [ver EXCEPT ![f] = clock + 1]
  /\ live' = [live EXCEPT ![f] = FALSE]
  /\ UNCHANGED <<state, row, sync, load, sched, faults, aux>>

-----------------------------------------------------------------------------
(* discover_files_task and the orchestrator's two loops. *)

\* db.get(Connector) and _get_fresh_token_sync; the session keeps its copy of
\* connector.status (expire_on_commit=False).
Start(s) ==
  /\ sync[s].pc = "queued"
  /\ sync' = [sync EXCEPT ![s] =
                IF status = "gone" THEN NoSync
                ELSE [@ EXCEPT !.pc = "loaded", !.st = status]]
  /\ UNCHANGED <<provider, state, row, load, sched, faults, aux>>

\* Variant: a file whose download failed counts as unknown.
TrackedUnlessFailed(f) == \E r \in Rows : row[f][r] \notin {"absent", "failed"}

\* The file has a row: the query of ConnectorFile by remote id finds one.
Tracked(f) == \E r \in Rows : row[f][r] # "absent"

\* Variant: the provider's answer starts one change late.
ListedLate(inc) == {f \in Files : live[f] /\ (inc => ver[f] > token + 1)}

\* What the adapter will yield: everything that is there in a full sync or
\* without a token, else what changed after the token.  Deletions are part of
\* the feed only for an adapter that yields FileChange.
Listed(inc) == {f \in Files : live[f] /\ (inc => ver[f] > token)}
Deleted(inc) == {f \in Files : /\ inc /\ YieldsChanges /\ token # NoVersion
                               /\ ~live[f] /\ ver[f] > token}

\* What the adapter leaves in cursor.token, NoVersion when it leaves it alone (or
\* writes back the token it was given, which emits no UPDATE).
Cursor(inc) ==
  IF /\ inc /\ token # clock
     /\ CursorMode = "always" \/ (CursorMode = "withToken" /\ token # NoVersion)
  THEN clock ELSE NoVersion

\* authenticate, then the commit of "running"/"syncing", then the first page.
\* The UPDATE of connectors is emitted only if the session's copy differs.
Begin(s) ==
  /\ sync[s].pc = "loaded" /\ status # "gone"
  /\ status' = IF sync[s].st = "syncing" THEN status ELSE "syncing"
  /\ age' = "fresh"
  /\ sync' = [sync EXCEPT ![s] = [@ EXCEPT !.pc = "listing", !.at = clock,
                                           !.cursor = Cursor(sync[s].inc),
                                           !.todo = Listed(sync[s].inc),
                                           !.gone = Deleted(sync[s].inc)]]
  /\ UNCHANGED <<provider, autoSync, due, token, row, load, sched, faults, aux>>

\* db.query(ConnectorFile)...first(): any one of the file's rows.
Lookup(s, f) ==
  /\ sync[s].pc = "listing" /\ f \in FilesLeft(s)
  /\ sync[s].inc => YieldsChanges
  /\ \/ \E r \in Rows :
          /\ row[f][r] # "absent"
          /\ sync' = [sync EXCEPT ![s] = [@ EXCEPT !.pc = "writing", !.file = f,
                                                   !.row = r, !.copy = row[f][r]]]
          /\ UNCHANGED seen
     \/ /\ ~Tracked(f)
        /\ f \in sync[s].todo
        /\ sync' = [sync EXCEPT ![s] = [@ EXCEPT !.pc = "writing", !.file = f,
                                                   !.copy = "absent"]]
        /\ UNCHANGED seen
     \/ /\ ~Tracked(f)
        /\ f \notin sync[s].todo
        /\ sync' = [sync EXCEPT ![s] = [@ EXCEPT !.gone = sync[s].gone \ {f}]]
        /\ seen' = [seen EXCEPT ![f] = MaxOf(@, sync[s].at)]
  /\ UNCHANGED <<provider, state, row, load, sched, faults, indexed>>

\* The value the loop gives sync_status.
Wanted(s) == IF sync[s].file \in sync[s].todo THEN "syncing" ELSE "deleted"

\* Variant: no foreign key from connector_files to connectors.
InsertUnchecked(f) ==
  \E r \in Rows : row[f][r] = "absent" /\ row' = [row EXCEPT ![f][r] = "syncing"]

\* The INSERT of a row, which needs its connector.
Insert(f) == status # "gone" /\ InsertUnchecked(f)

\* db.commit() of the row: an INSERT, an UPDATE of
\* a row that is still there, or nothing when the copy already has the value.
Write(s) ==
  LET f == sync[s].file IN
  /\ sync[s].pc = "writing"
  /\ \/ sync[s].copy = "absent" /\ Insert(f)
     \/ /\ sync[s].copy \notin {"absent", Wanted(s)}
        /\ row[f][sync[s].row] # "absent"
        /\ row' = [row EXCEPT ![f][sync[s].row] = Wanted(s)]
     \/ sync[s].copy = Wanted(s) /\ UNCHANGED row
  /\ IF f \in sync[s].todo
     THEN /\ sync' = [sync EXCEPT ![s] = [@ EXCEPT !.pc = "sending"]]
          /\ UNCHANGED seen
     ELSE /\ sync' = [sync EXCEPT ![s] =
                [@ EXCEPT !.pc = "listing", !.gone = sync[s].gone \ {f},
                          !.file = NoFile, !.row = NoRow, !.copy = "absent"]]
          /\ seen' = [seen EXCEPT ![f] = MaxOf(@, sync[s].at)]
  /\ UNCHANGED <<provider, state, load, sched, faults, indexed>>

\* download_and_enqueue_task.delay()
Send(s) ==
  LET f == sync[s].file IN
  /\ sync[s].pc = "sending"
  /\ \E l \in Loads : /\ load[l].pc = "none"
                      /\ load' = [load EXCEPT ![l] = QueuedLoad(f, 0)]
  /\ sync' = [sync EXCEPT ![s] =
                [@ EXCEPT !.pc = "listing", !.todo = sync[s].todo \ {f},
                          !.file = NoFile, !.row = NoRow, !.copy = "absent"]]
  /\ seen' = [seen EXCEPT ![f] = MaxOf(@, sync[s].at)]
  /\ UNCHANGED <<provider, state, row, sched, faults, indexed>>

\* Variants: the provider's position at the end of the loop; the cursor even
\* where the adapter left none.
NewTokenAtEnd(s) == IF sync[s].inc THEN clock ELSE token
NewTokenUnset(s) == IF sync[s].inc THEN sync[s].cursor ELSE token

\* The token the sync leaves: a full sync asks the provider for its present
\* position; an incremental one stores what the adapter put in the cursor.
NewToken(s) ==
  IF ~sync[s].inc THEN IF GivesToken THEN clock ELSE token
  ELSE IF sync[s].cursor # NoVersion THEN sync[s].cursor ELSE token

Finish(s) ==
  /\ sync[s].pc = "listing" /\ FilesLeft(s) = {} /\ status # "gone"
  /\ status' = "connected" /\ due' = FALSE
  /\ token' = NewToken(s)
  /\ sync' = [sync EXCEPT ![s] = NoSync]
  /\ UNCHANGED <<provider, autoSync, age, row, load, sched, faults, aux>>

\* except Exception: self.retry.  The connector row is left as it is.
Retry(s) ==
  sync' = [sync EXCEPT ![s] = IF @.retries < MaxDiscoverRetries
                              THEN QueuedSync(@.inc, @.retries + 1) ELSE NoSync]

\* The exceptions the code itself raises: change.change_type on an item that is
\* not a FileChange, and flushes against rows that a disconnect deleted.
Raise(s) ==
  /\ \/ /\ sync[s].pc = "listing" /\ FilesLeft(s) # {}
        /\ sync[s].inc /\ ~YieldsChanges
     \/ /\ sync[s].pc = "loaded" /\ status = "gone"
     \/ /\ sync[s].pc = "listing" /\ FilesLeft(s) = {} /\ status = "gone"
     \/ /\ sync[s].pc = "writing" /\ sync[s].copy = "absent" /\ status = "gone"
     \/ /\ sync[s].pc = "writing" /\ sync[s].copy \notin {"absent", Wanted(s)}
        /\ row[sync[s].file][sync[s].row] = "absent"
  /\ Retry(s)
  /\ UNCHANGED <<provider, state, row, load, sched, faults, aux>>

\* A provider, broker or database error; a worker lost (acks_late with
\* task_reject_on_worker_lost: the broker delivers the task again).
SyncFails(s) ==
  /\ Running(s) /\ Fault("error") /\ Retry(s)
  /\ UNCHANGED <<provider, state, row, load, sched, aux>>

\* Variant: acknowledged when taken, so that a lost worker loses the task.
SyncLost(s) ==
  /\ Running(s) /\ Fault("crash")
  /\ sync' = [sync EXCEPT ![s] = NoSync]
  /\ UNCHANGED <<provider, state, row, load, sched, aux>>

SyncCrashes(s) ==
  /\ Running(s) /\ Fault("crash")
  /\ sync' = [sync EXCEPT ![s] = QueuedSync(@.inc, @.retries)]
  /\ UNCHANGED <<provider, state, row, load, sched, aux>>

-----------------------------------------------------------------------------
(* download_and_enqueue_task *)

Download(l) ==
  LET f == load[l].file IN
  /\ load[l].pc = "queued"
  /\ \/ status = "gone" /\ load' = [load EXCEPT ![l] = NoLoad]
     \/ /\ status # "gone" /\ live[f]
        /\ load' = [load EXCEPT ![l] = [@ EXCEPT !.pc = "held", !.ver = ver[f]]]
  /\ UNCHANGED <<provider, state, row, sync, sched, faults, aux>>

\* The IngestionJob is created and the file's first row goes back to "syncing".
Save(l) ==
  LET f == load[l].file IN
  /\ load[l].pc = "held"
  /\ \/ \E r \in Rows : /\ row[f][r] # "absent"
                        /\ row' = [row EXCEPT ![f][r] = "syncing"]
     \/ ~Tracked(f) /\ UNCHANGED row
  /\ load' = [load EXCEPT ![l] = [@ EXCEPT !.pc = "saved"]]
  /\ UNCHANGED <<provider, state, sync, sched, faults, aux>>

\* run_ingestion_job swallows its own errors: the task succeeds either way.
Ingest(l) ==
  /\ load[l].pc = "saved"
  /\ indexed' = [indexed EXCEPT ![load[l].file] = MaxOf(@, load[l].ver)]
  /\ load' = [load EXCEPT ![l] = NoLoad]
  /\ UNCHANGED <<provider, state, row, sync, sched, faults, seen>>

IngestFails(l) ==
  /\ load[l].pc = "saved" /\ Fault("ingest")
  /\ load' = [load EXCEPT ![l] = NoLoad]
  /\ UNCHANGED <<provider, state, row, sync, sched, aux>>

\* The task is queued again with a back-off, or given up.
LoadRetry(l) ==
  load' = [load EXCEPT ![l] = IF @.retries < MaxRetries
                              THEN QueuedLoad(@.file, @.retries + 1) ELSE NoLoad]

\* The handler marks the file's first row "failed" before it retries.
MarkFailed(f) ==
  \/ \E r \in Rows : /\ row[f][r] # "absent"
                     /\ row' = [row EXCEPT ![f][r] = "failed"]
  \/ ~Tracked(f) /\ UNCHANGED row

\* The provider no longer has the file.
LoadMissing(l) ==
  /\ load[l].pc = "queued" /\ status # "gone" /\ ~live[load[l].file]
  /\ MarkFailed(load[l].file) /\ LoadRetry(l)
  /\ UNCHANGED <<provider, state, sync, sched, faults, aux>>

LoadFails(l) ==
  /\ load[l].pc = "held" \/ (load[l].pc = "queued" /\ status # "gone")
  /\ Fault("error") /\ MarkFailed(load[l].file) /\ LoadRetry(l)
  /\ UNCHANGED <<provider, state, sync, sched, aux>>

\* The commit of the job fails: the session needs a rollback that the handler
\* does not do, its query raises and a bare except drops that.
SaveFails(l) ==
  /\ load[l].pc = "held" /\ Fault("database") /\ LoadRetry(l)
  /\ UNCHANGED <<provider, state, row, sync, sched, aux>>

\* Variant: acknowledged when taken.
LoadLost(l) ==
  /\ load[l].pc \in {"held", "saved"} /\ Fault("crash")
  /\ load' = [load EXCEPT ![l] = NoLoad]
  /\ UNCHANGED <<provider, state, row, sync, sched, aux>>

LoadCrashes(l) ==
  /\ load[l].pc \in {"held", "saved"} /\ Fault("crash")
  /\ load' = [load EXCEPT ![l] = QueuedLoad(@.file, @.retries)]
  /\ UNCHANGED <<provider, state, row, sync, sched, aux>>

-----------------------------------------------------------------------------
(* The user's requests. *)

Trigger(inc) ==
  /\ "trigger" \in Actors
  /\ status # "gone" /\ status' = "syncing"
  /\ QueueSync(inc)
  /\ UNCHANGED <<provider, autoSync, due, age, token, row, load, sched, faults, aux>>

\* The status is committed first: the publication fails and the handler writes
\* "error", or the server stops in between.
TriggerLost ==
  /\ "trigger" \in Actors
  /\ status # "gone" /\ Fault("lost")
  /\ status' \in {"error", "syncing"}
  /\ UNCHANGED <<provider, autoSync, due, age, token, row, sync, load, sched, aux>>

Pause ==
  /\ "pause" \in Actors
  /\ status # "gone"
  /\ status' = "paused" /\ autoSync' = FALSE
  /\ UNCHANGED <<provider, due, age, token, row, sync, load, sched, faults, aux>>

Resume ==
  /\ "pause" \in Actors
  /\ status # "gone"
  /\ status' = "connected" /\ autoSync' = TRUE
  /\ UNCHANGED <<provider, due, age, token, row, sync, load, sched, faults, aux>>

\* The DELETE cascades to connector_sync_states and connector_files; the tasks
\* in flight stay.  connector.credential is a lazy relationship.
Disconnect ==
  /\ "disconnect" \in Actors
  /\ status # "gone" /\ EagerLoads
  /\ status' = "gone"
  /\ row' = [f \in Files |-> [r \in Rows |-> "absent"]]
  /\ UNCHANGED <<provider, autoSync, due, age, token, sync, load, sched, faults, aux>>

-----------------------------------------------------------------------------
(* Celery beat, and the asyncio scheduler. *)

Beat ==
  /\ "beat" \in Actors
  /\ status = "connected" /\ autoSync /\ due
  /\ QueueSync(TRUE)
  /\ UNCHANGED <<provider, state, row, load, sched, faults, aux>>

\* _refresh_expiring_tokens: the rows are selected, then a token endpoint is
\* awaited, then the outcome is written over whatever happened meanwhile.
RefreshScan ==
  /\ "refresh" \in Actors
  /\ sched = "idle" /\ EagerLoads /\ status \in {"connected", "syncing"}
  /\ sched' = "refreshing"
  /\ UNCHANGED <<provider, state, row, sync, load, faults, aux>>

RefreshEnds ==
  /\ sched = "refreshing" /\ sched' = "idle"
  /\ \/ UNCHANGED <<status, faults>>
     \/ status # "gone" /\ Fault("refresh") /\ status' = "error"
  /\ UNCHANGED <<provider, autoSync, due, age, token, row, sync, load, aux>>

\* _update_connector_statuses
StatusScan ==
  /\ "status" \in Actors
  /\ sched = "idle" /\ EagerLoads /\ status = "syncing" /\ age = "old"
  /\ sched' = "counting"
  /\ UNCHANGED <<provider, state, row, sync, load, faults, aux>>

\* The count of the connector's files in ("pending", "syncing").
Pending == \E f \in Files, r \in Rows : row[f][r] = "syncing"

StatusEnds ==
  /\ sched = "counting" /\ sched' = "idle"
  /\ IF status # "gone" /\ ~Pending
     THEN status' = "connected" /\ due' = FALSE
     ELSE UNCHANGED <<status, due>>
  /\ UNCHANGED <<provider, autoSync, age, token, row, sync, load, faults, aux>>

IntervalElapses ==
  /\ "beat" \in Actors
  /\ ~due /\ due' = TRUE
  /\ UNCHANGED <<provider, status, autoSync, age, token, row, sync, load, sched, faults, aux>>

StuckTimeoutElapses ==
  /\ "status" \in Actors
  /\ age = "fresh" /\ age' = "old"
  /\ UNCHANGED <<provider, status, autoSync, due, token, row, sync, load, sched, faults, aux>>

-----------------------------------------------------------------------------
SyncStep(s) == Start(s) \/ Begin(s) \/ (\E f \in Files : Lookup(s, f)) \/ Write(s)
               \/ Send(s) \/ Finish(s) \/ Raise(s)
LoadStep(l) == Download(l) \/ Save(l) \/ Ingest(l) \/ LoadMissing(l)
Scheduler == Beat \/ RefreshScan \/ RefreshEnds \/ StatusScan \/ StatusEnds
Clocks == IntervalElapses \/ StuckTimeoutElapses
User == Trigger(TRUE) \/ Trigger(FALSE) \/ TriggerLost \/ Pause \/ Resume \/ Disconnect

Next ==
  \/ \E f \in Files : Change(f) \/ Remove(f)
  \/ \E s \in Syncs : SyncStep(s) \/ SyncFails(s) \/ SyncCrashes(s)
  \/ \E l \in Loads : LoadStep(l) \/ IngestFails(l) \/ LoadFails(l) \/ SaveFails(l)
                        \/ LoadCrashes(l)
  \/ Scheduler \/ Clocks \/ User

Spec == Init /\ [][Next]_vars

\* A worker takes every queued task and runs it, beat fires, the scheduler's
\* cycle goes on and time passes.  Nothing obliges the provider or the user.
Fairness ==
  /\ \A s \in Syncs : WF_vars(SyncStep(s))
  /\ \A l \in Loads : WF_vars(LoadStep(l))
  /\ WF_vars(Beat) /\ WF_vars(RefreshEnds) /\ WF_vars(StatusScan)
  /\ WF_vars(StatusEnds) /\ WF_vars(Clocks)

FairSpec == Spec /\ Fairness
-----------------------------------------------------------------------------
(* Properties *)

TypeOK ==
  /\ clock \in Nat
  /\ ver \in [Files -> Nat] /\ live \in [Files -> BOOLEAN]
  /\ status \in Status /\ autoSync \in BOOLEAN
  /\ due \in BOOLEAN /\ age \in {"never", "fresh", "old"} /\ token \in Version
  /\ row \in [Files -> [Rows -> RowStatus]]
  /\ sync \in [Syncs -> SyncRec] /\ load \in [Loads -> LoadRec]
  /\ sched \in {"idle", "refreshing", "counting"}
  /\ faults \in Nat
  /\ seen \in [Files -> Version] /\ indexed \in [Files -> Version]

\* Every file that is there and last changed no later than time t has been
\* handed to a download since.
Covered(t) == \A f \in Files : live[f] /\ ver[f] <= t => seen[f] >= ver[f]

\* No lost change: the stored change token never claims a change of a live file
\* that no sync has dispatched, whatever syncs overlap, fail, crash and are
\* delivered again (orchestrator.py stores the token after the loop, not before).
NoLostChange == Covered(token)

\* Disconnecting leaves nothing behind: once the connector is deleted no task
\* still in flight re-creates one of its file rows.
NoOrphanRows ==
  status = "gone" => \A f \in Files, r \in Rows : row[f][r] = "absent"

\* "One row per file tracked by a connector" (db/models/connector.py).
OneRowPerFile ==
  \A f \in Files : \A r1, r2 \in Rows :
    row[f][r1] # "absent" /\ row[f][r2] # "absent" => r1 = r2

\* A file a sync has handed out is never silently lost: its version is indexed,
\* a download that will fetch it (or holds it) is still in flight, its row says
\* "failed", or the sync that is writing that row again has yet to send.
InFlight(f) ==
  \E l \in Loads : /\ load[l].file = f
                   /\ load[l].pc = "queued" \/ load[l].ver >= ver[f]
Accounted ==
  \A f \in Files :
    live[f] /\ status # "gone" /\ seen[f] >= ver[f] =>
      \/ indexed[f] >= ver[f]
      \/ InFlight(f)
      \/ \E r \in Rows : row[f][r] = "failed"
      \/ \E s \in Syncs : sync[s].pc = "sending" /\ sync[s].file = f

\* The change token never moves backwards.
TokenNeverRegresses == [][token' >= token]_vars

\* A change of a file reaches the index, with no user at hand, as long as the
\* connector stays connected and on auto-sync.
CatchesUp ==
  \A f \in Files, v \in 0 .. MaxClock :
    (live[f] /\ ver[f] = v) ~>
      (indexed[f] >= v \/ ver[f] # v \/ ~autoSync \/ status \in {"gone", "error"})

\* The connector implements the change feed.
Feed == INSTANCE ChangeFeed WITH Files <- Files, MaxClock <- MaxClock, clock <- clock,
                                 ver <- ver, live <- live, token <- token, seen <- seen
FeedSpec == Feed!Spec
=============================================================================
