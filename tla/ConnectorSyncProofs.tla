------------------------- MODULE ConnectorSyncProofs -------------------------
(***************************************************************************)
(* Theorems about ConnectorSync, for any number of files, rows, tasks and  *)
(* faults.                                                                 *)
(***************************************************************************)
EXTENDS ConnectorSync, TLAPS

\* The fields of a task record.
LEMMA SyncFields ==
  ASSUME NEW x \in SyncRec
  PROVE  /\ x.pc \in SyncPc /\ x.inc \in BOOLEAN /\ x.retries \in Nat
         /\ x.st \in Status /\ x.at \in Nat /\ x.cursor \in Version
         /\ x.todo \in SUBSET Files /\ x.gone \in SUBSET Files
         /\ x.file \in Files \cup {NoFile} /\ x.row \in Rows \cup {NoRow}
         /\ x.copy \in RowStatus
  BY DEF SyncRec

LEMMA NoSyncType == NoSync \in SyncRec
  BY DEF NoSync, SyncRec, SyncPc, Status, Version, NoVersion, RowStatus

LEMMA QueuedSyncType ==
  ASSUME NEW inc \in BOOLEAN, NEW n \in Nat
  PROVE  QueuedSync(inc, n) \in SyncRec
  BY DEF QueuedSync, NoSync, SyncRec, SyncPc, Status, Version, NoVersion, RowStatus

LEMMA LoadFields ==
  ASSUME NEW x \in LoadRec
  PROVE  /\ x.pc \in LoadPc /\ x.file \in Files \cup {NoFile}
         /\ x.ver \in Version /\ x.retries \in Nat
  BY DEF LoadRec

LEMMA NoLoadType == NoLoad \in LoadRec
  BY DEF NoLoad, LoadRec, LoadPc, Version, NoVersion

LEMMA QueuedLoadType ==
  ASSUME NEW f \in Files \cup {NoFile}, NEW n \in Nat
  PROVE  QueuedLoad(f, n) \in LoadRec
  BY DEF QueuedLoad, NoLoad, LoadRec, LoadPc, Version, NoVersion

\* One row set to v.
LEMMA RowUpdate ==
  ASSUME NEW t \in [Files -> [Rows -> RowStatus]], NEW f \in Files, NEW r \in Rows,
         NEW v \in RowStatus
  PROVE  [t EXCEPT ![f] = [t[f] EXCEPT ![r] = v]] \in [Files -> [Rows -> RowStatus]]
<1>1. [t[f] EXCEPT ![r] = v] \in [Rows -> RowStatus]
  OBVIOUS
<1> QED
  BY <1>1

\* A task that is past its first step is about one of the files, and one of
\* the rows once it has found one.
SyncAssigned(x) ==
  /\ x.pc \in {"writing", "sending"} => x.file \in Files
  /\ x.pc = "writing" /\ x.copy # "absent" => x.row \in Rows
LoadAssigned(x) == x.pc # "none" => x.file \in Files

Assigned ==
  /\ \A s \in Syncs : SyncAssigned(sync[s])
  /\ \A l \in Loads : LoadAssigned(load[l])

TInv == TypeOK /\ Assigned

\* The types and the assignments are preserved by every step.
LEMMA TypesInvariant == Spec => []TInv
<1> USE NoSyncType, NoLoadType
<1>1. Init => TInv
  <2> SUFFICES ASSUME Init PROVE TInv
    OBVIOUS
  <2>1. QueuedSync(FALSE, 0) \in SyncRec
    BY QueuedSyncType
  <2>2. TypeOK
    BY <2>1 DEF Init, TypeOK, Version, NoVersion, Status, RowStatus
  <2>3. Assigned
    BY DEF Init, Assigned, SyncAssigned, LoadAssigned, NoSync, NoLoad, QueuedSync
  <2> QED
    BY <2>2, <2>3 DEF TInv
<1>2. TInv /\ [Next]_vars => TypeOK'
  <2> SUFFICES ASSUME TypeOK, Assigned, [Next]_vars PROVE TypeOK'
    BY DEF TInv
  <2> USE DEF provider, state, aux, TypeOK
  <2>1. ASSUME NEW f \in Files, Change(f) \/ Remove(f) PROVE TypeOK'
    <3>1. ver' \in [Files -> Nat]
      BY <2>1 DEF Change, Remove
    <3>2. live' \in [Files -> BOOLEAN]
      BY <2>1 DEF Change, Remove
    <3>3. clock' \in Nat
      BY <2>1 DEF Change, Remove
    <3> QED
      BY <2>1, <3>1, <3>2, <3>3 DEF Change, Remove
  <2>2. ASSUME NEW s \in Syncs, SyncStep(s) \/ SyncFails(s) \/ SyncCrashes(s)
        PROVE TypeOK'
    <3> DEFINE x == sync[s]
    <3>f. x \in SyncRec
      OBVIOUS
    <3>1. CASE Start(s)
      <4>1. [x EXCEPT !.pc = "loaded", !.st = status] \in SyncRec
        BY <3>f DEF SyncRec, SyncPc
      <4> QED
        BY <3>1, <4>1 DEF Start
    <3>2. CASE Begin(s)
      <4>1. /\ Listed(x.inc) \in SUBSET Files /\ Deleted(x.inc) \in SUBSET Files
            /\ Cursor(x.inc) \in Version
        BY DEF Listed, Deleted, Cursor, Version
      <4>2. [x EXCEPT !.pc = "listing", !.at = clock, !.cursor = Cursor(x.inc),
                      !.todo = Listed(x.inc), !.gone = Deleted(x.inc)] \in SyncRec
        BY <3>f, <4>1 DEF SyncRec, SyncPc
      <4> QED
        BY <3>2, <4>2 DEF Begin, Status
    <3>3. ASSUME NEW f \in Files, Lookup(s, f) PROVE TypeOK'
      <4>1. ASSUME NEW r \in Rows
            PROVE  [x EXCEPT !.pc = "writing", !.file = f, !.row = r,
                             !.copy = row[f][r]] \in SyncRec
        <5>1. row[f][r] \in RowStatus
          OBVIOUS
        <5> QED
          BY <3>f, <5>1 DEF SyncRec, SyncPc
      <4>2. /\ [x EXCEPT !.pc = "writing", !.file = f, !.copy = "absent"] \in SyncRec
            /\ [x EXCEPT !.gone = x.gone \ {f}] \in SyncRec
        BY <3>f DEF SyncRec, SyncPc, RowStatus
      <4>3. sync' \in [Syncs -> SyncRec]
        BY <3>3, <4>1, <4>2 DEF Lookup
      <4>4. seen' \in [Files -> Version]
        BY <3>3, <3>f, SyncFields DEF Lookup, MaxOf, Version
      <4> QED
        BY <3>3, <4>3, <4>4 DEF Lookup
    <3>4. CASE Write(s)
      <4>1. /\ [x EXCEPT !.pc = "sending"] \in SyncRec
            /\ [x EXCEPT !.pc = "listing", !.gone = x.gone \ {x.file}, !.file = NoFile,
                         !.row = NoRow, !.copy = "absent"] \in SyncRec
        BY <3>f DEF SyncRec, SyncPc, RowStatus
      <4>2. sync' \in [Syncs -> SyncRec]
        BY <3>4, <4>1 DEF Write
      <4>3. row' \in [Files -> [Rows -> RowStatus]]
        <5>1. /\ x.file \in Files /\ Wanted(s) \in RowStatus /\ "syncing" \in RowStatus
              /\ x.copy # "absent" => x.row \in Rows
          BY <3>4 DEF Write, Wanted, RowStatus, Assigned, SyncAssigned, LoadAssigned
        <5> QED
          <6>1. ASSUME NEW r \in Rows, row' = [row EXCEPT ![x.file][r] = "syncing"]
                PROVE  row' \in [Files -> [Rows -> RowStatus]]
            BY <5>1, <6>1, RowUpdate
          <6>2. ASSUME x.copy # "absent", row' = [row EXCEPT ![x.file][x.row] = Wanted(s)]
                PROVE  row' \in [Files -> [Rows -> RowStatus]]
            BY <5>1, <6>2, RowUpdate
          <6> QED
            BY <3>4, <6>1, <6>2 DEF Write, Insert, InsertUnchecked
      <4>4. seen' \in [Files -> Version]
        BY <3>4, <3>f, SyncFields DEF Write, MaxOf, Version
      <4> QED
        BY <3>4, <4>2, <4>3, <4>4 DEF Write
    <3>5. CASE Send(s)
      <4>1. [x EXCEPT !.pc = "listing", !.todo = x.todo \ {x.file}, !.file = NoFile,
                      !.row = NoRow, !.copy = "absent"] \in SyncRec
        BY <3>f DEF SyncRec, SyncPc, RowStatus
      <4>2. sync' \in [Syncs -> SyncRec]
        BY <3>5, <4>1 DEF Send
      <4>3. QueuedLoad(x.file, 0) \in LoadRec
        BY <3>f, SyncFields, QueuedLoadType
      <4>4. load' \in [Loads -> LoadRec]
        BY <3>5, <4>3 DEF Send
      <4>5. seen' \in [Files -> Version]
        BY <3>5, <3>f, SyncFields DEF Send, MaxOf, Version
      <4> QED
        BY <3>5, <4>2, <4>4, <4>5 DEF Send
    <3>6. CASE Finish(s)
      <4>1. NewToken(s) \in Version
        BY <3>f, SyncFields DEF NewToken, Version
      <4> QED
        BY <3>6, <4>1 DEF Finish, Status
    <3>7. Retry(s) => sync' \in [Syncs -> SyncRec]
      <4>1. QueuedSync(x.inc, x.retries + 1) \in SyncRec
        BY <3>f, SyncFields, QueuedSyncType
      <4> QED
        BY <4>1 DEF Retry
    <3>8. CASE Raise(s)
      BY <3>7, <3>8 DEF Raise
    <3>9. CASE SyncFails(s)
      BY <3>7, <3>9 DEF SyncFails, Fault
    <3>10. CASE SyncCrashes(s)
      <4>1. QueuedSync(x.inc, x.retries) \in SyncRec
        BY <3>f, SyncFields, QueuedSyncType
      <4> QED
        BY <3>10, <4>1 DEF SyncCrashes, Fault
    <3> QED
      BY <2>2, <3>1, <3>2, <3>3, <3>4, <3>5, <3>6, <3>8, <3>9, <3>10 DEF SyncStep
  <2>3. ASSUME NEW l \in Loads,
               LoadStep(l) \/ IngestFails(l) \/ LoadFails(l) \/ SaveFails(l) \/ LoadCrashes(l)
        PROVE TypeOK'
    <3> DEFINE x == load[l]
    <3>f. x \in LoadRec
      OBVIOUS
    <3>1. CASE Download(l)
      <4>1. x.pc # "none" => [x EXCEPT !.pc = "held", !.ver = ver[x.file]] \in LoadRec
        BY <3>f DEF LoadRec, LoadPc, Version, Assigned, LoadAssigned
      <4> QED
        BY <3>1, <4>1 DEF Download
    <3>2. CASE Save(l)
      <4>1. [x EXCEPT !.pc = "saved"] \in LoadRec
        BY <3>f DEF LoadRec, LoadPc
      <4>2. row' \in [Files -> [Rows -> RowStatus]]
        <5>1. x.file \in Files /\ "syncing" \in RowStatus
          BY <3>2 DEF Save, RowStatus, Assigned, SyncAssigned, LoadAssigned
        <5>2. ASSUME NEW r \in Rows, row' = [row EXCEPT ![x.file][r] = "syncing"]
              PROVE  row' \in [Files -> [Rows -> RowStatus]]
          BY <5>1, <5>2, RowUpdate
        <5> QED
          BY <3>2, <5>2 DEF Save
      <4> QED
        BY <3>2, <4>1, <4>2 DEF Save
    <3>3. CASE Ingest(l)
      BY <3>3, <3>f, LoadFields DEF Ingest, MaxOf, Version
    <3>4. CASE IngestFails(l)
      BY <3>4 DEF IngestFails, Fault
    <3>5. LoadRetry(l) => load' \in [Loads -> LoadRec]
      <4>1. x.file \in Files \cup {NoFile} /\ x.retries + 1 \in Nat
        BY <3>f, LoadFields
      <4>2. QueuedLoad(x.file, x.retries + 1) \in LoadRec
        BY <4>1, QueuedLoadType
      <4> QED
        BY <4>2 DEF LoadRetry
    <3>m. x.pc # "none" /\ MarkFailed(x.file) => row' \in [Files -> [Rows -> RowStatus]]
      <4> SUFFICES ASSUME x.pc # "none", MarkFailed(x.file)
                   PROVE  row' \in [Files -> [Rows -> RowStatus]]
        OBVIOUS
      <4>1. x.file \in Files /\ "failed" \in RowStatus
        BY DEF RowStatus, Assigned, SyncAssigned, LoadAssigned
      <4>2. ASSUME NEW r \in Rows, row' = [row EXCEPT ![x.file][r] = "failed"]
            PROVE  row' \in [Files -> [Rows -> RowStatus]]
        BY <4>1, <4>2, RowUpdate
      <4> QED
        BY <4>2 DEF MarkFailed
    <3>6. CASE LoadMissing(l)
      BY <3>5, <3>m, <3>6 DEF LoadMissing
    <3>7. CASE LoadFails(l)
      BY <3>5, <3>m, <3>7 DEF LoadFails, Fault
    <3>8. CASE SaveFails(l)
      BY <3>5, <3>8 DEF SaveFails, Fault
    <3>9. CASE LoadCrashes(l)
      <4>1. QueuedLoad(x.file, x.retries) \in LoadRec
        BY <3>f, LoadFields, QueuedLoadType
      <4> QED
        BY <3>9, <4>1 DEF LoadCrashes, Fault
    <3> QED
      BY <2>3, <3>1, <3>2, <3>3, <3>4, <3>6, <3>7, <3>8, <3>9 DEF LoadStep
  <2>4. ASSUME NEW inc \in BOOLEAN, QueueSync(inc) PROVE sync' \in [Syncs -> SyncRec]
    <3>1. QueuedSync(inc, 0) \in SyncRec
      BY QueuedSyncType
    <3> QED
      BY <2>4, <3>1 DEF QueueSync
  <2>5. CASE Scheduler \/ Clocks
    <3>1. CASE Beat
      BY <2>4, <3>1 DEF Beat
    <3>2. CASE RefreshScan \/ StatusScan
      BY <3>2 DEF RefreshScan, StatusScan
    <3>3. CASE RefreshEnds
      BY <3>3 DEF RefreshEnds, Fault, Status
    <3>4. CASE StatusEnds
      BY <3>4 DEF StatusEnds, Status
    <3>5. CASE Clocks
      BY <3>5 DEF Clocks, IntervalElapses, StuckTimeoutElapses
    <3> QED
      BY <2>5, <3>1, <3>2, <3>3, <3>4, <3>5 DEF Scheduler
  <2>6. CASE User
    <3>1. CASE Trigger(TRUE) \/ Trigger(FALSE)
      BY <2>4, <3>1 DEF Trigger, Status
    <3>2. CASE TriggerLost
      BY <3>2 DEF TriggerLost, Fault, Status
    <3>3. CASE Pause \/ Resume
      BY <3>3 DEF Pause, Resume, Status
    <3>4. CASE Disconnect
      BY <3>4 DEF Disconnect, Status, RowStatus
    <3> QED
      BY <2>6, <3>1, <3>2, <3>3, <3>4 DEF User
  <2>7. CASE UNCHANGED vars
    BY <2>7 DEF vars
  <2> QED
    BY <2>1, <2>2, <2>3, <2>5, <2>6, <2>7 DEF Next
<1>3. TInv /\ [Next]_vars => Assigned'
  <2> SUFFICES ASSUME TypeOK, Assigned, [Next]_vars PROVE Assigned'
    BY DEF TInv
  <2>s. ASSUME NEW s \in Syncs, NEW y, sync' = [sync EXCEPT ![s] = y],
               SyncAssigned(y), UNCHANGED load
        PROVE Assigned'
    BY <2>s DEF TypeOK, Assigned
  <2>l. ASSUME NEW l \in Loads, NEW y, load' = [load EXCEPT ![l] = y],
               LoadAssigned(y), UNCHANGED sync
        PROVE Assigned'
    BY <2>l DEF TypeOK, Assigned
  <2>q. /\ SyncAssigned(NoSync) /\ LoadAssigned(NoLoad)
        /\ \A inc, n : SyncAssigned(QueuedSync(inc, n))
        /\ \A f \in Files, n \in Nat : LoadAssigned(QueuedLoad(f, n))
    BY DEF NoSync, NoLoad, QueuedSync, QueuedLoad, SyncAssigned, LoadAssigned
  <2>1. ASSUME NEW s \in Syncs, SyncStep(s) \/ SyncFails(s) \/ SyncCrashes(s)
        PROVE Assigned'
    <3> DEFINE x == sync[s]
    <3>f. x \in SyncRec /\ SyncAssigned(x)
      BY DEF TypeOK, Assigned
    <3>1. CASE Start(s)
      <4>1. SyncAssigned([x EXCEPT !.pc = "loaded", !.st = status])
        BY <3>f DEF SyncRec, SyncAssigned
      <4> QED
        BY <2>s, <2>q, <3>1, <4>1 DEF Start
    <3>2. CASE Begin(s)
      <4>1. SyncAssigned([x EXCEPT !.pc = "listing", !.at = clock, !.cursor = Cursor(x.inc),
                                   !.todo = Listed(x.inc), !.gone = Deleted(x.inc)])
        BY <3>f DEF SyncRec, SyncAssigned
      <4> QED
        BY <2>s, <3>2, <4>1 DEF Begin
    <3>3. ASSUME NEW f \in Files, Lookup(s, f) PROVE Assigned'
      <4>1. ASSUME NEW r \in Rows
            PROVE  SyncAssigned([x EXCEPT !.pc = "writing", !.file = f, !.row = r,
                                          !.copy = row[f][r]])
        BY <3>f DEF SyncRec, SyncAssigned
      <4>2. SyncAssigned([x EXCEPT !.pc = "writing", !.file = f, !.copy = "absent"])
        BY <3>f DEF SyncRec, SyncAssigned
      <4>3. x.pc = "listing" => SyncAssigned([x EXCEPT !.gone = x.gone \ {f}])
        BY <3>f DEF SyncRec, SyncAssigned
      <4> QED
        BY <2>s, <3>3, <4>1, <4>2, <4>3 DEF Lookup
    <3>4. CASE Write(s)
      <4>1. x.file \in Files /\ x.pc = "writing"
        BY <3>f, <3>4 DEF SyncAssigned, Write
      <4>2. /\ SyncAssigned([x EXCEPT !.pc = "sending"])
            /\ SyncAssigned([x EXCEPT !.pc = "listing", !.gone = x.gone \ {x.file},
                             !.file = NoFile, !.row = NoRow, !.copy = "absent"])
        BY <3>f, <4>1 DEF SyncRec, SyncAssigned
      <4> QED
        BY <2>s, <3>4, <4>2 DEF Write
    <3>5. CASE Send(s)
      <4>1. SyncAssigned([x EXCEPT !.pc = "listing", !.todo = x.todo \ {x.file},
                                   !.file = NoFile, !.row = NoRow, !.copy = "absent"])
        BY <3>f DEF SyncRec, SyncAssigned
      <4>2. LoadAssigned(QueuedLoad(x.file, 0))
        BY <2>q, <3>f, <3>5 DEF Send, SyncAssigned
      <4> QED
        BY <3>5, <4>1, <4>2 DEF Send, TypeOK, Assigned
    <3>6. CASE Finish(s)
      BY <2>s, <2>q, <3>6 DEF Finish
    <3>7. CASE Raise(s) \/ SyncFails(s) \/ SyncCrashes(s)
      BY <2>s, <2>q, <3>7 DEF Raise, SyncFails, SyncCrashes, Retry
    <3> QED
      BY <2>1, <3>1, <3>2, <3>3, <3>4, <3>5, <3>6, <3>7 DEF SyncStep
  <2>2. ASSUME NEW l \in Loads,
               LoadStep(l) \/ IngestFails(l) \/ LoadFails(l) \/ SaveFails(l) \/ LoadCrashes(l)
        PROVE Assigned'
    <3> DEFINE x == load[l]
    <3>f. x \in LoadRec /\ LoadAssigned(x) /\ x.retries \in Nat /\ x.retries + 1 \in Nat
      BY LoadFields DEF TypeOK, Assigned
    <3>1. CASE Download(l)
      <4>1. x.pc # "none" => LoadAssigned([x EXCEPT !.pc = "held", !.ver = ver[x.file]])
        BY <3>f DEF LoadRec, LoadAssigned
      <4> QED
        BY <2>l, <2>q, <3>1, <4>1 DEF Download
    <3>2. CASE Save(l)
      <4>1. x.pc # "none" => LoadAssigned([x EXCEPT !.pc = "saved"])
        BY <3>f DEF LoadRec, LoadAssigned
      <4> QED
        BY <2>l, <3>2, <4>1 DEF Save
    <3>3. CASE Ingest(l) \/ IngestFails(l)
      BY <2>l, <2>q, <3>3 DEF Ingest, IngestFails
    <3>4. x.pc # "none" /\ LoadRetry(l) /\ UNCHANGED sync => Assigned'
      <4>1. x.pc # "none" => LoadAssigned(QueuedLoad(x.file, x.retries + 1))
        BY <2>q, <3>f DEF LoadAssigned
      <4> QED
        BY <2>l, <2>q, <4>1 DEF LoadRetry
    <3>5. CASE LoadMissing(l) \/ LoadFails(l) \/ SaveFails(l)
      BY <3>4, <3>5 DEF LoadMissing, LoadFails, SaveFails
    <3>6. CASE LoadCrashes(l)
      <4>1. x.pc # "none" => LoadAssigned(QueuedLoad(x.file, x.retries))
        BY <2>q, <3>f DEF LoadAssigned
      <4> QED
        BY <2>l, <3>6, <4>1 DEF LoadCrashes
    <3> QED
      BY <2>2, <3>1, <3>2, <3>3, <3>5, <3>6 DEF LoadStep
  <2>3. ASSUME NEW inc \in BOOLEAN, QueueSync(inc), UNCHANGED load PROVE Assigned'
    BY <2>3, <2>s, <2>q DEF QueueSync
  <2>4. CASE Beat \/ Trigger(TRUE) \/ Trigger(FALSE)
    BY <2>3, <2>4 DEF Beat, Trigger
  <2>5. UNCHANGED <<sync, load>> => Assigned'
    BY DEF Assigned
  <2> QED
    BY <2>1, <2>2, <2>4, <2>5 DEF Next, vars, Scheduler, Clocks, User, Change, Remove,
       RefreshScan, RefreshEnds, StatusScan, StatusEnds, IntervalElapses,
       StuckTimeoutElapses, TriggerLost, Pause, Resume, Disconnect
<1> QED
  BY <1>1, <1>2, <1>3, PTL DEF Spec, TInv
\* TypeOK, the state of connectors.py's rows and of the tasks: every variable
\* keeps its type.
THEOREM TypeCorrect == Spec => []TypeOK
<1>1. TInv => TypeOK
  BY DEF TInv
<1> QED
  BY <1>1, TypesInvariant, PTL

-----------------------------------------------------------------------------
(* Rows are created only while their connector exists. *)

\* NoOrphanRows: whatever is in flight when the user disconnects, no file row is
\* left behind or comes back (the INSERT in orchestrator.py needs its connector,
\* and the UPDATEs find no row).
THEOREM NoOrphans == Spec => []NoOrphanRows
<1>1. Init => NoOrphanRows
  BY DEF Init, NoOrphanRows
<1>2. TInv /\ NoOrphanRows /\ [Next]_vars => NoOrphanRows'
  <2> SUFFICES ASSUME TypeOK, Assigned, NoOrphanRows, [Next]_vars PROVE NoOrphanRows'
    BY DEF TInv
  <2> USE DEF provider, state, aux
  <2>1. UNCHANGED <<status, row>> => NoOrphanRows'
    BY DEF NoOrphanRows
  <2>2. status' # "gone" => NoOrphanRows'
    BY DEF NoOrphanRows
  <2>3. ASSUME NEW s \in Syncs, Write(s) PROVE NoOrphanRows'
    <3>1. sync[s].file \in Files /\ (sync[s].copy # "absent" => sync[s].row \in Rows)
      BY <2>3 DEF Write, Assigned, SyncAssigned
    <3>2. status = "gone" => UNCHANGED row
      BY <2>3, <3>1 DEF Write, Insert, NoOrphanRows
    <3> QED
      BY <2>3, <2>1, <2>2, <3>2 DEF Write
  <2>4. ASSUME NEW l \in Loads, Save(l) \/ LoadMissing(l) \/ LoadFails(l) \/ SaveFails(l)
        PROVE NoOrphanRows'
    <3>1. load[l].file \in Files
      BY <2>4 DEF Save, LoadMissing, LoadFails, SaveFails, Assigned, LoadAssigned
    <3>2. status = "gone" => UNCHANGED row
      BY <2>4, <3>1 DEF Save, LoadMissing, LoadFails, SaveFails, MarkFailed, NoOrphanRows
    <3>3. UNCHANGED status
      BY <2>4 DEF Save, LoadMissing, LoadFails, SaveFails
    <3> QED
      BY <2>1, <2>2, <3>2, <3>3
  <2>5. CASE Disconnect
    BY <2>5 DEF Disconnect, NoOrphanRows
  <2>6. CASE \/ \E f \in Files : Change(f) \/ Remove(f)
             \/ \E s \in Syncs : \/ Start(s) \/ (\E f \in Files : Lookup(s, f)) \/ Send(s)
                                 \/ Raise(s) \/ SyncFails(s) \/ SyncCrashes(s)
             \/ \E l \in Loads : \/ Download(l) \/ Ingest(l) \/ IngestFails(l)
                                 \/ LoadCrashes(l)
             \/ Beat \/ RefreshScan \/ StatusScan \/ Clocks
             \/ UNCHANGED vars
    BY <2>6, <2>1 DEF Change, Remove, Start, Lookup, Send, Raise, SyncFails, SyncCrashes,
       Download, Ingest, IngestFails, LoadCrashes, Beat, RefreshScan, StatusScan, Clocks,
       IntervalElapses, StuckTimeoutElapses, vars
  <2>7. CASE \/ \E s \in Syncs : Begin(s) \/ Finish(s)
             \/ RefreshEnds \/ StatusEnds
             \/ Trigger(TRUE) \/ Trigger(FALSE) \/ TriggerLost \/ Pause \/ Resume
    BY <2>7, <2>1, <2>2 DEF Begin, Finish, RefreshEnds, StatusEnds, Trigger, TriggerLost,
       Pause, Resume
  <2> QED
    BY <2>3, <2>4, <2>5, <2>6, <2>7 DEF Next, SyncStep, LoadStep, Scheduler, User
<1> QED
  BY <1>1, <1>2, TypesInvariant, PTL DEF Spec

-----------------------------------------------------------------------------
(* The change token and what was dispatched. *)

\* Covered(t), but for the files of S.
CoveredBut(t, S) == \A f \in Files \ S : live[f] /\ ver[f] <= t => seen[f] >= ver[f]

\* A sync that has its listing has handed out all of it but what it still holds,
\* and the cursor it may store is the time of that listing.
SyncCovered(x) ==
  x.pc \in {"listing", "writing", "sending"} =>
    /\ x.at <= clock
    /\ x.cursor \in {NoVersion, x.at}
    /\ CoveredBut(x.at, x.todo)

InPast == token <= clock /\ \A f \in Files : ver[f] <= clock

LInv == InPast /\ NoLostChange /\ \A s \in Syncs : SyncCovered(sync[s])

\* What every step does to the provider's history and to what was handed out.
Onward ==
  /\ clock <= clock'
  /\ \A f \in Files : /\ seen[f] <= seen'[f]
                      /\ ver'[f] <= clock'
                      /\ (live'[f] /\ ver'[f] <= clock) => (live[f] /\ ver'[f] = ver[f])

LEMMA StepsOnward == TypeOK /\ Assigned /\ InPast /\ [Next]_vars => Onward
<1> SUFFICES ASSUME TypeOK, Assigned, InPast, [Next]_vars PROVE Onward
  OBVIOUS
<1> USE DEF provider, state, aux
<1>1. UNCHANGED <<provider, seen>> => Onward
  BY DEF Onward, InPast, TypeOK, Version, NoVersion
<1>2. ASSUME NEW f \in Files, Change(f) \/ Remove(f) PROVE Onward
  BY <1>2 DEF Change, Remove, Onward, InPast, TypeOK, Version, NoVersion
<1>3. ASSUME NEW f \in Files, NEW t \in Nat, UNCHANGED provider,
             seen' = [seen EXCEPT ![f] = MaxOf(seen[f], t)]
      PROVE Onward
  BY <1>3 DEF MaxOf, Onward, InPast, TypeOK, Version, NoVersion
<1>4. ASSUME NEW s \in Syncs, (\E f \in Files : Lookup(s, f)) \/ Write(s) \/ Send(s)
      PROVE Onward
  <2>1. sync[s].at \in Nat
    BY SyncFields DEF TypeOK
  <2>2. Write(s) \/ Send(s) => sync[s].file \in Files
    BY DEF Write, Send, Assigned, SyncAssigned
  <2>3. ASSUME NEW f \in Files, Lookup(s, f) PROVE Onward
    BY <1>1, <1>3, <2>1, <2>3 DEF Lookup
  <2> QED
    BY <1>1, <1>3, <1>4, <2>1, <2>2, <2>3 DEF Write, Send
<1> QED
  BY <1>1, <1>2, <1>4 DEF Next, SyncStep, LoadStep, Scheduler, Clocks, User, Start, Begin,
     Finish, Raise, SyncFails, SyncCrashes, Download, Save, Ingest, IngestFails, LoadMissing,
     LoadFails, SaveFails, LoadCrashes, Beat, RefreshScan, RefreshEnds, StatusScan, StatusEnds,
     IntervalElapses, StuckTimeoutElapses, Trigger, TriggerLost, Pause, Resume, Disconnect,
     vars

\* CoveredBut and SyncCovered of the next state, for a value of this one.
CoveredNext(t, S) == \A f \in Files \ S : live'[f] /\ ver'[f] <= t => seen'[f] >= ver'[f]
SyncCoveredNext(x) ==
  x.pc \in {"listing", "writing", "sending"} =>
    /\ x.at <= clock'
    /\ x.cursor \in {NoVersion, x.at}
    /\ CoveredNext(x.at, x.todo)

\* What was covered up to a time in the past stays covered.
LEMMA CoverageStable ==
  ASSUME TypeOK, TypeOK', Onward, NEW t \in Version, t <= clock, NEW S, CoveredBut(t, S)
  PROVE  CoveredNext(t, S)
<1> SUFFICES ASSUME NEW f \in Files \ S, live'[f], ver'[f] <= t
             PROVE  seen'[f] >= ver'[f]
  BY DEF CoveredNext
<1>1. /\ ver[f] \in Nat /\ ver'[f] \in Nat /\ clock \in Nat /\ t \in Int
      /\ seen[f] \in Int /\ seen'[f] \in Int
  BY DEF TypeOK, Version, NoVersion
<1>2. f \in Files /\ ver'[f] <= clock
  BY <1>1
<1>3. live[f] /\ ver'[f] = ver[f] /\ seen[f] <= seen'[f]
  BY <1>2 DEF Onward
<1>4. seen[f] >= ver[f]
  BY <1>3 DEF CoveredBut
<1> QED
  BY <1>1, <1>3, <1>4

\* The tasks that a step does not touch.
LEMMA OthersCovered ==
  ASSUME TypeOK, TypeOK', Onward, NEW x \in SyncRec, SyncCovered(x)
  PROVE  SyncCoveredNext(x)
<1> SUFFICES ASSUME x.pc \in {"listing", "writing", "sending"}
             PROVE  /\ x.at <= clock'
                    /\ x.cursor \in {NoVersion, x.at}
                    /\ CoveredNext(x.at, x.todo)
  BY DEF SyncCoveredNext
<1>1. x.at \in Nat /\ x.at <= clock /\ CoveredBut(x.at, x.todo)
  BY SyncFields DEF SyncCovered
<1>2. CoveredNext(x.at, x.todo)
  BY <1>1, CoverageStable DEF Version
<1> QED
  BY <1>1, <1>2 DEF SyncCovered, Onward, TypeOK

\* LInv is invariant for an adapter without get_initial_change_token.
LEMMA CoverageInvariant == ASSUME ~GivesToken PROVE Spec => [](TInv /\ LInv)
<1>1. Init => LInv
  BY DEF Init, LInv, InPast, NoLostChange, Covered, SyncCovered, NoSync, QueuedSync, NoVersion
<1>2. TInv /\ TInv' /\ LInv /\ [Next]_vars => LInv'
  <2> SUFFICES ASSUME TypeOK, Assigned, TypeOK', LInv, [Next]_vars PROVE LInv'
    BY DEF TInv
  <2> USE DEF provider, state, aux
  <2>1. Onward /\ InPast /\ NoLostChange
    BY StepsOnward DEF LInv
  <2>2. NoVersion \in Version /\ token \in Version /\ token <= clock /\ CoveredBut(token, {})
    BY <2>1 DEF NoLostChange, Covered, CoveredBut, InPast, TypeOK, Version
  <2>3. \A t \in Syncs : sync'[t] = sync[t] => SyncCoveredNext(sync'[t])
    <3> SUFFICES ASSUME NEW t \in Syncs PROVE SyncCoveredNext(sync[t])
      OBVIOUS
    <3>1. sync[t] \in SyncRec /\ SyncCovered(sync[t])
      BY DEF LInv, TypeOK
    <3> QED
      BY <2>1, <3>1, OthersCovered
  <2>a. (\A t \in Syncs : SyncCoveredNext(sync'[t])) => (\A t \in Syncs : SyncCovered(sync[t]))'
    BY DEF SyncCoveredNext, SyncCovered, CoveredNext, CoveredBut
  <2>4. token' = token => InPast' /\ NoLostChange'
    <3> SUFFICES ASSUME token' = token PROVE InPast' /\ NoLostChange'
      OBVIOUS
    <3>1. CoveredNext(token, {})
      BY <2>1, <2>2, CoverageStable
    <3>2. NoLostChange'
      BY <3>1 DEF NoLostChange, Covered, CoveredNext
    <3>3. clock \in Int /\ clock' \in Int /\ token \in Int
      BY DEF TypeOK, Version, NoVersion
    <3> QED
      BY <2>1, <2>2, <3>2, <3>3 DEF Onward, InPast
  <2>5. ASSUME token' = token, \A t \in Syncs : SyncCoveredNext(sync'[t]) PROVE LInv'
    BY <2>4, <2>5, <2>a DEF LInv
  <2>6. ASSUME NEW s \in Syncs, NEW y, sync' = [sync EXCEPT ![s] = y],
               token' = token, SyncCoveredNext(y)
        PROVE LInv'
    <3>1. \A t \in Syncs : SyncCoveredNext(sync'[t])
      BY <2>3, <2>6 DEF TypeOK
    <3> QED
      BY <2>5, <2>6, <3>1
  <2>7. ASSUME NEW s \in Syncs, NEW y, sync' = [sync EXCEPT ![s] = y],
               token' = token, y.pc \in {"none", "queued", "loaded"}
        PROVE LInv'
    BY <2>6, <2>7 DEF SyncCoveredNext
  <2>8. NoSync.pc = "none" /\ \A inc, n : QueuedSync(inc, n).pc = "queued"
    BY DEF NoSync, QueuedSync
  <2>9. ASSUME NEW s \in Syncs, SyncStep(s) \/ SyncFails(s) \/ SyncCrashes(s)
        PROVE LInv'
    <3> DEFINE x == sync[s]
    <3>f. x \in SyncRec /\ SyncCovered(x) /\ x.at \in Nat
      BY SyncFields DEF TypeOK, LInv
    <3>1. CASE Start(s)
      <4>1. [x EXCEPT !.pc = "loaded", !.st = status].pc = "loaded"
        BY <3>f DEF SyncRec
      <4> QED
        BY <2>7, <2>8, <3>1, <4>1 DEF Start
    <3>2. CASE Begin(s)
      <4> DEFINE y == [x EXCEPT !.pc = "listing", !.at = clock, !.cursor = Cursor(x.inc),
                                !.todo = Listed(x.inc), !.gone = Deleted(x.inc)]
      <4>1. y.at = clock /\ y.cursor = Cursor(x.inc) /\ y.todo = Listed(x.inc)
        BY <3>f DEF SyncRec
      <4>2. sync' = [sync EXCEPT ![s] = y] /\ token' = token
            /\ UNCHANGED <<clock, ver, live, seen>>
        BY <3>2 DEF Begin
      <4>3. Cursor(x.inc) \in {NoVersion, clock}
        BY DEF Cursor
      <4>4. CoveredBut(clock, Listed(x.inc))
        BY <2>1, <2>2 DEF CoveredBut, Listed, TypeOK, Version, NoVersion
      <4>5. SyncCoveredNext(y)
        BY <4>1, <4>2, <4>3, <4>4 DEF SyncCoveredNext, CoveredBut, CoveredNext, TypeOK
      <4> QED
        BY <2>6, <4>2, <4>5
    <3> DEFINE Elsewhere == \A t \in Syncs \ {s} : sync'[t] = sync[t]
    <3>3. ASSUME Elsewhere, token' = token, x.pc \in {"listing", "writing", "sending"},
                 sync'[s].at = x.at, sync'[s].cursor = x.cursor,
                 CoveredNext(x.at, sync'[s].todo)
          PROVE  LInv'
      <4>1. x.at <= clock' /\ x.cursor \in {NoVersion, x.at}
        BY <2>1, <3>f, <3>3 DEF SyncCovered, Onward, TypeOK
      <4>2. SyncCoveredNext(sync'[s])
        BY <3>3, <4>1 DEF SyncCoveredNext, CoveredNext
      <4>3. ASSUME NEW t \in Syncs PROVE SyncCoveredNext(sync'[t])
        <5>1. CASE t = s
          BY <4>2, <5>1
        <5>2. CASE t # s
          BY <2>3, <3>3, <5>2
        <5> QED
          BY <5>1, <5>2
      <4> QED
        BY <2>5, <3>3, <4>3
    <3>4. x.pc \in {"listing", "writing", "sending"} => CoveredNext(x.at, x.todo)
      BY <2>1, <3>f, OthersCovered DEF SyncCoveredNext
    <3>5. ASSUME Elsewhere, token' = token, x.pc \in {"listing", "writing", "sending"},
                 sync'[s].at = x.at, sync'[s].cursor = x.cursor, sync'[s].todo = x.todo
          PROVE  LInv'
      <4>1. CoveredNext(x.at, sync'[s].todo)
        BY <3>4, <3>5 DEF CoveredNext
      <4> QED
        BY <3>3, <3>5, <4>1
    <3>6. ASSUME (\E f \in Files : Lookup(s, f)) \/ Write(s) PROVE LInv'
      <4>1. token' = token /\ x.pc \in {"listing", "writing", "sending"}
        BY <3>6 DEF Lookup, Write
      <4>2. Elsewhere
        BY <3>6 DEF Lookup, Write, TypeOK
      <4>3. sync'[s].at = x.at /\ sync'[s].cursor = x.cursor /\ sync'[s].todo = x.todo
        <5> DEFINE Kept(z) == z.at = x.at /\ z.cursor = x.cursor /\ z.todo = x.todo
        <5>1. ASSUME NEW f \in Files, Lookup(s, f) PROVE Kept(sync'[s])
          <6>1. \/ \E r \in Rows : sync'[s] = [x EXCEPT !.pc = "writing", !.file = f, !.row = r,
                                                        !.copy = row[f][r]]
                \/ sync'[s] = [x EXCEPT !.pc = "writing", !.file = f, !.copy = "absent"]
                \/ sync'[s] = [x EXCEPT !.gone = sync[s].gone \ {f}]
            BY <5>1 DEF Lookup, TypeOK
          <6>2. ASSUME NEW r \in Rows
                PROVE  Kept([x EXCEPT !.pc = "writing", !.file = f, !.row = r,
                                      !.copy = row[f][r]])
            BY <3>f DEF SyncRec
          <6>3. Kept([x EXCEPT !.pc = "writing", !.file = f, !.copy = "absent"])
            BY <3>f DEF SyncRec
          <6>4. Kept([x EXCEPT !.gone = sync[s].gone \ {f}])
            BY <3>f DEF SyncRec
          <6>5. ASSUME NEW r \in Rows, sync'[s] = [x EXCEPT !.pc = "writing", !.file = f,
                                                   !.row = r, !.copy = row[f][r]]
                PROVE  Kept(sync'[s])
            BY <6>2, <6>5
          <6> QED
            BY <6>1, <6>3, <6>4, <6>5
        <5>2. ASSUME Write(s) PROVE Kept(sync'[s])
          <6>1. \/ sync'[s] = [x EXCEPT !.pc = "sending"]
                \/ sync'[s] = [x EXCEPT !.pc = "listing", !.gone = sync[s].gone \ {x.file},
                                        !.file = NoFile, !.row = NoRow, !.copy = "absent"]
            BY <5>2 DEF Write, TypeOK
          <6>2. Kept([x EXCEPT !.pc = "sending"])
            BY <3>f DEF SyncRec
          <6>3. Kept([x EXCEPT !.pc = "listing", !.gone = sync[s].gone \ {x.file},
                               !.file = NoFile, !.row = NoRow, !.copy = "absent"])
            BY <3>f DEF SyncRec
          <6> QED
            BY <6>1, <6>2, <6>3
        <5> QED
          BY <3>6, <5>1, <5>2
      <4> QED
        BY <3>5, <4>1, <4>2, <4>3
    <3>7. CASE Send(s)
      <4> DEFINE y == [x EXCEPT !.pc = "listing", !.todo = x.todo \ {x.file},
                                !.file = NoFile, !.row = NoRow, !.copy = "absent"]
      <4>1. y.at = x.at /\ y.cursor = x.cursor /\ y.todo = x.todo \ {x.file}
        BY <3>f DEF SyncRec
      <4>2. /\ x.pc = "sending" /\ token' = token /\ sync' = [sync EXCEPT ![s] = y]
            /\ seen' = [seen EXCEPT ![x.file] = MaxOf(seen[x.file], x.at)]
            /\ UNCHANGED provider
        BY <3>7 DEF Send
      <4>3. x.file \in Files
        BY <4>2 DEF Assigned, SyncAssigned
      <4>4. seen[x.file] \in Int /\ seen'[x.file] = MaxOf(seen[x.file], x.at)
        BY <4>2, <4>3 DEF TypeOK, Version, NoVersion
      <4>5. seen'[x.file] >= x.at /\ seen'[x.file] \in Int
        BY <3>f, <4>4 DEF MaxOf
      <4>6. ASSUME NEW f \in Files \ (x.todo \ {x.file}), live'[f], ver'[f] <= x.at
            PROVE  seen'[f] >= ver'[f]
        <5>1. CASE f = x.file
          <6>1. ver'[f] \in Int
            BY DEF TypeOK
          <6> QED
            BY <3>f, <4>5, <4>6, <5>1, <6>1
        <5>2. CASE f # x.file
          BY <3>4, <4>2, <4>6, <5>2 DEF CoveredNext
        <5> QED
          BY <5>1, <5>2
      <4>7. CoveredNext(x.at, x.todo \ {x.file})
        BY <4>6 DEF CoveredNext
      <4>8. Elsewhere /\ sync'[s] = y
        BY <4>2 DEF TypeOK
      <4>9. CoveredNext(x.at, sync'[s].todo)
        BY <4>1, <4>7, <4>8 DEF CoveredNext
      <4> QED
        BY <3>3, <4>1, <4>2, <4>8, <4>9
    <3>8. CASE Finish(s)
      <4>1. /\ x.pc = "listing" /\ x.todo = {}
            /\ token' = NewToken(s) /\ sync' = [sync EXCEPT ![s] = NoSync]
            /\ UNCHANGED <<clock, ver, live, seen>>
        BY <3>8 DEF Finish, FilesLeft
      <4>2. x.at \in Nat /\ x.at <= clock /\ x.cursor \in {NoVersion, x.at}
            /\ CoveredBut(x.at, {})
        BY <3>f, <4>1 DEF SyncCovered
      <4>3. token' \in {token, x.at}
        BY <4>1, <4>2 DEF NewToken
      <4>4. token' <= clock /\ CoveredBut(token', {})
        BY <2>2, <4>2, <4>3
      <4>5. InPast'
        BY <2>1, <4>1, <4>4 DEF InPast
      <4>6. NoLostChange'
        BY <4>1, <4>4 DEF NoLostChange, Covered, CoveredBut
      <4>7. SyncCoveredNext(NoSync)
        BY <2>8 DEF SyncCoveredNext
      <4>8. \A t \in Syncs : SyncCoveredNext(sync'[t])
        BY <2>3, <4>1, <4>7 DEF TypeOK
      <4> QED
        BY <2>a, <4>5, <4>6, <4>8 DEF LInv
    <3>9. CASE Raise(s) \/ SyncFails(s) \/ SyncCrashes(s)
      BY <2>7, <2>8, <3>9 DEF Raise, SyncFails, SyncCrashes, Retry
    <3> QED
      BY <2>9, <3>1, <3>2, <3>6, <3>7, <3>8, <3>9 DEF SyncStep
  <2>10. CASE Beat \/ Trigger(TRUE) \/ Trigger(FALSE)
    <3>1. PICK inc \in BOOLEAN : QueueSync(inc) /\ token' = token
      BY <2>10 DEF Beat, Trigger
    <3>2. PICK s \in Syncs : sync' = [sync EXCEPT ![s] = QueuedSync(inc, 0)]
      BY <3>1 DEF QueueSync
    <3>3. QueuedSync(inc, 0).pc = "queued"
      BY <2>8
    <3> QED
      BY <2>7, <3>1, <3>2, <3>3
  <2>11. UNCHANGED <<sync, token>> => LInv'
    BY <2>3, <2>5
  <2> QED
    BY <2>9, <2>10, <2>11 DEF Next, LoadStep, Scheduler, Clocks, User, Change, Remove,
       Download, Save, Ingest, IngestFails, LoadMissing, LoadFails, SaveFails, LoadCrashes,
       RefreshScan, RefreshEnds, StatusScan, StatusEnds, IntervalElapses,
       StuckTimeoutElapses, TriggerLost, Pause, Resume, Disconnect, vars
<1> QED
  BY <1>1, <1>2, TypesInvariant, PTL DEF Spec

\* NoLostChange: for an adapter without get_initial_change_token, and whatever
\* its cursor does, the stored token never runs ahead of what syncs dispatched.
THEOREM NothingLost == ASSUME ~GivesToken PROVE Spec => []NoLostChange
<1>1. LInv => NoLostChange
  BY DEF LInv
<1> QED
  BY <1>1, CoverageInvariant, PTL

-----------------------------------------------------------------------------
(* The connector implements ChangeFeed. *)

\* Handing a file on, as it stood at time t, is a step of the feed, or none when
\* a later version was handed on before.
LEMMA HandsOn ==
  ASSUME TypeOK, NEW f \in Files, NEW t \in Nat, t <= clock,
         UNCHANGED <<provider, token>>, seen' = [seen EXCEPT ![f] = MaxOf(seen[f], t)]
  PROVE  [Feed!Next]_(Feed!feed)
<1>1. seen \in [Files -> Version] /\ seen[f] \in Int /\ clock \in Nat
  BY DEF TypeOK, Version, NoVersion
<1>2. CASE seen[f] < t
  <2>1. t \in 0 .. clock /\ seen' = [seen EXCEPT ![f] = t]
    BY <1>1, <1>2 DEF MaxOf
  <2>2. Feed!HandOn(f, t)
    BY <1>1, <1>2, <2>1 DEF Feed!HandOn, provider
  <2> QED
    BY <2>1, <2>2 DEF Feed!Next
<1>3. CASE ~(seen[f] < t)
  <2>1. seen' = seen
    BY <1>1, <1>3 DEF MaxOf
  <2> QED
    BY <2>1 DEF Feed!feed, provider
<1> QED
  BY <1>2, <1>3

\* FeedSpec: for an adapter without get_initial_change_token, every step of every
\* task, retry, request and background job of a connector is, seen from outside, a
\* change at the provider, a file handed on, a position stored that claims nothing
\* that was not handed on, or no step at all.
THEOREM ImplementsFeed == ASSUME ~GivesToken PROVE Spec => FeedSpec
<1>1. Init => Feed!Init
  BY DEF Init, Feed!Init, Feed!Nowhere, NoVersion
<1>2. TInv /\ LInv /\ [Next]_vars => [Feed!Next]_(Feed!feed)
  <2> SUFFICES ASSUME TypeOK, Assigned, LInv, [Next]_vars PROVE [Feed!Next]_(Feed!feed)
    BY DEF TInv
  <2> USE DEF provider, state, aux
  <2>1. UNCHANGED <<provider, token, seen>> => [Feed!Next]_(Feed!feed)
    BY DEF Feed!feed
  <2>2. ASSUME NEW f \in Files, Change(f) PROVE [Feed!Next]_(Feed!feed)
    <3>1. Feed!Alter(f, TRUE)
      BY <2>2 DEF Change, Feed!Alter
    <3> QED
      BY <3>1 DEF Feed!Next
  <2>3. ASSUME NEW f \in Files, Remove(f) PROVE [Feed!Next]_(Feed!feed)
    <3>1. Feed!Alter(f, FALSE)
      BY <2>3 DEF Remove, Feed!Alter
    <3> QED
      BY <3>1 DEF Feed!Next
  <2>4. ASSUME NEW s \in Syncs, (\E f \in Files : Lookup(s, f)) \/ Write(s) \/ Send(s)
        PROVE [Feed!Next]_(Feed!feed)
    <3>1. sync[s].at \in Nat /\ SyncCovered(sync[s])
      BY SyncFields DEF TypeOK, LInv
    <3>2. sync[s].at <= clock
      BY <2>4, <3>1 DEF Lookup, Write, Send, SyncCovered
    <3>3. Write(s) \/ Send(s) => sync[s].file \in Files
      BY DEF Write, Send, Assigned, SyncAssigned
    <3>4. ASSUME NEW f \in Files, Lookup(s, f) PROVE [Feed!Next]_(Feed!feed)
      BY <2>1, <3>1, <3>2, <3>4, HandsOn DEF Lookup
    <3>5. CASE Write(s)
      BY <2>1, <3>1, <3>2, <3>3, <3>5, HandsOn DEF Write
    <3>6. CASE Send(s)
      BY <3>1, <3>2, <3>3, <3>6, HandsOn DEF Send
    <3> QED
      BY <2>4, <3>4, <3>5, <3>6
  <2>5. ASSUME NEW s \in Syncs, Finish(s) PROVE [Feed!Next]_(Feed!feed)
    <3> DEFINE x == sync[s]
    <3>1. /\ x.pc = "listing" /\ x.todo = {} /\ token' = NewToken(s)
          /\ UNCHANGED <<clock, ver, live, seen>>
      BY <2>5 DEF Finish, FilesLeft
    <3>2. x.at \in Nat /\ SyncCovered(x) /\ clock \in Nat
      BY SyncFields DEF TypeOK, LInv
    <3>3. x.at \in 0 .. clock /\ x.cursor \in {NoVersion, x.at} /\ CoveredBut(x.at, {})
      BY <3>1, <3>2 DEF SyncCovered
    <3>4. CASE token' = token
      BY <2>1, <3>1, <3>4
    <3>5. CASE token' # token
      <4>1. token' = x.at
        BY <3>1, <3>3, <3>5 DEF NewToken
      <4>2. Feed!Store(x.at)
        BY <3>1, <3>3, <4>1 DEF Feed!Store, CoveredBut
      <4> QED
        BY <3>3, <4>2 DEF Feed!Next
    <3> QED
      BY <3>4, <3>5
  <2> QED
    BY <2>1, <2>2, <2>3, <2>4, <2>5 DEF Next, SyncStep, LoadStep, Scheduler, Clocks, User,
       Start, Begin, Raise, SyncFails, SyncCrashes, Download, Save, Ingest, IngestFails,
       LoadMissing, LoadFails, SaveFails, LoadCrashes, Beat, RefreshScan, RefreshEnds,
       StatusScan, StatusEnds, IntervalElapses, StuckTimeoutElapses, Trigger, TriggerLost,
       Pause, Resume, Disconnect, vars
<1> QED
  BY <1>1, <1>2, CoverageInvariant, PTL DEF Spec, FeedSpec, Feed!Spec

-----------------------------------------------------------------------------
(* What a step may do to the tasks of a sync, and to the rows. *)

\* Which steps write which variables.
Writers ==
  /\ UNCHANGED <<clock, ver, live>> \/ \E f \in Files : Change(f) \/ Remove(f)
  /\ UNCHANGED token \/ \E s \in Syncs : Finish(s)
  /\ \/ UNCHANGED row
     \/ \E s \in Syncs : Write(s)
     \/ \E l \in Loads : Save(l) \/ LoadMissing(l) \/ LoadFails(l)
     \/ Disconnect
  /\ \/ UNCHANGED sync
     \/ \E s \in Syncs : SyncStep(s) \/ SyncFails(s) \/ SyncCrashes(s)
     \/ \E inc \in BOOLEAN : QueueSync(inc)
  /\ \/ UNCHANGED load
     \/ \E s \in Syncs : Send(s)
     \/ \E l \in Loads : \/ LoadStep(l) \/ IngestFails(l) \/ LoadFails(l)
                         \/ SaveFails(l) \/ LoadCrashes(l)
  /\ UNCHANGED seen \/ \E s \in Syncs : (\E f \in Files : Lookup(s, f)) \/ Write(s) \/ Send(s)
  /\ UNCHANGED indexed \/ \E l \in Loads : Ingest(l)

LEMMA StepWriters ==
  ASSUME [Next]_vars
  PROVE  Writers /\ (status = "gone" => status' = "gone")
<1> DEFINE Goal == Writers /\ (status = "gone" => status' = "gone")
<1> USE DEF provider, state, aux, Writers
<1>1. ASSUME NEW f \in Files, Change(f) \/ Remove(f) PROVE Goal
  BY <1>1 DEF Change, Remove
<1>2. ASSUME NEW s \in Syncs, SyncStep(s) \/ SyncFails(s) \/ SyncCrashes(s) PROVE Goal
  <2>1. Start(s) \/ Raise(s) \/ SyncFails(s) \/ SyncCrashes(s)
          => UNCHANGED <<clock, ver, live, token, row, load, seen, indexed, status>>
    BY DEF Start, Raise, SyncFails, SyncCrashes
  <2>2. Begin(s) => /\ UNCHANGED <<clock, ver, live, token, row, load, seen, indexed>>
                    /\ status # "gone"
    BY DEF Begin
  <2>3. Finish(s) => /\ UNCHANGED <<clock, ver, live, row, load, seen, indexed>>
                     /\ status # "gone"
    BY DEF Finish
  <2>4. (\E f \in Files : Lookup(s, f))
          => UNCHANGED <<clock, ver, live, token, row, load, indexed, status>>
    BY DEF Lookup
  <2>5. Write(s) => UNCHANGED <<clock, ver, live, token, load, indexed, status>>
    BY DEF Write
  <2>6. Send(s) => UNCHANGED <<clock, ver, live, token, row, indexed, status>>
    BY DEF Send
  <2> QED
    BY <1>2, <2>1, <2>2, <2>3, <2>4, <2>5, <2>6 DEF SyncStep
<1>3. ASSUME NEW l \in Loads,
             \/ LoadStep(l) \/ IngestFails(l) \/ LoadFails(l) \/ SaveFails(l)
             \/ LoadCrashes(l)
      PROVE  Goal
  <2>1. UNCHANGED <<clock, ver, live, token, sync, seen, status>>
    BY <1>3 DEF LoadStep, Download, Save, Ingest, IngestFails, LoadMissing, LoadFails,
       SaveFails, LoadCrashes
  <2>2. UNCHANGED row \/ Save(l) \/ LoadMissing(l) \/ LoadFails(l)
    BY <1>3 DEF LoadStep, Download, Ingest, IngestFails, SaveFails, LoadCrashes
  <2>3. UNCHANGED indexed \/ Ingest(l)
    BY <1>3 DEF LoadStep, Download, Save, IngestFails, LoadMissing, LoadFails, SaveFails,
       LoadCrashes
  <2> QED
    BY <1>3, <2>1, <2>2, <2>3
<1>4. CASE Beat \/ Trigger(TRUE) \/ Trigger(FALSE)
  BY <1>4 DEF Beat, Trigger
<1>5. CASE RefreshScan \/ RefreshEnds \/ StatusScan \/ StatusEnds \/ Clocks
  BY <1>5 DEF RefreshScan, RefreshEnds, StatusScan, StatusEnds, Clocks, IntervalElapses,
     StuckTimeoutElapses
<1>6. CASE TriggerLost \/ Pause \/ Resume \/ Disconnect
  BY <1>6 DEF TriggerLost, Pause, Resume, Disconnect
<1>7. CASE UNCHANGED vars
  BY <1>7 DEF vars
<1> QED
  BY <1>1, <1>2, <1>3, <1>4, <1>5, <1>6, <1>7 DEF Next, Scheduler, User

AtWork == {"listing", "writing", "sending"}

\* A sync that has its listing keeps the time of it, the cursor and what it
\* has yet to do, of which it only crosses files off.
Keeps(x, y) ==
  /\ y.at = x.at /\ y.cursor = x.cursor
  /\ y.todo \in SUBSET x.todo /\ y.gone \in SUBSET x.gone
  /\ y.pc = "writing" => y.file \in y.todo \cup y.gone

\* A sync at work after a step has just begun, or was at work before it.
LEMMA SyncsAtWork ==
  ASSUME TypeOK, Assigned, [Next]_vars, NEW s \in Syncs, sync'[s].pc \in AtWork
  PROVE  \/ /\ Begin(s) /\ sync'[s].pc = "listing" /\ sync'[s].at = clock
            /\ sync'[s].cursor = Cursor(sync[s].inc)
            /\ sync'[s].gone = Deleted(sync[s].inc)
         \/ sync'[s] = sync[s]
         \/ /\ sync[s].pc \in AtWork /\ Keeps(sync[s], sync'[s])
            /\ \/ \E f \in Files : Lookup(s, f)
               \/ Write(s) /\ sync'[s].pc # "writing"
               \/ Send(s) /\ sync'[s].pc # "writing"
<1> DEFINE x == sync[s]
<1> USE DEF TypeOK, AtWork
<1>f. x \in SyncRec
  OBVIOUS
<1>1. CASE Begin(s)
  <2>1. sync'[s] = [x EXCEPT !.pc = "listing", !.at = clock, !.cursor = Cursor(x.inc),
                             !.todo = Listed(x.inc), !.gone = Deleted(x.inc)]
    BY <1>1 DEF Begin
  <2> QED
    BY <1>1, <1>f, <2>1 DEF SyncRec
<1>2. ASSUME NEW f \in Files, Lookup(s, f)
      PROVE  sync[s].pc \in AtWork /\ Keeps(sync[s], sync'[s])
  <2>1. /\ x.pc = "listing" /\ f \in x.todo \cup x.gone
        /\ \/ \E r \in Rows : sync'[s] = [x EXCEPT !.pc = "writing", !.file = f, !.row = r,
                                                   !.copy = row[f][r]]
           \/ sync'[s] = [x EXCEPT !.pc = "writing", !.file = f, !.copy = "absent"]
           \/ sync'[s] = [x EXCEPT !.gone = x.gone \ {f}]
    BY <1>2 DEF Lookup, FilesLeft
  <2>2. ASSUME NEW r \in Rows
        PROVE  Keeps(x, [x EXCEPT !.pc = "writing", !.file = f, !.row = r, !.copy = row[f][r]])
    BY <1>f, <2>1 DEF SyncRec, Keeps
  <2>3. Keeps(x, [x EXCEPT !.pc = "writing", !.file = f, !.copy = "absent"])
    BY <1>f, <2>1 DEF SyncRec, Keeps
  <2>4. Keeps(x, [x EXCEPT !.gone = x.gone \ {f}])
    BY <1>f, <2>1 DEF SyncRec, Keeps
  <2>5. ASSUME NEW r \in Rows, sync'[s] = [x EXCEPT !.pc = "writing", !.file = f, !.row = r,
                                                    !.copy = row[f][r]]
        PROVE  Keeps(x, sync'[s])
    BY <2>2, <2>5
  <2> QED
    BY <2>1, <2>3, <2>4, <2>5
<1>3. CASE Write(s)
  <2>1. /\ x.pc = "writing"
        /\ \/ sync'[s] = [x EXCEPT !.pc = "sending"]
           \/ sync'[s] = [x EXCEPT !.pc = "listing", !.gone = x.gone \ {x.file},
                                   !.file = NoFile, !.row = NoRow, !.copy = "absent"]
    BY <1>3 DEF Write
  <2>2. /\ Keeps(x, [x EXCEPT !.pc = "sending"])
        /\ [x EXCEPT !.pc = "sending"].pc = "sending"
    BY <1>f DEF SyncRec, Keeps
  <2>3. LET y == [x EXCEPT !.pc = "listing", !.gone = x.gone \ {x.file},
                           !.file = NoFile, !.row = NoRow, !.copy = "absent"]
        IN  Keeps(x, y) /\ y.pc = "listing"
    BY <1>f DEF SyncRec, Keeps
  <2> QED
    BY <1>3, <2>1, <2>2, <2>3
<1>4. CASE Send(s)
  <2>1. /\ x.pc = "sending"
        /\ sync'[s] = [x EXCEPT !.pc = "listing", !.todo = x.todo \ {x.file},
                                !.file = NoFile, !.row = NoRow, !.copy = "absent"]
    BY <1>4 DEF Send
  <2>2. LET y == [x EXCEPT !.pc = "listing", !.todo = x.todo \ {x.file},
                           !.file = NoFile, !.row = NoRow, !.copy = "absent"]
        IN  Keeps(x, y) /\ y.pc = "listing"
    BY <1>f DEF SyncRec, Keeps
  <2> QED
    BY <1>4, <2>1, <2>2
<1>5. ASSUME NEW t \in Syncs, NEW y, sync' = [sync EXCEPT ![t] = y], y.pc \notin AtWork
      PROVE  sync'[s] = sync[s]
  BY <1>5
<1>6. NoSync.pc = "none" /\ \A inc, n : QueuedSync(inc, n).pc = "queued"
  BY DEF NoSync, QueuedSync
<1>7. ASSUME NEW t \in Syncs, Start(t) PROVE sync'[s] = sync[s]
  <2>1. sync[t] \in SyncRec
    OBVIOUS
  <2>2. [sync[t] EXCEPT !.pc = "loaded", !.st = status].pc = "loaded"
    BY <2>1 DEF SyncRec
  <2> QED
    BY <1>5, <1>6, <1>7, <2>2 DEF Start
<1>8. ASSUME NEW t \in Syncs, Finish(t) \/ Raise(t) \/ SyncFails(t) \/ SyncCrashes(t)
      PROVE  sync'[s] = sync[s]
  BY <1>5, <1>6, <1>8 DEF Finish, Raise, SyncFails, SyncCrashes, Retry
<1>9. ASSUME NEW inc, QueueSync(inc) PROVE sync'[s] = sync[s]
  BY <1>5, <1>6, <1>9 DEF QueueSync
<1>11. ASSUME NEW t \in Syncs, t # s,
              Begin(t) \/ (\E f \in Files : Lookup(t, f)) \/ Write(t) \/ Send(t)
       PROVE  sync'[s] = sync[s]
  BY <1>11 DEF Begin, Lookup, Write, Send
<1>12. UNCHANGED sync => sync'[s] = sync[s]
  OBVIOUS
<1>13. ASSUME NEW t \in Syncs, SyncStep(t) \/ SyncFails(t) \/ SyncCrashes(t)
       PROVE  \/ sync'[s] = sync[s]
              \/ Begin(s) \/ (\E f \in Files : Lookup(s, f)) \/ Write(s) \/ Send(s)
  <2>1. CASE Start(t) \/ Finish(t) \/ Raise(t) \/ SyncFails(t) \/ SyncCrashes(t)
    BY <1>7, <1>8, <2>1
  <2>2. CASE Begin(t) \/ (\E f \in Files : Lookup(t, f)) \/ Write(t) \/ Send(t)
    BY <1>11, <2>2
  <2> QED
    BY <1>13, <2>1, <2>2 DEF SyncStep
<1>14. \/ sync'[s] = sync[s]
       \/ Begin(s) \/ (\E f \in Files : Lookup(s, f)) \/ Write(s) \/ Send(s)
  BY <1>9, <1>12, <1>13, StepWriters DEF Writers
<1> QED
  BY <1>1, <1>2, <1>3, <1>4, <1>14

\* A step makes no row appear but by the INSERT of a sync that had found none.
Shrinks == \A f \in Files, r \in Rows : row[f][r] = "absent" => row'[f][r] = "absent"

LEMMA RowsAppear ==
  ASSUME TypeOK, Assigned, [Next]_vars
  PROVE  \/ Shrinks
         \/ \E s \in Syncs : /\ Write(s) /\ sync[s].copy = "absent"
                             /\ Insert(sync[s].file)
<1> USE DEF TypeOK
<1>1. UNCHANGED row => Shrinks
  BY DEF Shrinks
<1>2. ASSUME NEW f \in Files, NEW r \in Rows, NEW v, row[f][r] # "absent",
             row' = [row EXCEPT ![f][r] = v]
      PROVE  Shrinks
  BY <1>2 DEF Shrinks
<1>3. ASSUME NEW l \in Loads, Save(l) PROVE Shrinks
  <2>1. load[l].file \in Files
    BY <1>3 DEF Save, Assigned, LoadAssigned
  <2>2. ASSUME NEW r \in Rows, row[load[l].file][r] # "absent",
               row' = [row EXCEPT ![load[l].file][r] = "syncing"]
        PROVE  Shrinks
    BY <1>2, <2>1, <2>2
  <2> QED
    BY <1>1, <1>3, <2>2 DEF Save
<1>4. ASSUME NEW l \in Loads, LoadMissing(l) \/ LoadFails(l) PROVE Shrinks
  <2>1. load[l].file \in Files
    BY <1>4 DEF LoadMissing, LoadFails, Assigned, LoadAssigned
  <2>2. ASSUME NEW r \in Rows, row[load[l].file][r] # "absent",
               row' = [row EXCEPT ![load[l].file][r] = "failed"]
        PROVE  Shrinks
    BY <1>2, <2>1, <2>2
  <2>3. MarkFailed(load[l].file)
    BY <1>4 DEF LoadMissing, LoadFails
  <2> QED
    BY <1>1, <2>2, <2>3 DEF MarkFailed
<1>5. ASSUME NEW s \in Syncs, Write(s)
      PROVE  Shrinks \/ (sync[s].copy = "absent" /\ Insert(sync[s].file))
  <2>1. sync[s].file \in Files /\ (sync[s].copy # "absent" => sync[s].row \in Rows)
    BY <1>5 DEF Write, Assigned, SyncAssigned
  <2>2. \/ sync[s].copy = "absent" /\ Insert(sync[s].file)
        \/ /\ sync[s].copy # "absent" /\ row[sync[s].file][sync[s].row] # "absent"
           /\ row' = [row EXCEPT ![sync[s].file][sync[s].row] = Wanted(s)]
        \/ UNCHANGED row
    BY <1>5 DEF Write
  <2>3. ASSUME sync[s].copy # "absent", row[sync[s].file][sync[s].row] # "absent",
               row' = [row EXCEPT ![sync[s].file][sync[s].row] = Wanted(s)]
        PROVE  Shrinks
    BY <1>2, <2>1, <2>3
  <2> QED
    BY <1>1, <2>2, <2>3
<1>6. CASE Disconnect
  BY <1>6 DEF Disconnect, Shrinks
<1> QED
  BY <1>1, <1>3, <1>4, <1>5, <1>6, StepWriters DEF Writers

-----------------------------------------------------------------------------
(* Syncs of one connector that do not overlap. *)

\* No two syncs are at work at once.  Nothing in the code sees to it: two that
\* overlap do insert two rows for a file, and may take the token back.
Apart ==
  \A s, t \in Syncs : sync[s].pc \in AtWork /\ sync[t].pc \in AtWork => s = t

\* What the sync found when it looked is still so when it inserts.
Fresh(x) == x.pc = "writing" /\ x.copy = "absent" => ~Tracked(x.file)
RowInv == OneRowPerFile /\ \A s \in Syncs : Fresh(sync[s])

\* OneRowPerFile: as long as no two syncs are at work at once, however many are
\* queued, no file comes to own two rows, whatever downloads, retries, crashes and
\* requests come between the lookup and the insert of orchestrator.py.
THEOREM OneRow == Spec /\ []Apart => []OneRowPerFile
<1>1. Init => RowInv
  BY DEF Init, RowInv, OneRowPerFile, Fresh, NoSync, QueuedSync
<1>2. TInv /\ Apart /\ RowInv /\ [Next]_vars => RowInv'
  <2> SUFFICES ASSUME TypeOK, Assigned, Apart, RowInv, [Next]_vars PROVE RowInv'
    BY DEF TInv
  <2>1. Shrinks \/ \E s \in Syncs : /\ Write(s) /\ sync[s].copy = "absent"
                                    /\ Insert(sync[s].file)
    BY RowsAppear
  <2>2. OneRowPerFile'
    <3>1. CASE Shrinks
      BY <3>1 DEF Shrinks, RowInv, OneRowPerFile
    <3>2. ASSUME NEW s \in Syncs, Write(s), sync[s].copy = "absent", Insert(sync[s].file)
          PROVE  OneRowPerFile'
      <4>1. sync[s].file \in Files /\ ~Tracked(sync[s].file)
        BY <3>2 DEF Write, Assigned, SyncAssigned, RowInv, Fresh
      <4>2. PICK r \in Rows : row' = [row EXCEPT ![sync[s].file][r] = "syncing"]
        BY <3>2 DEF Insert, InsertUnchecked
      <4> QED
        BY <4>1, <4>2 DEF Tracked, RowInv, OneRowPerFile, TypeOK
    <3> QED
      BY <2>1, <3>1, <3>2
  <2>3. ASSUME NEW s \in Syncs PROVE Fresh(sync[s])'
    <3> SUFFICES ASSUME sync'[s].pc = "writing", sync'[s].copy = "absent"
                 PROVE  ~Tracked(sync[s].file)'
      BY DEF Fresh
    <3>1. \/ sync'[s] = sync[s]
          \/ \E f \in Files : Lookup(s, f)
      BY SyncsAtWork DEF AtWork
    <3>2. ASSUME NEW f \in Files, Lookup(s, f) PROVE ~Tracked(sync[s].file)'
      <4> DEFINE x == sync[s]
      <4>f. x \in SyncRec /\ row[f] \in [Rows -> RowStatus]
        BY DEF TypeOK
      <4>1. ASSUME NEW r \in Rows, row[f][r] # "absent"
            PROVE  [x EXCEPT !.pc = "writing", !.file = f, !.row = r,
                             !.copy = row[f][r]].copy # "absent"
        BY <4>f, <4>1 DEF SyncRec
      <4>2. x.pc = "listing" => [x EXCEPT !.gone = x.gone \ {f}].pc # "writing"
        BY <4>f DEF SyncRec
      <4>3. [x EXCEPT !.pc = "writing", !.file = f, !.copy = "absent"].file = f
        BY <4>f DEF SyncRec
      <4>4. sync'[s].file = f /\ ~Tracked(f)
        BY <3>2, <4>1, <4>2, <4>3 DEF Lookup, TypeOK
      <4>5. UNCHANGED row
        BY <3>2 DEF Lookup
      <4> QED
        BY <4>4, <4>5 DEF Tracked
    <3>3. CASE sync'[s] = sync[s]
      <4>1. sync[s].file \in Files /\ ~Tracked(sync[s].file)
        BY <3>3 DEF RowInv, Fresh, Assigned, SyncAssigned
      <4>2. ASSUME NEW t \in Syncs, Write(t) PROVE FALSE
        <5>1. t = s
          BY <3>3, <4>2 DEF Apart, AtWork, Write
        <5>2. sync[s] \in SyncRec
          BY DEF TypeOK
        <5>3. sync[s].pc = "writing"
          BY <3>3
        <5>4. \/ sync'[s] = [sync[s] EXCEPT !.pc = "sending"]
              \/ sync'[s] = [sync[s] EXCEPT !.pc = "listing",
                                !.gone = sync[s].gone \ {sync[s].file},
                                !.file = NoFile, !.row = NoRow, !.copy = "absent"]
          BY <4>2, <5>1 DEF Write, TypeOK
        <5>5. [sync[s] EXCEPT !.pc = "sending"].pc = "sending"
          BY <5>2 DEF SyncRec
        <5>6. [sync[s] EXCEPT !.pc = "listing", !.gone = sync[s].gone \ {sync[s].file},
                  !.file = NoFile, !.row = NoRow, !.copy = "absent"].pc = "listing"
          BY <5>2 DEF SyncRec
        <5> QED
          BY <5>4, <5>5, <5>6
      <4>3. Shrinks
        BY <2>1, <4>2
      <4> QED
        BY <3>3, <4>1, <4>3 DEF Shrinks, Tracked
    <3> QED
      BY <3>1, <3>2, <3>3
  <2> QED
    BY <2>2, <2>3 DEF RowInv
<1>3. RowInv => OneRowPerFile
  BY DEF RowInv
<1> QED
  BY <1>1, <1>2, <1>3, TypesInvariant, PTL DEF Spec

\* The position a sync may store is no older than the one that is stored.
Newer(x) == x.pc \in AtWork /\ x.cursor # NoVersion => token <= x.cursor /\ x.cursor <= clock
TokenInv == token <= clock /\ \A s \in Syncs : Newer(sync[s])

\* TokenNeverRegresses: as long as no two syncs are at work at once, the token only
\* moves forward, for every adapter and through every retry and redelivery of
\* discover_files_task.
THEOREM TokenForward == Spec /\ []Apart => TokenNeverRegresses
<1>1. Init => TokenInv
  BY DEF Init, TokenInv, Newer, AtWork, NoSync, QueuedSync, NoVersion
<1>2. TInv /\ TokenInv /\ [Next]_vars => (token' >= token /\ clock <= clock')
  <2> SUFFICES ASSUME TypeOK, TokenInv, [Next]_vars PROVE token' >= token /\ clock <= clock'
    BY DEF TInv
  <2>1. token \in Int /\ clock \in Nat
    BY DEF TypeOK, Version, NoVersion
  <2>2. ASSUME NEW s \in Syncs, Finish(s) PROVE token' >= token /\ clock' = clock
    <3>1. token' \in {token, clock, sync[s].cursor} /\ clock' = clock
      BY <2>2 DEF Finish, NewToken, provider
    <3>2. token' = sync[s].cursor => sync[s].cursor # NoVersion \/ token' = token \/ token' = clock
      BY <2>2 DEF Finish, NewToken
    <3>3. sync[s].cursor # NoVersion => token <= sync[s].cursor
      BY <2>2 DEF Finish, TokenInv, Newer, AtWork
    <3> QED
      BY <2>1, <3>1, <3>2, <3>3 DEF TokenInv
  <2>3. ASSUME NEW f \in Files, Change(f) \/ Remove(f) PROVE token' = token /\ clock <= clock'
    BY <2>1, <2>3 DEF Change, Remove, state
  <2>4. \/ token' = token /\ clock' = clock
        \/ \E s \in Syncs : Finish(s)
        \/ \E f \in Files : Change(f) \/ Remove(f)
    BY StepWriters DEF Writers
  <2> QED
    BY <2>1, <2>2, <2>3, <2>4
<1>3. TInv /\ TInv' /\ Apart /\ TokenInv /\ [Next]_vars => TokenInv'
  <2> SUFFICES ASSUME TypeOK, TypeOK', Assigned, Apart, TokenInv, [Next]_vars PROVE TokenInv'
    BY DEF TInv
  <2>1. token \in Int /\ clock \in Nat /\ token' \in Int /\ clock' \in Nat /\ clock <= clock'
    BY <1>2 DEF TypeOK, Version, NoVersion, TInv
  <2>2. token' = token \/ \E s \in Syncs : Finish(s)
    BY StepWriters DEF Writers
  <2>3. ASSUME NEW s \in Syncs, Finish(s) PROVE TokenInv'
    <3>1. token' \in {token, clock} \/ (token' = sync[s].cursor /\ sync[s].cursor # NoVersion)
      BY <2>3 DEF Finish, NewToken
    <3>2. sync[s].cursor # NoVersion => sync[s].cursor <= clock
      BY <2>3 DEF Finish, TokenInv, Newer, AtWork
    <3>3. token' <= clock'
      BY <2>1, <3>1, <3>2 DEF TokenInv
    <3>4. ASSUME NEW t \in Syncs PROVE Newer(sync[t])'
      <4>1. CASE t = s
        <5>1. sync'[t] = NoSync
          BY <2>3, <4>1 DEF Finish, TypeOK
        <5> QED
          BY <5>1 DEF NoSync, Newer, AtWork
      <4>2. CASE t # s
        <5>1. sync'[t] = sync[t]
          BY <2>3, <4>2 DEF Finish, TypeOK
        <5>2. sync[t].pc \notin AtWork
          BY <2>3, <4>2 DEF Finish, Apart, AtWork
        <5> QED
          BY <5>1, <5>2 DEF Newer, AtWork
      <4> QED
        BY <4>1, <4>2
    <3> QED
      BY <3>3, <3>4 DEF TokenInv
  <2>4. ASSUME token' = token PROVE TokenInv'
    <3>1. token' <= clock'
      BY <2>1, <2>4 DEF TokenInv
    <3>2. ASSUME NEW s \in Syncs PROVE Newer(sync[s])'
      <4> SUFFICES ASSUME sync'[s].pc \in AtWork, sync'[s].cursor # NoVersion
                   PROVE  token <= sync'[s].cursor /\ sync'[s].cursor <= clock'
        BY <2>4 DEF Newer, AtWork
      <4>1. sync'[s].cursor \in Int
        BY SyncFields DEF TypeOK, Version, NoVersion
      <4>2. CASE sync'[s].cursor = Cursor(sync[s].inc)
        BY <2>1, <4>2 DEF Cursor, TokenInv
      <4>3. CASE sync[s].pc \in AtWork /\ sync'[s].cursor = sync[s].cursor
        BY <2>1, <4>1, <4>3 DEF TokenInv, Newer
      <4> QED
        BY <4>2, <4>3, SyncsAtWork DEF Keeps
    <3> QED
      BY <3>1, <3>2 DEF TokenInv
  <2> QED
    BY <2>2, <2>3, <2>4
<1>4. TInv /\ TokenInv /\ [Next]_vars => [token' >= token]_vars
  BY <1>2
<1> QED
  BY <1>1, <1>3, <1>4, TypesInvariant, PTL DEF Spec, TokenNeverRegresses

-----------------------------------------------------------------------------
(* What was handed to a download reaches the index. *)

\* Only crashes, lost publications and refresh failures.  An error in a download
\* marks the row, which an older download then unmarks; an ingestion that fails, or
\* a job that is not stored, is dropped by the code without a mark.
Mild == Faults \cap {"error", "database", "ingest"} = {}

\* A file that a sync has read as deleted is gone, or is back in a later version.
Listing(x) ==
  /\ x.pc \in AtWork => /\ x.at <= clock
                        /\ \A f \in x.gone : live[f] => ver[f] > x.at
  /\ x.pc = "writing" => x.file \in x.todo \cup x.gone

\* Nothing was handed on from the future, and an empty slot is about no file.
History ==
  /\ \A f \in Files : ver[f] <= clock /\ seen[f] <= clock
  /\ \A s \in Syncs : Listing(sync[s])
  /\ \A l \in Loads : load[l].pc = "none" => load[l].file = NoFile

\* A version that was handed on is indexed or in flight.
Handed(f) ==
  live[f] /\ status # "gone" /\ seen[f] >= ver[f] => indexed[f] >= ver[f] \/ InFlight(f)

AInv == History /\ \A f \in Files : Handed(f)

LEMMA HistoryInit == Init => History
  BY DEF Init, History, Listing, AtWork, NoSync, QueuedSync, NoLoad, NoVersion,
     ConnectorSyncAssumption


\* What a step does to the provider, to the status and to what was handed on.
Turns ==
  /\ clock <= clock'
  /\ \A f \in Files : \/ ver'[f] > clock /\ ver'[f] <= clock'
                      \/ ver'[f] = ver[f] /\ live'[f] = live[f]
  /\ status = "gone" => status' = "gone"

LEMMA StepsTurn == ASSUME TypeOK, [Next]_vars PROVE Turns
<1>3. clock \in Nat /\ \A f \in Files : ver[f] \in Nat
  BY DEF TypeOK
<1>4. ASSUME NEW f \in Files, Change(f) \/ Remove(f) PROVE Turns
  <2>1. clock' = clock + 1
    BY <1>4 DEF Change, Remove
  <2>2. \A g \in Files : /\ g = f => ver'[g] = clock + 1
                         /\ g # f => ver'[g] = ver[g] /\ live'[g] = live[g]
    BY <1>4 DEF Change, Remove, TypeOK
  <2>3. ASSUME NEW g \in Files
        PROVE  \/ ver'[g] > clock /\ ver'[g] <= clock'
               \/ ver'[g] = ver[g] /\ live'[g] = live[g]
    BY <1>3, <2>1, <2>2
  <2> QED
    BY <1>3, <2>1, <2>3, StepWriters DEF Turns
<1>5. clock' = clock /\ ver' = ver /\ live' = live => Turns
  BY <1>3, StepWriters DEF Turns
<1> QED
  BY <1>4, <1>5, StepWriters DEF Writers

\* What was handed on of a file changes only when a sync has dealt with it, up to
\* the time of its listing.
LEMMA SeenMoves ==
  ASSUME TypeOK, Assigned, History, [Next]_vars, NEW f \in Files
  PROVE  \/ seen'[f] = seen[f]
         \/ \E s \in Syncs : /\ sync[s].pc \in AtWork
                             /\ seen'[f] = MaxOf(seen[f], sync[s].at)
                             /\ (Send(s) /\ f = sync[s].file) \/ f \in sync[s].gone
<1>1. seen \in [Files -> Version]
  BY DEF TypeOK
<1>2. ASSUME NEW s \in Syncs, NEW g \in Files, Lookup(s, g)
      PROVE  \/ seen'[f] = seen[f]
             \/ /\ sync[s].pc \in AtWork /\ seen'[f] = MaxOf(seen[f], sync[s].at)
                /\ f \in sync[s].gone
  BY <1>1, <1>2 DEF Lookup, FilesLeft, AtWork
<1>3. ASSUME NEW s \in Syncs, Write(s)
      PROVE  \/ seen'[f] = seen[f]
             \/ /\ sync[s].pc \in AtWork /\ seen'[f] = MaxOf(seen[f], sync[s].at)
                /\ f \in sync[s].gone
  <2>1. sync[s].file \in Files /\ sync[s].pc = "writing"
    BY <1>3 DEF Write, Assigned, SyncAssigned
  <2>2. sync[s].file \in sync[s].todo \cup sync[s].gone
    BY <2>1 DEF History, Listing
  <2> QED
    BY <1>1, <1>3, <2>1, <2>2 DEF Write, AtWork
<1>4. ASSUME NEW s \in Syncs, Send(s)
      PROVE  \/ seen'[f] = seen[f]
             \/ /\ sync[s].pc \in AtWork /\ seen'[f] = MaxOf(seen[f], sync[s].at)
                /\ f = sync[s].file
  <2>1. sync[s].file \in Files /\ sync[s].pc = "sending"
    BY <1>4 DEF Send, Assigned, SyncAssigned
  <2> QED
    BY <1>1, <1>4, <2>1 DEF Send, AtWork
<1> QED
  BY <1>2, <1>3, <1>4, StepWriters DEF Writers

\* The slots of downloads: a step leaves one alone, empties it, or changes it as
\* the task in it goes on.
LEMMA LoadMoves ==
  ASSUME TypeOK, Assigned, Mild, [Next]_vars, NEW l \in Loads
  PROVE  \/ load'[l] = load[l]
         \/ load[l].pc = "none" /\ load'[l].pc = "queued"
         \/ load'[l] = NoLoad /\ Ingest(l)
         \/ load'[l] = NoLoad /\ (status = "gone" \/ ~live[load[l].file])
         \/ /\ load[l].pc # "none" /\ load'[l].file = load[l].file
            /\ load'[l].pc # "none"
            /\ \/ load'[l].pc = "queued"
               \/ load'[l].ver = ver[load[l].file]
               \/ load'[l].ver = load[l].ver /\ load[l].pc # "queued"
<1> DEFINE x == load[l]
<1>f. x \in LoadRec /\ load \in [Loads -> LoadRec]
  BY DEF TypeOK
<1>1. ASSUME Download(l)
      PROVE  \/ load'[l] = NoLoad /\ status = "gone"
             \/ /\ load'[l].file = x.file /\ load'[l].pc = "held" /\ load'[l].ver = ver[x.file]
                /\ x.pc # "none"
  <2>1. [x EXCEPT !.pc = "held", !.ver = ver[x.file]].file = x.file
    BY <1>f DEF LoadRec
  <2>2. [x EXCEPT !.pc = "held", !.ver = ver[x.file]].pc = "held"
    BY <1>f DEF LoadRec
  <2>3. [x EXCEPT !.pc = "held", !.ver = ver[x.file]].ver = ver[x.file]
    BY <1>f DEF LoadRec
  <2> QED
    BY <1>f, <1>1, <2>1, <2>2, <2>3 DEF Download
<1>2. ASSUME Save(l)
      PROVE  /\ load'[l].file = x.file /\ load'[l].pc = "saved" /\ load'[l].ver = x.ver
             /\ x.pc = "held"
  <2>1. LET y == [x EXCEPT !.pc = "saved"]
        IN  y.file = x.file /\ y.pc = "saved" /\ y.ver = x.ver
    BY <1>f DEF LoadRec
  <2> QED
    BY <1>f, <1>2, <2>1 DEF Save
<1>3. \A f, n : QueuedLoad(f, n).pc = "queued" /\ QueuedLoad(f, n).file = f
  BY DEF QueuedLoad, NoLoad
<1>4. LoadMissing(l) => /\ x.pc # "none" /\ ~live[x.file]
                        /\ load'[l] = NoLoad \/ load'[l] = QueuedLoad(x.file, x.retries + 1)
  BY <1>f DEF LoadMissing, LoadRetry
<1>5. LoadCrashes(l) => x.pc # "none" /\ load'[l] = QueuedLoad(x.file, x.retries)
  BY <1>f DEF LoadCrashes
<1>6. Ingest(l) => load'[l] = NoLoad
  BY <1>f DEF Ingest
<1>7. ~Fault("error") /\ ~Fault("database") /\ ~Fault("ingest")
  BY DEF Fault, Mild
<1>8. \A m \in Loads : ~IngestFails(m) /\ ~LoadFails(m) /\ ~SaveFails(m)
  BY <1>7 DEF IngestFails, LoadFails, SaveFails
<1>9. ASSUME NEW m \in Loads, m # l, LoadStep(m) \/ LoadCrashes(m)
      PROVE  load'[l] = load[l]
  BY <1>f, <1>9 DEF LoadStep, Download, Save, Ingest, LoadMissing, LoadRetry, LoadCrashes
<1>10. ASSUME NEW s \in Syncs, Send(s)
       PROVE  load'[l] = load[l] \/ (load[l].pc = "none" /\ load'[l].pc = "queued")
  BY <1>f, <1>3, <1>10 DEF Send
<1>11. CASE LoadStep(l) \/ LoadCrashes(l)
  BY <1>1, <1>2, <1>3, <1>4, <1>5, <1>6, <1>11 DEF LoadStep
<1> QED
  BY <1>8, <1>9, <1>10, <1>11, StepWriters DEF Writers


LEMMA HistoryNext ==
  ASSUME TypeOK, TypeOK', Assigned, Mild, History, [Next]_vars
  PROVE  History'
<1>1. Turns
  BY StepsTurn
<1>2. clock \in Nat /\ clock' \in Nat /\ clock <= clock'
  BY <1>1 DEF TypeOK, Turns
<1>3. ASSUME NEW f \in Files PROVE ver'[f] <= clock' /\ seen'[f] <= clock'
  <2>1. ver[f] \in Int /\ ver'[f] \in Int /\ seen[f] \in Int /\ seen'[f] \in Int
    BY DEF TypeOK, Version, NoVersion
  <2>2. ver[f] <= clock /\ seen[f] <= clock
    BY DEF History
  <2>3. ver'[f] <= clock'
    BY <1>1, <1>2, <2>1, <2>2 DEF Turns
  <2>4. ASSUME NEW s \in Syncs, sync[s].pc \in AtWork, seen'[f] = MaxOf(seen[f], sync[s].at)
        PROVE  seen'[f] <= clock'
    <3>1. sync[s].at \in Nat /\ sync[s].at <= clock
      BY <2>4, SyncFields DEF History, Listing, TypeOK
    <3> QED
      BY <1>2, <2>1, <2>2, <2>4, <3>1 DEF MaxOf
  <2>5. seen'[f] = seen[f] => seen'[f] <= clock'
    BY <1>2, <2>1, <2>2
  <2> QED
    BY <2>3, <2>4, <2>5, SeenMoves
<1>4. ASSUME NEW s \in Syncs PROVE Listing(sync[s])'
  <2> SUFFICES ASSUME sync'[s].pc \in AtWork
               PROVE  /\ sync'[s].at <= clock'
                      /\ \A f \in sync'[s].gone : live'[f] => ver'[f] > sync'[s].at
                      /\ sync'[s].pc = "writing" =>
                           sync'[s].file \in sync'[s].todo \cup sync'[s].gone
    BY DEF Listing, AtWork
  <2>1. sync[s].at \in Nat /\ sync'[s].at \in Nat /\ sync[s].gone \in SUBSET Files
    BY SyncFields DEF TypeOK
  <2>2. CASE /\ Begin(s) /\ sync'[s].pc = "listing" /\ sync'[s].at = clock
             /\ sync'[s].gone = Deleted(sync[s].inc)
    <3>1. live' = live
      BY <2>2 DEF Begin, provider
    <3> QED
      BY <1>2, <2>2, <3>1 DEF Deleted
  <2>3. ASSUME sync[s].pc \in AtWork, sync'[s].at = sync[s].at,
               sync'[s].gone \in SUBSET sync[s].gone,
               sync'[s].pc = "writing" => sync'[s].file \in sync'[s].todo \cup sync'[s].gone
        PROVE  /\ sync'[s].at <= clock'
               /\ \A f \in sync'[s].gone : live'[f] => ver'[f] > sync'[s].at
    <3>1. sync[s].at <= clock /\ \A f \in sync[s].gone : live[f] => ver[f] > sync[s].at
      BY <2>3 DEF History, Listing
    <3>2. ASSUME NEW f \in sync'[s].gone, live'[f] PROVE ver'[f] > sync'[s].at
      <4>1. f \in Files /\ f \in sync[s].gone /\ ver[f] \in Nat /\ ver'[f] \in Nat
        BY <2>1, <2>3 DEF TypeOK
      <4>2. ver'[f] > clock \/ (ver'[f] = ver[f] /\ live[f])
        BY <1>1, <3>2, <4>1 DEF Turns
      <4> QED
        BY <1>2, <2>1, <2>3, <3>1, <4>1, <4>2
    <3> QED
      BY <1>2, <2>1, <2>3, <3>1, <3>2
  <2>4. CASE sync'[s] = sync[s]
    <3>1. sync[s].pc = "writing" => sync[s].file \in sync[s].todo \cup sync[s].gone
      BY DEF History, Listing
    <3> QED
      BY <2>3, <2>4, <3>1
  <2>5. CASE sync[s].pc \in AtWork /\ Keeps(sync[s], sync'[s])
    BY <2>3, <2>5 DEF Keeps
  <2> QED
    BY <2>2, <2>4, <2>5, SyncsAtWork
<1>5. ASSUME NEW l \in Loads, load'[l].pc = "none" PROVE load'[l].file = NoFile
  <2>1. NoLoad.file = NoFile
    BY DEF NoLoad
  <2> QED
    BY <1>5, <2>1, LoadMoves DEF History
<1> QED
  BY <1>3, <1>4, <1>5 DEF History

\* A task that will bring the present version of f, or a later one.
Carries(x, f) == x.file = f /\ (x.pc = "queued" \/ x.ver >= ver[f])

LEMMA HandedNext ==
  ASSUME TypeOK, TypeOK', Assigned, Mild, History, History', [Next]_vars,
         NEW f \in Files, Handed(f)
  PROVE  Handed(f)'
<1> SUFFICES ASSUME live'[f], status' # "gone", seen'[f] >= ver'[f], ~(indexed'[f] >= ver'[f])
             PROVE  \E l \in Loads : load'[l].file = f /\ (load'[l].pc = "queued" \/ load'[l].ver >= ver'[f])
  BY DEF Handed, InFlight
<1>1. Turns
  BY StepsTurn
<1>2. /\ clock \in Nat /\ ver[f] \in Nat /\ ver'[f] \in Nat /\ seen[f] \in Int
      /\ seen'[f] \in Int /\ indexed[f] \in Int /\ indexed'[f] \in Int
  BY DEF TypeOK, Version, NoVersion
<1>3. seen[f] <= clock
  BY DEF History
<1>4. CASE ver'[f] > clock
  <2>1. ASSUME NEW s \in Syncs, sync[s].pc \in AtWork, seen'[f] = MaxOf(seen[f], sync[s].at)
        PROVE  FALSE
    <3>1. sync[s].at \in Nat /\ sync[s].at <= clock
      BY <2>1, SyncFields DEF History, Listing, TypeOK
    <3> QED
      BY <1>2, <1>3, <1>4, <2>1, <3>1 DEF MaxOf
  <2>2. seen'[f] # seen[f]
    BY <1>2, <1>3, <1>4
  <2> QED
    BY <2>1, <2>2, SeenMoves
<1>5. CASE ver'[f] = ver[f] /\ live'[f] = live[f]
  <2>0. live[f] /\ status # "gone"
    BY <1>1, <1>5 DEF Turns
  <2>1. ASSUME seen[f] >= ver[f] PROVE \E l \in Loads : Carries(load'[l], f)
    <3>1. indexed'[f] >= indexed[f]
      <4>2. ASSUME NEW l \in Loads, Ingest(l) PROVE indexed'[f] >= indexed[f]
        <5>1. load[l].ver \in Int
          BY LoadFields DEF TypeOK, Version, NoVersion
        <5>2. \/ indexed'[f] = indexed[f]
              \/ indexed'[f] = MaxOf(indexed[f], load[l].ver)
          BY <4>2 DEF Ingest, TypeOK
        <5> QED
          BY <1>2, <5>1, <5>2 DEF MaxOf
      <4> QED
        BY <1>2, <4>2, StepWriters DEF Writers
    <3>2. PICK l \in Loads : Carries(load[l], f)
      <4>1. ~(indexed[f] >= ver[f])
        BY <1>2, <1>5, <3>1
      <4> QED
        BY <2>0, <2>1, <4>1 DEF Handed, InFlight, Carries
    <3>3. load[l].file = f /\ load[l].pc # "none"
      <4>1. NoFile \notin Files
        BY ConnectorSyncAssumption
      <4> QED
        BY <3>2, <4>1 DEF Carries, History
    <3>4. load[l].ver \in Int /\ load'[l].ver \in Int
      BY LoadFields DEF TypeOK, Version, NoVersion
    <3>5. ~Ingest(l)
      <4> SUFFICES ASSUME Ingest(l) PROVE FALSE
        OBVIOUS
      <4>1. indexed'[f] = MaxOf(indexed[f], load[l].ver) /\ load[l].pc = "saved"
        BY <3>3 DEF Ingest, TypeOK
      <4>2. load[l].ver >= ver[f]
        BY <3>2, <4>1 DEF Carries
      <4> QED
        BY <1>2, <1>5, <3>4, <4>1, <4>2 DEF MaxOf
    <3>6. \/ load'[l] = load[l]
          \/ /\ load'[l].file = load[l].file
             /\ \/ load'[l].pc = "queued"
                \/ load'[l].ver = ver[load[l].file]
                \/ load'[l].ver = load[l].ver /\ load[l].pc # "queued"
      BY <2>0, <3>3, <3>5, LoadMoves
    <3>7. Carries(load'[l], f)
      BY <1>2, <3>2, <3>3, <3>4, <3>6 DEF Carries
    <3> QED
      BY <3>7
  <2>2. ASSUME seen[f] < ver[f] PROVE \E l \in Loads : Carries(load'[l], f)
    <3>1. seen'[f] # seen[f]
      BY <1>2, <1>5, <2>2
    <3>2. PICK s \in Syncs : /\ sync[s].pc \in AtWork
                             /\ seen'[f] = MaxOf(seen[f], sync[s].at)
                             /\ (Send(s) /\ f = sync[s].file) \/ f \in sync[s].gone
      BY <3>1, SeenMoves
    <3>3. sync[s].at \in Nat /\ sync[s].at >= ver[f]
      <4>1. sync[s].at \in Nat
        BY SyncFields DEF TypeOK
      <4> QED
        BY <1>2, <1>5, <2>2, <3>2, <4>1 DEF MaxOf
    <3>4. f \notin sync[s].gone
      <4>1. f \in sync[s].gone => ver[f] > sync[s].at
        BY <2>0, <3>2 DEF History, Listing
      <4> QED
        BY <1>2, <3>3, <4>1
    <3>5. PICK l \in Loads : load' = [load EXCEPT ![l] = QueuedLoad(f, 0)]
      BY <3>2, <3>4 DEF Send
    <3>6. QueuedLoad(f, 0).file = f /\ QueuedLoad(f, 0).pc = "queued"
      BY DEF QueuedLoad, NoLoad
    <3> QED
      BY <3>5, <3>6 DEF Carries, TypeOK
  <2>3. seen[f] >= ver[f] \/ seen[f] < ver[f]
    BY <1>2
  <2>4. \E l \in Loads : Carries(load'[l], f)
    BY <2>1, <2>2, <2>3
  <2> QED
    BY <1>5, <2>4 DEF Carries
<1> QED
  BY <1>1, <1>4, <1>5 DEF Turns

\* Accounted: short of an error in a download or in the ingestion, a version that
\* a sync has handed on is indexed, or a task that will bring it is in flight,
\* whatever syncs and downloads overlap, are lost with their worker and delivered
\* again, and whatever changes at the provider meanwhile.
THEOREM HandedArrives == ASSUME Mild PROVE Spec => []Accounted
<1>1. Init => AInv
  <2>1. Init => \A f \in Files : Handed(f)
    BY DEF Init, Handed, NoVersion
  <2> QED
    BY <2>1, HistoryInit DEF AInv
<1>2. TInv /\ TInv' /\ AInv /\ [Next]_vars => AInv'
  <2> SUFFICES ASSUME TypeOK, TypeOK', Assigned, History, \A f \in Files : Handed(f),
                      [Next]_vars
               PROVE  AInv'
    BY DEF TInv, AInv
  <2>1. History'
    BY HistoryNext
  <2>2. \A f \in Files : Handed(f)'
    BY <2>1, HandedNext
  <2> QED
    BY <2>1, <2>2 DEF AInv
<1>3. AInv => Accounted
  BY DEF AInv, Handed, Accounted
<1> QED
  BY <1>1, <1>2, <1>3, TypesInvariant, PTL DEF Spec
=============================================================================
