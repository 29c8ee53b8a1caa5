--------------------------- MODULE WorkspaceProofs ---------------------------
(* Theorems about Workspace: the default provider, the configurations that answer  *)
(* questions, and the caches of a setting, for any number of requests, providers   *)
(* and processes.                                                                 *)
EXTENDS Workspace, FiniteSetTheorems, TLAPS

Steps == Op \cup {"idle", "done", "write", "clear", "choose", "probe", "cached", "persist",
                  "insert", "upsert", "pop", "fetch", "store"}
ReqRow ==
  [op : Op, pc : Steps, p : Provider \cup {None}, id : Owner \cup {None}, cfg : Config,
   status : Status, seen : SUBSET (Owner \cup {None}), got : SUBSET Model,
   proc : Process \cup {None}, n : Nat, floor : Nat]

\* Where a request of each kind can be.
Place(op, pc) ==
  \/ pc \in {"idle", "done"}
  \/ op = pc
  \/ op = "update" /\ pc = "write"
  \/ op \in Choosers /\ pc \in {"clear", "choose"}
  \/ op = "test" /\ pc = "probe"
  \/ op = "discover" /\ pc \in {"cached", "persist", "insert"}
  \/ op = "set" /\ pc \in {"upsert", "pop"}
  \/ op = "get" /\ pc \in {"fetch", "store"}

Proper(q) ==
  /\ q \in ReqRow
  /\ Place(q.op, q.pc)
  /\ q.op \in {"set", "get"} => q.proc \in Process
  /\ q.op \notin {"set", "get", "none"} => q.p \in Provider

TInv ==
  /\ row \in [Provider -> ProviderRow] /\ models \subseteq ModelRow
  /\ value \in Nat /\ cache \in [Process -> Nat \cup {None}]
  /\ lock \in [Process -> Request \cup {None}] /\ finished \in [Process -> Nat]
  /\ req \in [Request -> ReqRow]
  /\ \A r \in Request : Proper(req[r])

LEMMA IdleProper == Proper(Idle) /\ Idle.op = "none" /\ Idle.pc = "idle"
BY DEF Idle, Proper, Place, ReqRow, Steps, Op, OnRow, Choosers, Config, NewConfig, Owner, Status

LEMMA AbsentRow == /\ Absent \in ProviderRow /\ Absent.id = None /\ Absent.default = FALSE
                   /\ Absent.status = "disconnected"
BY DEF Absent, ProviderRow, Config, NewConfig, Owner, Status

LEMMA TInit == Init => TInv
<1> SUFFICES ASSUME Init PROVE TInv
  OBVIOUS
<1>1. PICK here \in SUBSET Provider, good \in SUBSET Provider :
        row = [p \in Provider |->
                 IF p \notin here THEN Absent
                 ELSE [id |-> Old, default |-> FALSE, cfg |-> NewConfig(Old),
                       status |-> IF p \in good THEN "connected" ELSE "disconnected"]]
  BY DEF Init
<1>2. row \in [Provider -> ProviderRow]
  BY <1>1, AbsentRow DEF ProviderRow, Config, NewConfig, Owner, Status
<1>3. req = [r \in Request |-> Idle]
  BY DEF Init
<1>4. req \in [Request -> ReqRow] /\ \A r \in Request : Proper(req[r])
  BY <1>3, IdleProper DEF Proper
<1> QED
  BY <1>2, <1>4 DEF Init, TInv

\* What a step does to its request alone.
LEMMA TStep ==
  ASSUME TInv, NEW r \in Request, NEW q, Proper(q), req' = [req EXCEPT ![r] = q],
         row' \in [Provider -> ProviderRow], models' \subseteq ModelRow,
         value' \in Nat, cache' \in [Process -> Nat \cup {None}],
         lock' \in [Process -> Request \cup {None}], finished' \in [Process -> Nat]
  PROVE  /\ TInv'
         /\ req'[r] = q
         /\ \A s \in Request : s # r => req'[s] = req[s]
BY DEF TInv, Proper

\* A request that moves on keeps everything but its place.
LEMMA Move ==
  ASSUME TInv, NEW r \in Request, NEW pc \in Steps, Goes(r, pc), Place(req[r].op, pc)
  PROVE  \E q : /\ Proper(q) /\ req' = [req EXCEPT ![r] = q] /\ q.pc = pc
                /\ q.op = req[r].op /\ q.p = req[r].p /\ q.id = req[r].id
                /\ q.cfg = req[r].cfg /\ q.status = req[r].status /\ q.seen = req[r].seen
                /\ q.proc = req[r].proc /\ q.n = req[r].n /\ q.floor = req[r].floor
<1> DEFINE q == [req[r] EXCEPT !.pc = pc]
<1>1. Proper(req[r]) /\ req \in [Request -> ReqRow]
  BY DEF TInv
<1>2. /\ q \in ReqRow /\ q.pc = pc
      /\ q.op = req[r].op /\ q.p = req[r].p /\ q.id = req[r].id
      /\ q.cfg = req[r].cfg /\ q.status = req[r].status /\ q.seen = req[r].seen
      /\ q.proc = req[r].proc /\ q.n = req[r].n /\ q.floor = req[r].floor
  BY <1>1 DEF ReqRow
<1>3. req' = [req EXCEPT ![r] = q]
  BY <1>1 DEF Goes, ReqRow
<1>4. Proper(q)
  BY <1>1, <1>2 DEF Proper
<1> QED
  BY <1>2, <1>3, <1>4

\* The kind of a request, by where it is.
LEMMA Kind ==
  ASSUME NEW q, Proper(q)
  PROVE  /\ q.pc \in {"clear", "choose"} \cup Choosers => q.op \in Choosers
         /\ q.pc \in {"update", "write"} => q.op = "update"
         /\ q.pc \in {"test", "probe"} => q.op = "test"
         /\ q.pc \in {"discover", "cached", "persist", "insert"} => q.op = "discover"
         /\ q.pc \in {"set", "upsert", "pop"} => q.op = "set"
         /\ q.pc \in {"get", "fetch", "store"} => q.op = "get"
         /\ q.pc \in {"create", "delete", "resolve", "favorite", "defaultModel"} => q.op = q.pc
<1>1. q.op \in Op /\ Place(q.op, q.pc)
  BY DEF Proper, ReqRow
<1> QED
  BY <1>1 DEF Place, Op, OnRow, Choosers

\* q is the request r, further on.
Further(r, q) ==
  /\ Proper(q) /\ req' = [req EXCEPT ![r] = q]
  /\ q.op = req[r].op /\ q.p = req[r].p /\ q.id = req[r].id
  /\ q.proc = req[r].proc /\ q.floor = req[r].floor

LEMMA MoveOn ==
  ASSUME TInv, NEW r \in Request, NEW pc \in Steps, Goes(r, pc), Place(req[r].op, pc)
  PROVE  \E q : Further(r, q)
BY Move DEF Further

\* Every step of a handler takes its own request further, which is under way.
LEMMA Shape ==
  ASSUME TInv, NEW r \in Request, Handle(r)
  PROVE  req[r].pc \notin {"idle", "done"} /\ \E q : Further(r, q)
<1>0. /\ req \in [Request -> ReqRow] /\ Proper(req[r]) /\ req[r] \in ReqRow
      /\ row \in [Provider -> ProviderRow] /\ models \subseteq ModelRow
      /\ value \in Nat /\ cache \in [Process -> Nat \cup {None}]
  BY DEF TInv
<1> USE DEF Choosers
<1>1. CASE Create(r) \/ UpdateWrite(r) \/ Delete(r) \/ Choose(r) \/ Tested(r) \/ Resolve(r)
           \/ Persist(r) \/ Favorite(r) \/ DefaultModel(r) \/ SetPop(r) \/ GetStore(r)
  <2>1. Goes(r, "done") /\ req[r].pc \notin {"idle", "done"}
    BY <1>1 DEF Create, UpdateWrite, Delete, Choose, Tested, Resolve, Persist, Favorite,
                DefaultModel, SetPop, GetStore
  <2> QED
    BY <2>1, MoveOn DEF Place, Steps
<1>2. CASE Clear(r)
  <2>1. Goes(r, "choose") /\ req[r].pc = "clear"
    BY <1>2 DEF Clear
  <2> QED
    BY <1>0, <2>1, Kind, MoveOn DEF Place, Steps
<1>3. CASE Validate(r)
  <2>1. Goes(r, "probe") /\ req[r].pc = "test"
    BY <1>3 DEF Validate
  <2> QED
    BY <1>0, <2>1, Kind, MoveOn DEF Place, Steps
<1>4. CASE Forget(r)
  <2>1. Goes(r, "cached") /\ req[r].pc = "discover"
    BY <1>4 DEF Forget
  <2> QED
    BY <1>0, <2>1, Kind, MoveOn DEF Place, Steps
<1>5. CASE UpdateRead(r)
  <2>1. /\ req[r].pc = "update"
        /\ \E f \in {"key", "model"} :
             req' = [req EXCEPT ![r].pc = IF Same(r) THEN "write" ELSE "done",
                                ![r].cfg = [row[req[r].p].cfg EXCEPT ![f] = r],
                                ![r].status = row[req[r].p].status]
    BY <1>5 DEF UpdateRead
  <2>2. req[r].op = "update" /\ req[r].p \in Provider
    BY <1>0, <2>1, Kind DEF Proper
  <2>3. /\ row[req[r].p].status \in Status
        /\ [row[req[r].p].cfg EXCEPT !["key"] = r] \in Config
        /\ [row[req[r].p].cfg EXCEPT !["model"] = r] \in Config
    BY <1>0, <2>2 DEF ProviderRow, Config, Owner
  <2>4. PICK c \in Config, pc \in {"write", "done"} :
          req' = [req EXCEPT ![r].pc = pc, ![r].cfg = c, ![r].status = row[req[r].p].status]
    BY <2>1, <2>3
  <2> DEFINE q == [req[r] EXCEPT !.pc = pc, !.cfg = c, !.status = row[req[r].p].status]
  <2>5. /\ q \in ReqRow /\ q.pc = pc /\ q.op = req[r].op /\ q.p = req[r].p /\ q.id = req[r].id
        /\ q.proc = req[r].proc /\ q.floor = req[r].floor
    BY <1>0, <2>3 DEF ReqRow, Steps
  <2>6. req' = [req EXCEPT ![r] = q]
    BY <1>0, <2>4 DEF ReqRow
  <2> HIDE DEF q
  <2> QED
    BY <1>0, <2>1, <2>2, <2>5, <2>6 DEF Further, Proper, Place
<1>6. CASE ClearBegin(r)
  <2> DEFINE ids == {row[p].id : p \in {q \in Provider : Exists(q)}}
             q == [req[r] EXCEPT !.pc = "clear", !.seen = ids]
  <2>1. req[r].pc \in Choosers /\ req' = [req EXCEPT ![r].pc = "clear", ![r].seen = ids]
    BY <1>6 DEF ClearBegin
  <2>2. ids \subseteq Owner \cup {None}
    BY <1>0 DEF ProviderRow
  <2> HIDE DEF ids
  <2>3. req[r].op \in Choosers
    BY <1>0, <2>1 DEF Proper, Place
  <2>4. /\ q \in ReqRow /\ q.pc = "clear" /\ q.op = req[r].op /\ q.p = req[r].p /\ q.id = req[r].id
        /\ q.proc = req[r].proc /\ q.floor = req[r].floor
    BY <1>0, <2>2 DEF ReqRow, Steps
  <2>5. req' = [req EXCEPT ![r] = q]
    BY <1>0, <2>1 DEF ReqRow
  <2> HIDE DEF q
  <2> QED
    BY <1>0, <2>1, <2>3, <2>4, <2>5 DEF Further, Proper, Place
<1>7. CASE GetModels(r)
  <2>1. PICK got \in Fetched(req[r].p), pc \in {"done", "persist"} :
          req' = [req EXCEPT ![r].got = got, ![r].pc = pc]
    BY <1>7 DEF GetModels
  <2>2. req[r].pc = "cached" /\ req[r].op = "discover" /\ req[r].p \in Provider
    BY <1>0, <1>7, Kind DEF GetModels, Proper
  <2>3. got \subseteq Model
    BY <2>1, <2>2, WorkspaceAssumption DEF Fetched, Probe
  <2> DEFINE q == [req[r] EXCEPT !.got = got, !.pc = pc]
  <2>4. /\ q \in ReqRow /\ q.pc = pc /\ q.op = req[r].op /\ q.p = req[r].p /\ q.id = req[r].id
        /\ q.proc = req[r].proc /\ q.floor = req[r].floor
    BY <1>0, <2>3 DEF ReqRow, Steps
  <2>5. req' = [req EXCEPT ![r] = q]
    BY <1>0, <2>1 DEF ReqRow
  <2> HIDE DEF q
  <2> QED
    BY <1>0, <2>2, <2>4, <2>5 DEF Further, Proper, Place
<1>8. CASE PersistBegin(r)
  <2> DEFINE by == {m.by : m \in ModelsOf(req[r].p)}
             q == [req[r] EXCEPT !.pc = "insert", !.seen = by]
  <2>1. req[r].pc = "persist" /\ req' = [req EXCEPT ![r].pc = "insert", ![r].seen = by]
    BY <1>8 DEF PersistBegin
  <2>2. by \subseteq Owner \cup {None}
    BY <1>0 DEF ModelsOf, ModelRow
  <2> HIDE DEF by
  <2>3. req[r].op = "discover"
    BY <1>0, <2>1, Kind
  <2>4. /\ q \in ReqRow /\ q.pc = "insert" /\ q.op = req[r].op /\ q.p = req[r].p
        /\ q.id = req[r].id /\ q.proc = req[r].proc /\ q.floor = req[r].floor
    BY <1>0, <2>2 DEF ReqRow, Steps
  <2>5. req' = [req EXCEPT ![r] = q]
    BY <1>0, <2>1 DEF ReqRow
  <2> HIDE DEF q
  <2> QED
    BY <1>0, <2>1, <2>3, <2>4, <2>5 DEF Further, Proper, Place
<1>9. ASSUME NEW pc \in Steps, NEW n \in Nat, Place(req[r].op, pc),
             req[r].pc \notin {"idle", "done"},
             req' = [req EXCEPT ![r].pc = pc, ![r].n = n]
      PROVE  req[r].pc \notin {"idle", "done"} /\ \E q : Further(r, q)
  <2> DEFINE q == [req[r] EXCEPT !.pc = pc, !.n = n]
  <2>1. /\ q \in ReqRow /\ q.pc = pc /\ q.op = req[r].op /\ q.p = req[r].p /\ q.id = req[r].id
        /\ q.proc = req[r].proc /\ q.floor = req[r].floor
    BY <1>0 DEF ReqRow
  <2>2. req' = [req EXCEPT ![r] = q]
    BY <1>0, <1>9 DEF ReqRow
  <2> HIDE DEF q
  <2> QED
    BY <1>0, <1>9, <2>1, <2>2 DEF Further, Proper
<1>10. CASE SetRead(r)
  <2>1. req[r].pc = "set" /\ req[r].op = "set"
    BY <1>0, <1>10, Kind DEF SetRead, Proper
  <2> QED
    BY <1>0, <1>9, <1>10, <2>1 DEF SetRead, Place, Steps
<1>11. CASE SetCommit(r)
  <2>1. req[r].pc = "upsert" /\ req[r].op = "set"
    BY <1>0, <1>11, Kind DEF SetCommit, Proper
  <2>2. CASE Goes(r, "done")
    BY <1>0, <2>1, <2>2, MoveOn DEF Place, Steps
  <2>3. CASE req' = [req EXCEPT ![r].pc = "pop", ![r].n = value + 1]
    <3>1. value + 1 \in Nat /\ "pop" \in Steps /\ Place(req[r].op, "pop")
      BY <1>0, <2>1 DEF Place, Steps
    <3> QED
      BY <1>9, <2>1, <2>3, <3>1
  <2> QED
    BY <1>11, <2>2, <2>3 DEF SetCommit
<1>12. CASE GetLock(r)
  <2>1. req[r].pc = "get" /\ req[r].op = "get" /\ req[r].proc \in Process
    BY <1>0, <1>12, Kind DEF GetLock, Proper
  <2>2. CASE Goes(r, "fetch")
    BY <1>0, <2>1, <2>2, MoveOn DEF Place, Steps
  <2>3. CASE cache[req[r].proc] # None
             /\ req' = [req EXCEPT ![r].pc = "done", ![r].n = cache[req[r].proc]]
    <3>1. cache[req[r].proc] \in Nat
      BY <1>0, <2>1, <2>3
    <3> QED
      BY <1>9, <2>1, <2>3, <3>1 DEF Place, Steps
  <2> QED
    BY <1>12, <2>2, <2>3 DEF GetLock
<1>13. CASE GetFetch(r)
  <2>1. req[r].pc = "fetch" /\ req[r].op = "get"
    BY <1>0, <1>13, Kind DEF GetFetch, Proper
  <2> QED
    BY <1>0, <1>9, <1>13, <2>1 DEF GetFetch, Place, Steps
<1> QED
  BY <1>1, <1>2, <1>3, <1>4, <1>5, <1>6, <1>7, <1>8, <1>10, <1>11, <1>12, <1>13 DEF Handle

\* What a handler writes keeps its type.
LEMMA Rows ==
  ASSUME TInv, NEW r \in Request, Handle(r)
  PROVE  /\ row' \in [Provider -> ProviderRow] /\ models' \subseteq ModelRow
         /\ value' \in Nat /\ cache' \in [Process -> Nat \cup {None}]
         /\ lock' \in [Process -> Request \cup {None}] /\ finished' \in [Process -> Nat]
<1>0. /\ Proper(req[r]) /\ req[r] \in ReqRow
      /\ row \in [Provider -> ProviderRow] /\ models \subseteq ModelRow
      /\ value \in Nat /\ cache \in [Process -> Nat \cup {None}]
      /\ lock \in [Process -> Request \cup {None}] /\ finished \in [Process -> Nat]
      /\ req[r].n \in Nat /\ req[r].cfg \in Config /\ req[r].got \subseteq Model
  BY DEF TInv, ReqRow
<1> USE DEF provVars, setVars, history
<1>1. CASE Create(r)
  <2>1. [Absent EXCEPT !.id = r, !.cfg = NewConfig(r)] \in ProviderRow
    BY AbsentRow DEF ProviderRow, NewConfig, Config, Owner
  <2> QED
    BY <1>0, <1>1, <2>1 DEF Create
<1>2. CASE UpdateWrite(r)
  <2>1. /\ UNCHANGED <<models, locked, value, cache, lock, finished>>
        /\ \/ row' = row
           \/ \E st \in Status :
                row' = [row EXCEPT ![req[r].p].cfg = req[r].cfg, ![req[r].p].status = st]
    BY <1>0, <1>2 DEF UpdateWrite, ProviderRow, Status
  <2>2. ASSUME NEW st \in Status,
               row' = [row EXCEPT ![req[r].p].cfg = req[r].cfg, ![req[r].p].status = st]
        PROVE  row' \in [Provider -> ProviderRow]
    <3> DEFINE x == [row[req[r].p] EXCEPT !.cfg = req[r].cfg, !.status = st]
    <3>1. req[r].p \in Provider
      BY <1>0, <1>2, Kind DEF UpdateWrite, Proper
    <3>2. x \in ProviderRow
      BY <1>0, <3>1 DEF ProviderRow
    <3>3. row' = [row EXCEPT ![req[r].p] = x]
      BY <1>0, <2>2, <3>1 DEF ProviderRow
    <3> HIDE DEF x
    <3> QED
      BY <1>0, <3>2, <3>3
  <2>3. row' \in [Provider -> ProviderRow]
    BY <1>0, <2>1, <2>2
  <2> QED
    BY <1>0, <2>1, <2>3
<1>3. CASE Delete(r)
  BY <1>0, <1>3, AbsentRow DEF Delete
<1>4. CASE Choose(r)
  <2> DEFINE chosen(q) == [row[q] EXCEPT !.default = IF q = req[r].p THEN TRUE
                                                     ELSE @ /\ row[q].id \notin req[r].seen]
  <2>1. /\ UNCHANGED <<models, value, cache, lock, finished>>
        /\ row' = row \/ row' = [q \in Provider |-> chosen(q)]
    BY <1>4 DEF Choose
  <2>2. ASSUME NEW q \in Provider, NEW b \in BOOLEAN
        PROVE  [row[q] EXCEPT !.default = b] \in ProviderRow
    BY <1>0 DEF ProviderRow
  <2>3. ASSUME NEW q \in Provider PROVE chosen(q) \in ProviderRow
    <3> DEFINE b == IF q = req[r].p THEN TRUE
                    ELSE row[q].default /\ row[q].id \notin req[r].seen
    <3>1. b \in BOOLEAN
      OBVIOUS
    <3> HIDE DEF b
    <3>2. [row[q] EXCEPT !.default = b] \in ProviderRow
      BY <2>2, <3>1
    <3> QED
      BY <3>2 DEF b
  <2> HIDE DEF chosen
  <2>4. row' \in [Provider -> ProviderRow]
    BY <1>0, <2>1, <2>3
  <2> QED
    BY <1>0, <2>1, <2>4
<1>5. CASE Validate(r) \/ Tested(r)
  <2>1. /\ UNCHANGED <<models, locked, value, cache, lock, finished>>
        /\ \/ row' = row
           \/ \E st \in Status : row' = [row EXCEPT ![req[r].p].status = st]
    BY <1>5 DEF Validate, Tested, SetStatus, Status
  <2>2. ASSUME NEW st \in Status, row' = [row EXCEPT ![req[r].p].status = st]
        PROVE  row' \in [Provider -> ProviderRow]
    <3>1. \A x \in ProviderRow : [x EXCEPT !.status = st] \in ProviderRow
      BY DEF ProviderRow
    <3>2. req[r].p \in Provider
      BY <1>0, <1>5, Kind DEF Validate, Tested, Proper
    <3> QED
      BY <1>0, <2>2, <3>1, <3>2
  <2> QED
    BY <1>0, <2>1, <2>2
<1>6. CASE Persist(r)
  <2>1. req[r].p \in Provider
    BY <1>0, <1>6, Kind DEF Persist, Proper
  <2>2. \A m \in req[r].got :
          [p |-> req[r].p, m |-> m, by |-> r, default |-> FALSE, favorite |-> FALSE] \in ModelRow
    BY <1>0, <2>1 DEF ModelRow, Owner
  <2>3. models' \subseteq ModelRow
    BY <1>0, <1>6, <2>2 DEF Persist, ModelsOf
  <2> QED
    BY <1>0, <1>6, <2>3 DEF Persist
<1>7. CASE Favorite(r)
  <2>1. \A m \in ModelRow : [m EXCEPT !.favorite = ~@] \in ModelRow
    BY DEF ModelRow
  <2>2. models' \subseteq ModelRow
    BY <1>0, <1>7, <2>1 DEF Favorite, Chosen, ModelsOf
  <2> QED
    BY <1>0, <1>7, <2>2 DEF Favorite
<1>8. CASE DefaultModel(r)
  <2>1. \A m \in ModelRow, b \in BOOLEAN : [m EXCEPT !.default = b] \in ModelRow
    BY DEF ModelRow
  <2>2. \A m \in ModelRow : (m \in Chosen(r)) \in BOOLEAN
    OBVIOUS
  <2>3. models' \subseteq ModelRow
    BY <1>0, <1>8, <2>1, <2>2 DEF DefaultModel, ModelsOf
  <2> QED
    BY <1>0, <1>8, <2>3 DEF DefaultModel
<1>9. CASE Forget(r)
  BY <1>0, <1>9 DEF Forget
<1>10. CASE SetCommit(r)
  BY <1>0, <1>10 DEF SetCommit
<1>11. CASE SetPop(r)
  BY <1>0, <1>11 DEF SetPop
<1>12. CASE GetLock(r)
  BY <1>0, <1>12 DEF GetLock
<1>13. CASE GetStore(r)
  BY <1>0, <1>13 DEF GetStore
<1>14. CASE UpdateRead(r) \/ ClearBegin(r) \/ Clear(r) \/ Resolve(r) \/ GetModels(r)
            \/ PersistBegin(r) \/ SetRead(r) \/ GetFetch(r)
  BY <1>0, <1>14 DEF UpdateRead, ClearBegin, Clear, Resolve, GetModels, PersistBegin, SetRead,
                    GetFetch
<1> QED
  BY <1>1, <1>2, <1>3, <1>4, <1>5, <1>6, <1>7, <1>8, <1>9, <1>10, <1>11, <1>12, <1>13, <1>14
     DEF Handle

LEMMA THandle ==
  ASSUME TInv, NEW r \in Request, Handle(r)
  PROVE  TInv'
<1>1. PICK q : Further(r, q)
  BY Shape
<1> QED
  BY <1>1, Rows, TStep DEF Further

\* The request that arrives.
Arrived(r, q) ==
  /\ Proper(q) /\ req' = [req EXCEPT ![r] = q] /\ req[r].pc = "idle"
  /\ UNCHANGED <<provVars, setVars, history>>
  /\ q.op \in {"set", "get"} => q.pc = q.op /\ q.floor = finished[q.proc]
  /\ q.op \in OnRow /\ q.pc # "done" => /\ q.pc = q.op /\ q.id = row[q.p].id /\ Exists(q.p)
                                         /\ q.cfg = row[q.p].cfg
  /\ q.op \notin OnRow => q.pc = q.op

LEMMA Arrival ==
  ASSUME TInv, NEW r \in Request, Arrive(r)
  PROVE  \E q : Arrived(r, q)
<1>0. /\ req \in [Request -> ReqRow] /\ row \in [Provider -> ProviderRow]
      /\ models \subseteq ModelRow /\ finished \in [Process -> Nat]
  BY DEF TInv
<1>1. Idle \in ReqRow
  BY IdleProper DEF Proper
<1>2. CASE ProviderRequest(r)
  <2>1. PICK op \in OnRow \cup {"create", "resolve"}, p \in Provider :
          /\ req[r].pc = "idle"
          /\ req' = [req EXCEPT ![r] = [Idle EXCEPT !.op = op, !.p = p, !.id = row[p].id,
                       !.cfg = row[p].cfg, !.status = row[p].status,
                       !.pc = IF op \in OnRow /\ ~Exists(p) THEN "done" ELSE op]]
          /\ UNCHANGED <<provVars, setVars, history>>
    BY <1>2 DEF ProviderRequest
  <2> DEFINE pc == IF op \in OnRow /\ ~Exists(p) THEN "done" ELSE op
             q == [Idle EXCEPT !.op = op, !.p = p, !.id = row[p].id,
                       !.cfg = row[p].cfg, !.status = row[p].status, !.pc = pc]
  <2>2. pc \in Steps
    BY DEF Steps, Op
  <2>3. /\ row[p].id \in Owner \cup {None} /\ row[p].cfg \in Config /\ row[p].status \in Status
        /\ op \in Op
    BY <1>0 DEF ProviderRow, Op
  <2>4. /\ q \in ReqRow /\ q.op = op /\ q.p = p /\ q.id = row[p].id /\ q.cfg = row[p].cfg /\ q.pc = pc
    BY <1>1, <2>2, <2>3 DEF ReqRow
  <2> HIDE DEF q
  <2>5. Proper(q)
    BY <2>4 DEF Proper, Place, OnRow, Choosers
  <2>6. req' = [req EXCEPT ![r] = q]
    BY <2>1 DEF q
  <2> QED
    BY <2>1, <2>4, <2>5, <2>6 DEF Arrived, OnRow, Choosers
<1>3. CASE ModelRequest(r)
  <2>1. PICK op \in {"favorite", "defaultModel"}, m \in models :
          /\ req[r].pc = "idle"
          /\ req' = [req EXCEPT ![r] = [Idle EXCEPT !.op = op, !.pc = op, !.p = m.p,
                                                    !.id = m.by, !.got = {m.m}]]
          /\ UNCHANGED <<provVars, setVars, history>>
    BY <1>3 DEF ModelRequest
  <2> DEFINE q == [Idle EXCEPT !.op = op, !.pc = op, !.p = m.p, !.id = m.by, !.got = {m.m}]
  <2>2. m.p \in Provider /\ m.by \in Owner /\ m.m \in Model /\ op \in Op /\ op \in Steps
    BY <1>0 DEF ModelRow, Op, Steps
  <2>3. q \in ReqRow /\ q.op = op /\ q.pc = op /\ q.p = m.p
    BY <1>1, <2>2 DEF ReqRow
  <2> HIDE DEF q
  <2>4. Proper(q)
    BY <2>2, <2>3 DEF Proper, Place
  <2>5. req' = [req EXCEPT ![r] = q]
    BY <2>1 DEF q
  <2> QED
    BY <2>1, <2>3, <2>4, <2>5 DEF Arrived, OnRow, Choosers
<1>4. CASE SettingRequest(r)
  <2>1. PICK op \in {"set", "get"}, c \in Process :
          /\ req[r].pc = "idle"
          /\ req' = [req EXCEPT ![r] = [Idle EXCEPT !.op = op, !.pc = op, !.proc = c,
                                                    !.floor = finished[c]]]
          /\ UNCHANGED <<provVars, setVars, history>>
    BY <1>4 DEF SettingRequest
  <2> DEFINE q == [Idle EXCEPT !.op = op, !.pc = op, !.proc = c, !.floor = finished[c]]
  <2>2. finished[c] \in Nat /\ op \in Op /\ op \in Steps
    BY <1>0 DEF Op, Steps
  <2>3. q \in ReqRow /\ q.op = op /\ q.pc = op /\ q.proc = c /\ q.floor = finished[c]
    BY <1>1, <2>2 DEF ReqRow
  <2> HIDE DEF q
  <2>4. Proper(q)
    BY <2>2, <2>3 DEF Proper, Place
  <2>5. req' = [req EXCEPT ![r] = q]
    BY <2>1 DEF q
  <2>6. q.op \notin OnRow
    BY <2>3 DEF OnRow, Choosers
  <2>7. q.op \in {"set", "get"} /\ q.pc = q.op /\ q.floor = finished[q.proc]
    BY <2>3
  <2> QED
    BY <2>1, <2>4, <2>5, <2>6, <2>7 DEF Arrived
<1> QED
  BY <1>2, <1>3, <1>4 DEF Arrive

LEMMA TArrive ==
  ASSUME TInv, NEW r \in Request, Arrive(r)
  PROVE  TInv'
<1>1. PICK q : Arrived(r, q)
  BY Arrival
<1>2. UNCHANGED <<row, models, value, cache, lock, finished>>
  BY <1>1 DEF Arrived, provVars, setVars, history
<1> QED
  BY <1>1, <1>2, TStep DEF Arrived, TInv

LEMMA TNext == TInv /\ [Next]_vars => TInv'
<1> SUFFICES ASSUME TInv, [Next]_vars PROVE TInv'
  OBVIOUS
<1>1. ASSUME NEW r \in Request, Arrive(r) \/ Handle(r) PROVE TInv'
  BY <1>1, TArrive, THandle
<1>2. ASSUME NEW c \in Process, Expire(c) PROVE TInv'
  BY <1>2 DEF Expire, TInv, provVars, history
<1>3. CASE UNCHANGED vars
  BY <1>3 DEF vars, provVars, setVars, history, TInv
<1> QED
  BY <1>1, <1>2, <1>3 DEF Next

-----------------------------------------------------------------------------
(* A setting and its caches. *)

\* What a read has fetched and not stored yet is no older than the last acknowledged
\* write of its process: the write is acknowledged under the lock that the read holds.
Setting(r) ==
  /\ req[r].op = "get" =>
       /\ req[r].floor <= finished[req[r].proc]
       /\ req[r].pc \in {"fetch", "store"} => lock[req[r].proc] = r
       /\ req[r].pc = "store" => req[r].n >= finished[req[r].proc]
       /\ req[r].pc = "done" => req[r].n >= req[r].floor
  /\ req[r].pc = "pop" => req[r].n <= value

SInv ==
  /\ \A c \in Process : /\ finished[c] <= value
                        /\ cache[c] # None => cache[c] >= finished[c]
  /\ \A r \in Request : Setting(r)

LEMMA SInit == Init => SInv
BY IdleProper DEF Init, SInv, Setting

\* A request that is about something else.
LEMMA Elsewhere ==
  ASSUME TInv, SInv, NEW r \in Request, NEW q, Proper(q), req' = [req EXCEPT ![r] = q],
         q.op \notin {"set", "get"}, UNCHANGED <<value, cache, lock, finished>>
  PROVE  SInv'
<1>1. req'[r] = q /\ \A s \in Request : s # r => req'[s] = req[s]
  BY DEF TInv
<1>2. q.pc # "pop"
  BY Kind
<1>3. \A s \in Request : Setting(s)'
  BY <1>1, <1>2 DEF SInv, Setting
<1> QED
  BY <1>3 DEF SInv

LEMMA SHandle ==
  ASSUME TInv, SInv, NEW r \in Request, Handle(r)
  PROVE  SInv'
<1>0. /\ req \in [Request -> ReqRow] /\ Proper(req[r]) /\ req[r] \in ReqRow
      /\ value \in Nat /\ cache \in [Process -> Nat \cup {None}]
      /\ lock \in [Process -> Request \cup {None}] /\ finished \in [Process -> Nat]
      /\ req[r].n \in Nat /\ req[r].floor \in Nat /\ Setting(r)
  BY DEF TInv, SInv, ReqRow
<1>1. PICK q : Further(r, q)
  BY Shape
<1>2. /\ req'[r] = q /\ q.op = req[r].op /\ q.proc = req[r].proc /\ q.floor = req[r].floor
      /\ \A s \in Request : s # r => req'[s] = req[s]
  BY <1>0, <1>1 DEF Further
<1> USE DEF provVars, setVars, history
<1>3. CASE req[r].op \notin {"set", "get"}
  <2>1. UNCHANGED <<value, cache, lock, finished>>
    BY <1>0, <1>3, Kind
       DEF Handle, Create, UpdateRead, UpdateWrite, Delete, ClearBegin, Clear, Choose, Validate,
           Tested, Resolve, Forget, GetModels, PersistBegin, Persist, Favorite, DefaultModel,
           SetRead, SetCommit, SetPop, GetLock, GetFetch, GetStore
  <2> QED
    BY <1>1, <1>2, <1>3, <2>1, Elsewhere DEF Further
<1>4. ASSUME SetRead(r) PROVE SInv'
  <2>1. /\ UNCHANGED <<value, cache, lock, finished>> /\ q.pc = "upsert" /\ q.op = "set"
    BY <1>0, <1>2, <1>4, Kind DEF SetRead, ReqRow
  <2>2. \A s \in Request : Setting(s)'
    BY <1>2, <2>1 DEF SInv, Setting
  <2> QED
    BY <2>1, <2>2 DEF SInv
<1>5. ASSUME SetCommit(r) PROVE SInv'
  <2>1. /\ UNCHANGED <<cache, lock, finished>> /\ q.op = "set"
        /\ \/ value' = value /\ q.pc = "done"
           \/ value' = value + 1 /\ q.pc = "pop" /\ q.n = value + 1
    BY <1>0, <1>2, <1>5, Kind DEF SetCommit, Goes, ReqRow
  <2>2. ASSUME NEW s \in Request PROVE Setting(s)'
    <3>1. CASE s = r
      BY <1>0, <1>2, <2>1, <3>1 DEF Setting
    <3>2. CASE s # r
      <4>1. req'[s] = req[s] /\ Setting(s) /\ req[s].n \in Nat
        BY <1>0, <1>2, <3>2 DEF SInv, ReqRow
      <4> QED
        BY <1>0, <2>1, <4>1 DEF Setting
    <3> QED
      BY <3>1, <3>2
  <2>3. ASSUME NEW d \in Process
        PROVE  /\ finished'[d] <= value'
               /\ cache'[d] # None => cache'[d] >= finished'[d]
    BY <1>0, <2>1 DEF SInv
  <2> QED
    BY <2>2, <2>3 DEF SInv
<1>6. ASSUME SetPop(r) PROVE SInv'
  <2> DEFINE c == req[r].proc
  <2>1. /\ UNCHANGED <<value, lock>> /\ q.op = "set" /\ q.pc = "done"
        /\ lock[c] = None /\ cache' = [cache EXCEPT ![c] = None]
        /\ finished' = [finished EXCEPT ![c] = IF @ < req[r].n THEN req[r].n ELSE @]
        /\ req[r].n <= value /\ c \in Process
    BY <1>0, <1>2, <1>6, Kind DEF SetPop, Goes, ReqRow, Setting, Proper
  <2>2. /\ \A d \in Process : d # c => finished'[d] = finished[d] /\ cache'[d] = cache[d]
        /\ finished'[c] = IF finished[c] < req[r].n THEN req[r].n ELSE finished[c]
        /\ cache'[c] = None
    BY <1>0, <2>1
  <2>3. finished'[c] <= value /\ finished'[c] >= finished[c]
    BY <1>0, <2>1, <2>2 DEF SInv
  <2> HIDE DEF c
  <2>4. ASSUME NEW d \in Process
        PROVE  /\ finished'[d] <= value'
               /\ cache'[d] # None => cache'[d] >= finished'[d]
    BY <2>1, <2>2, <2>3 DEF SInv
  <2>5. ASSUME NEW s \in Request PROVE Setting(s)'
    <3>1. CASE s = r
      BY <1>2, <2>1, <3>1 DEF Setting
    <3>2. CASE s # r
      <4>1. req'[s] = req[s] /\ Setting(s) /\ req[s] \in ReqRow /\ Proper(req[s])
        BY <1>0, <1>2, <3>2 DEF SInv, TInv
      <4>2. req[s].floor \in Nat /\ req[s].n \in Nat
        BY <4>1 DEF ReqRow
      <4>3. CASE req[s].op = "get"
        <5>1. req[s].proc \in Process /\ finished[req[s].proc] \in Nat
              /\ finished'[req[s].proc] \in Nat
          BY <1>0, <2>1, <4>1, <4>3 DEF Proper
        <5>2. req[s].proc = c => req[s].pc \notin {"fetch", "store"}
          BY <2>1, <4>1, <4>3, WorkspaceAssumption DEF Setting
        <5>3. finished'[req[s].proc] >= finished[req[s].proc]
          BY <2>2, <2>3, <5>1
        <5>4. req[s].pc = "store" => finished'[req[s].proc] = finished[req[s].proc]
          BY <2>2, <5>1, <5>2
        <5>5. req[s].floor <= finished'[req[s].proc]
          BY <4>1, <4>2, <4>3, <5>1, <5>3 DEF Setting
        <5> QED
          BY <2>1, <4>1, <4>3, <5>4, <5>5 DEF Setting
      <4>4. CASE req[s].op # "get"
        BY <2>1, <4>1, <4>4 DEF Setting
      <4> QED
        BY <4>3, <4>4
    <3> QED
      BY <3>1, <3>2
  <2> QED
    BY <2>4, <2>5 DEF SInv
<1>7. ASSUME GetLock(r) PROVE SInv'
  <2> DEFINE c == req[r].proc
  <2>1. /\ UNCHANGED <<value, cache, finished>> /\ q.op = "get" /\ lock[c] = None /\ c \in Process
        /\ \/ cache[c] # None /\ q.pc = "done" /\ q.n = cache[c] /\ lock' = lock
           \/ q.pc = "fetch" /\ lock' = [lock EXCEPT ![c] = r]
    BY <1>0, <1>2, <1>7, Kind DEF GetLock, Goes, ReqRow, Proper
  <2>2. ASSUME NEW s \in Request PROVE Setting(s)'
    <3>1. CASE s = r
      <4>1. req[r].floor <= finished[c]
        BY <1>0, <1>2, <2>1 DEF Setting
      <4>2. CASE cache[c] # None /\ q.pc = "done" /\ q.n = cache[c]
        <5>1. cache[c] \in Nat /\ finished[c] \in Nat /\ cache[c] >= finished[c]
          BY <1>0, <2>1, <4>2 DEF SInv
        <5>2. q.n >= q.floor
          BY <1>0, <1>2, <4>1, <4>2, <5>1
        <5> QED
          BY <1>2, <2>1, <3>1, <4>1, <4>2, <5>2 DEF Setting
      <4>3. CASE q.pc = "fetch" /\ lock' = [lock EXCEPT ![c] = r]
        BY <1>0, <1>2, <2>1, <3>1, <4>1, <4>3 DEF Setting
      <4> QED
        BY <2>1, <4>2, <4>3
    <3>2. CASE s # r
      <4>1. req'[s] = req[s] /\ Setting(s) /\ Proper(req[s])
        BY <1>2, <3>2 DEF SInv, TInv
      <4>2. ASSUME req[s].op = "get", lock[req[s].proc] = s PROVE lock'[req[s].proc] = s
        <5>1. None \notin Request /\ req[s].proc \in Process
          BY <4>1, <4>2, WorkspaceAssumption DEF Proper
        <5>2. CASE req[s].proc = c
          BY <2>1, <4>2, <5>1, <5>2
        <5>3. CASE req[s].proc # c
          <6> HIDE DEF c
          <6> QED
            BY <1>0, <2>1, <4>2, <5>1, <5>3
        <5> QED
          BY <5>2, <5>3
      <4> QED
        BY <2>1, <4>1, <4>2 DEF Setting
    <3> QED
      BY <3>1, <3>2
  <2> QED
    BY <2>1, <2>2 DEF SInv
<1>8. ASSUME GetFetch(r) PROVE SInv'
  <2>1. /\ UNCHANGED <<value, cache, lock, finished>> /\ q.pc = "store" /\ q.n = value
        /\ q.op = "get" /\ req[r].pc = "fetch" /\ q.proc \in Process
    BY <1>0, <1>2, <1>8, Kind DEF GetFetch, ReqRow, Proper
  <2>2. q.n >= finished[q.proc]
    BY <1>0, <2>1 DEF SInv
  <2>3. \A s \in Request : Setting(s)'
    BY <1>0, <1>2, <2>1, <2>2 DEF SInv, Setting
  <2> QED
    BY <2>1, <2>3 DEF SInv
<1>9. ASSUME GetStore(r) PROVE SInv'
  <2> DEFINE c == req[r].proc
  <2>1. /\ UNCHANGED <<value, finished>> /\ q.op = "get" /\ q.pc = "done" /\ q.n = req[r].n
        /\ cache' = [cache EXCEPT ![c] = req[r].n] /\ lock' = [lock EXCEPT ![c] = None]
        /\ c \in Process /\ req[r].n >= finished[c] /\ lock[c] = r /\ req[r].floor <= finished[c]
    BY <1>0, <1>2, <1>9, Kind DEF GetStore, Goes, ReqRow, Proper, Setting
  <2>2. ASSUME NEW d \in Process
        PROVE  /\ finished'[d] <= value'
               /\ cache'[d] # None => cache'[d] >= finished'[d]
    BY <1>0, <2>1 DEF SInv
  <2>3. ASSUME NEW s \in Request PROVE Setting(s)'
    <3>1. CASE s = r
      <4>1. finished[c] \in Nat /\ q.n >= q.floor /\ q.floor <= finished[c]
        BY <1>0, <1>2, <2>1
      <4> QED
        BY <1>2, <2>1, <3>1, <4>1 DEF Setting
    <3>2. CASE s # r
      <4>1. req'[s] = req[s] /\ Setting(s)
        BY <1>2, <3>2 DEF SInv
      <4>2. lock[req[s].proc] = s => lock'[req[s].proc] = s
        BY <1>0, <2>1, <3>2
      <4> QED
        BY <2>1, <4>1, <4>2 DEF Setting
    <3> QED
      BY <3>1, <3>2
  <2> QED
    BY <2>2, <2>3 DEF SInv
<1>10. CASE req[r].op \in {"set", "get"}
  <2>1. SetRead(r) \/ SetCommit(r) \/ SetPop(r) \/ GetLock(r) \/ GetFetch(r) \/ GetStore(r)
    BY <1>0, <1>10, Kind
       DEF Handle, Create, UpdateRead, UpdateWrite, Delete, ClearBegin, Clear, Choose, Validate,
           Tested, Resolve, Forget, GetModels, PersistBegin, Persist, Favorite, DefaultModel,
           Choosers
  <2> QED
    BY <1>4, <1>5, <1>6, <1>7, <1>8, <1>9, <2>1
<1> QED
  BY <1>3, <1>10

LEMMA SNext == TInv /\ SInv /\ [Next]_vars => SInv'
<1> SUFFICES ASSUME TInv, SInv, [Next]_vars PROVE SInv'
  OBVIOUS
<1>1. ASSUME NEW r \in Request, Arrive(r) PROVE SInv'
  <2>1. PICK q : Arrived(r, q)
    BY <1>1, Arrival
  <2>2. UNCHANGED <<value, cache, lock, finished>> /\ Proper(q) /\ req' = [req EXCEPT ![r] = q]
    BY <2>1 DEF Arrived, setVars, history
  <2>3. CASE q.op \notin {"set", "get"}
    BY <2>2, <2>3, Elsewhere
  <2>4. CASE q.op \in {"set", "get"}
    <3>1. q.pc = q.op /\ q.floor = finished[q.proc] /\ q.proc \in Process /\ q.floor \in Nat
      BY <2>1, <2>4 DEF Arrived, Proper, ReqRow
    <3>2. req'[r] = q /\ \A s \in Request : s # r => req'[s] = req[s]
      BY <2>2 DEF TInv
    <3>3. \A s \in Request : Setting(s)'
      BY <2>2, <2>4, <3>1, <3>2 DEF SInv, Setting
    <3> QED
      BY <2>2, <3>3 DEF SInv
  <2> QED
    BY <2>3, <2>4
<1>2. ASSUME NEW r \in Request, Handle(r) PROVE SInv'
  BY <1>2, SHandle
<1>3. ASSUME NEW c \in Process, Expire(c) PROVE SInv'
  <2>1. cache' = [cache EXCEPT ![c] = None] /\ UNCHANGED <<value, lock, req, finished>>
    BY <1>3 DEF Expire, history
  <2> QED
    BY <2>1 DEF SInv, Setting, TInv
<1>4. CASE UNCHANGED vars
  BY <1>4 DEF vars, provVars, setVars, history, SInv, Setting
<1> QED
  BY <1>1, <1>2, <1>3, <1>4 DEF Next

\* Once a write is acknowledged in a process, no read that begins there later returns an
\* older value: for any number of processes, reads and writes, whatever was being fetched
\* when it was committed (runtime_settings, user_preferences, runtime_config_service).
THEOREM ReadsAreFresh == Spec => []FreshAfterSet
<1>1. SInv => FreshAfterSet
  BY DEF SInv, Setting, FreshAfterSet
<1> QED
  BY TInit, TNext, SInit, SNext, <1>1, PTL DEF Spec
-----------------------------------------------------------------------------
(* The rows of the providers. *)

\* What a handler can make of a row.
Keeps(p) == row'[p].id = row[p].id /\ row'[p].default = row[p].default
Created(r, p) ==
  /\ Create(r) /\ p = req[r].p /\ ~Exists(p)
  /\ row'[p].id = r /\ row'[p].default = FALSE /\ row'[p].status = "disconnected"
Dropped(p) == row'[p].id = None /\ row'[p].default = FALSE
Chose(r, p) ==
  /\ Choose(r) /\ Same(r) /\ req[r].op = "default"
  /\ row'[p].id = row[p].id /\ row'[p].status = row[p].status /\ row'[p].cfg = row[p].cfg
  /\ p # req[r].p => row'[p].default = (row[p].default /\ row[p].id \notin req[r].seen)
Wrote(r, p) ==
  /\ UpdateWrite(r) /\ Same(r) /\ p = req[r].p /\ Keeps(p)
  /\ row'[p].cfg = req[r].cfg
  /\ row'[p].status = IF req[r].status = "disconnected" THEN row[p].status ELSE "disconnected"
Marked(r, p) ==
  /\ Validate(r) \/ Tested(r)
  /\ Same(r) /\ p = req[r].p /\ Keeps(p) /\ row'[p].cfg = row[p].cfg
  /\ Validate(r) => row'[p].status = "validating"

LEMMA RowStep ==
  ASSUME TInv, NEW r \in Request, Handle(r), NEW p \in Provider
  PROVE  \/ row'[p] = row[p]
         \/ Created(r, p) \/ Dropped(p) \/ Chose(r, p) \/ Wrote(r, p) \/ Marked(r, p)
<1>0. /\ row \in [Provider -> ProviderRow] /\ row[p] \in ProviderRow
      /\ row[p] = [id |-> row[p].id, default |-> row[p].default, status |-> row[p].status,
                   cfg |-> row[p].cfg]
  BY DEF TInv, ProviderRow
<1>1. CASE Create(r)
  BY <1>0, <1>1, AbsentRow DEF Create, Created, Absent
<1>2. CASE UpdateWrite(r)
  <2>1. \/ row' = row
        \/ /\ Same(r)
           /\ row' = [row EXCEPT ![req[r].p].cfg = req[r].cfg,
                                 ![req[r].p].status = IF req[r].status = "disconnected" THEN @
                                                      ELSE "disconnected"]
    BY <1>2 DEF UpdateWrite
  <2> QED
    BY <1>0, <1>2, <2>1 DEF Wrote, Keeps, ProviderRow
<1>3. CASE Delete(r)
  BY <1>0, <1>3, AbsentRow DEF Delete, Dropped
<1>4. CASE Choose(r)
  <2>1. CASE Same(r) /\ req[r].op = "default"
    <3> DEFINE d(q) == IF q = req[r].p THEN TRUE ELSE row[q].default /\ row[q].id \notin req[r].seen
    <3>1. row'[p] = [row[p] EXCEPT !.default = d(p)]
      BY <1>4, <2>1 DEF Choose
    <3>2. /\ row'[p].id = row[p].id /\ row'[p].status = row[p].status
          /\ row'[p].cfg = row[p].cfg /\ row'[p].default = d(p)
      BY <1>0, <3>1 DEF ProviderRow
    <3> QED
      BY <1>4, <2>1, <3>2 DEF Chose
  <2>2. CASE ~(Same(r) /\ req[r].op = "default")
    BY <1>4, <2>2 DEF Choose
  <2> QED
    BY <2>1, <2>2
<1>5. CASE Validate(r) \/ Tested(r)
  <2>1. PICK st \in Status :
          /\ row' = IF Same(r) THEN [row EXCEPT ![req[r].p].status = st] ELSE row
          /\ Validate(r) => st = "validating"
    <3>1. CASE Validate(r)
      BY <3>1 DEF Validate, SetStatus, Status
    <3>2. CASE Tested(r) /\ ~Validate(r)
      BY <3>2 DEF Tested, SetStatus, Status
    <3> QED
      BY <1>5, <3>1, <3>2
  <2> QED
    BY <1>0, <1>5, <2>1 DEF Marked, Keeps, ProviderRow
<1>6. CASE row' = row
  BY <1>6
<1> QED
  BY <1>1, <1>2, <1>3, <1>4, <1>5, <1>6
     DEF Handle, UpdateRead, ClearBegin, Clear, Resolve, Forget, GetModels, PersistBegin, Persist,
         Favorite, DefaultModel, SetRead, SetCommit, SetPop, GetLock, GetFetch, GetStore, provVars

Live(r, ops) == req[r].op \in ops /\ req[r].pc \notin {"idle", "done"}

\* A row is known by the request that inserted it, which is over.
NInv ==
  /\ \A p \in Provider : row[p].id \in Request => req[row[p].id].pc = "done"
  /\ \A r \in Request : Live(r, OnRow) =>
       /\ req[r].id # None
       /\ req[r].id \in Request => req[req[r].id].pc = "done"

LEMMA NInit == Init => NInv
<1> SUFFICES ASSUME Init PROVE NInv
  OBVIOUS
<1>1. \A r \in Request : req[r].pc = "idle"
  BY IdleProper DEF Init
<1>2. \A p \in Provider : row[p].id \in {None, Old}
  BY AbsentRow DEF Init
<1> QED
  BY <1>1, <1>2, WorkspaceAssumption DEF NInv, Live

LEMMA NHandle ==
  ASSUME TInv, NInv, NEW r \in Request, Handle(r)
  PROVE  NInv'
<1>1. PICK q : Further(r, q)
  BY Shape
<1>2. /\ req'[r] = q /\ q.op = req[r].op /\ q.id = req[r].id
      /\ \A s \in Request : s # r => req'[s] = req[s]
      /\ req[r].pc \notin {"idle", "done"}
  BY <1>1, Shape DEF Further, TInv
<1>3. ASSUME NEW p \in Provider, row'[p].id \in Request PROVE req'[row'[p].id].pc = "done"
  <2>1. CASE row'[p].id = row[p].id
    BY <1>2, <1>3, <2>1 DEF NInv
  <2>2. CASE Created(r, p)
    <3>1. row'[p].id = r /\ req' = [req EXCEPT ![r].pc = "done"]
      BY <2>2 DEF Created, Create, Goes
    <3> QED
      BY <3>1 DEF TInv, ReqRow
  <2>3. CASE Dropped(p)
    BY <1>3, <2>3, WorkspaceAssumption DEF Dropped
  <2> QED
    BY <2>1, <2>2, <2>3, RowStep DEF Chose, Wrote, Marked, Keeps
<1>4. \A s \in Request : \A ops : Live(s, ops)' => Live(s, ops) /\ req'[s].id = req[s].id
  BY <1>2 DEF Live
<1>5. \A s \in Request : req[s].pc = "done" => req'[s].pc = "done"
  BY <1>2
<1>6. ASSUME NEW s \in Request, Live(s, OnRow)'
      PROVE  /\ req'[s].id # None
             /\ req'[s].id \in Request => req'[req'[s].id].pc = "done"
  BY <1>4, <1>5, <1>6 DEF NInv
<1> QED
  BY <1>3, <1>6 DEF NInv

LEMMA NArrive ==
  ASSUME TInv, NInv, NEW r \in Request, Arrive(r)
  PROVE  NInv'
<1>1. PICK q : Arrived(r, q)
  BY Arrival
<1>2. /\ req'[r] = q /\ row' = row /\ req[r].pc = "idle"
      /\ \A s \in Request : s # r => req'[s] = req[s]
  BY <1>1 DEF Arrived, TInv, provVars
<1>3. \A s \in Request : req[s].pc = "done" => req'[s].pc = "done"
  BY <1>2
<1>4. \A p \in Provider : row'[p].id \in Request => req'[row'[p].id].pc = "done"
  BY <1>2, <1>3 DEF NInv
<1>5. ASSUME NEW s \in Request, Live(s, OnRow)'
      PROVE  /\ req'[s].id # None
             /\ req'[s].id \in Request => req'[req'[s].id].pc = "done"
  <2>1. CASE s = r
    <3>1. q.id = row[q.p].id /\ q.p \in Provider /\ q.id # None
      BY <1>1, <1>2, <1>5, <2>1 DEF Arrived, Live, Exists, Proper, OnRow, Choosers
    <3> QED
      BY <1>2, <1>3, <2>1, <3>1 DEF NInv
  <2>2. CASE s # r
    BY <1>2, <1>3, <1>5, <2>2 DEF NInv, Live
  <2> QED
    BY <2>1, <2>2
<1> QED
  BY <1>4, <1>5 DEF NInv

LEMMA NNext == TInv /\ NInv /\ [Next]_vars => NInv'
<1> SUFFICES ASSUME TInv, NInv, [Next]_vars PROVE NInv'
  OBVIOUS
<1>1. ASSUME NEW c \in Process, Expire(c) PROVE NInv'
  BY <1>1 DEF Expire, NInv, Live, provVars
<1>2. CASE UNCHANGED vars
  BY <1>2 DEF vars, provVars, NInv, Live
<1> QED
  BY <1>1, <1>2, NArrive, NHandle DEF Next
-----------------------------------------------------------------------------
(* One default. *)

Settled(p) == row[p].id \notin late

\* The first UPDATE of a choice has seen every row that is still there at the second,
\* but those that were inserted meanwhile.
OInv ==
  /\ \A p \in Provider : row[p].default => Exists(p)
  /\ \A p, q \in Provider : /\ row[p].default /\ Settled(p)
                             /\ row[q].default /\ Settled(q)
                             => p = q
  /\ \A r \in Request : req[r].pc \in {"clear", "choose"} =>
       \A p \in Provider : Exists(p) /\ Settled(p) => row[p].id \in req[r].seen

LEMMA OInit == Init => OInv
BY IdleProper, AbsentRow DEF Init, OInv

LEMMA OHandle ==
  ASSUME TInv, NInv, OInv, NEW r \in Request, Handle(r)
  PROVE  OInv'
<1>1. PICK q : Further(r, q)
  BY Shape
<1>2. /\ req'[r] = q /\ q.op = req[r].op /\ \A s \in Request : s # r => req'[s] = req[s]
      /\ Proper(req[r]) /\ Proper(q) /\ req[r] \in ReqRow
      /\ req[r].pc \notin {"idle", "done"}
  BY <1>1, Shape DEF Further, TInv
<1>3. ASSUME NEW p \in Provider, row'[p].default PROVE row'[p].id # None
  <2>1. row'[p].id = row[p].id /\ row'[p].default = row[p].default => row[p].id # None
    BY <1>3 DEF OInv, Exists
  <2>2. CASE Created(r, p)
    BY <2>2, WorkspaceAssumption DEF Created
  <2>3. CASE Chose(r, p)
    <3>1. CASE p = req[r].p
      <4>1. Live(r, OnRow)
        BY <1>2, <2>3, Kind DEF Chose, Choose, Live, OnRow, Choosers
      <4> QED
        BY <2>3, <3>1, <4>1 DEF Chose, Same, NInv
    <3>2. CASE p # req[r].p
      BY <1>3, <2>3, <3>2 DEF Chose, OInv, Exists
    <3> QED
      BY <3>1, <3>2
  <2> QED
    BY <1>3, <2>1, <2>2, <2>3, RowStep DEF Dropped, Wrote, Marked, Keeps
<1>6. late \subseteq late'
  BY DEF Handle, Create, UpdateRead, UpdateWrite, Delete, ClearBegin, Clear, Choose, Validate,
         Tested, Resolve, Forget, GetModels, PersistBegin, Persist, Favorite, DefaultModel,
         SetRead, SetCommit, SetPop, GetLock, GetFetch, GetStore, history
<1>4. ASSUME NEW p \in Provider, NEW t \in Provider, row'[p].default, row'[t].default,
             row'[p].id \notin late', row'[t].id \notin late'
      PROVE  p = t
  <2>1. CASE Choose(r) /\ Same(r) /\ req[r].op = "default"
    <3>1. ASSUME NEW u \in Provider, u # req[r].p, row'[u].default, row'[u].id \notin late'
          PROVE  FALSE
      <4>2. row'[u] = [row[u] EXCEPT !.default = row[u].default /\ row[u].id \notin req[r].seen]
        BY <2>1, <3>1 DEF Choose
      <4>3. row[u] \in ProviderRow
        BY DEF TInv
      <4>4. /\ row'[u].default = (row[u].default /\ row[u].id \notin req[r].seen)
            /\ row'[u].id = row[u].id
        BY <4>2, <4>3 DEF ProviderRow
      <4>5. row[u].default => row[u].id \in req[r].seen
        BY <1>6, <2>1, <3>1, <4>4 DEF Choose, OInv, Settled
      <4> QED
        BY <3>1, <4>4, <4>5
    <3> QED
      BY <1>4, <3>1
  <2>2. CASE ~(Choose(r) /\ Same(r) /\ req[r].op = "default")
    <3>1. ASSUME NEW u \in Provider, row'[u].default
          PROVE  row[u].default /\ row'[u].id = row[u].id
      BY <2>2, <3>1, RowStep DEF Created, Dropped, Chose, Wrote, Marked, Keeps
    <3>2. Settled(p) /\ Settled(t)
      BY <1>4, <1>6, <3>1 DEF Settled
    <3> QED
      BY <1>4, <3>1, <3>2 DEF OInv
  <2> QED
    BY <2>1, <2>2
<1>5. ASSUME NEW s \in Request, req'[s].pc \in {"clear", "choose"}, NEW p \in Provider,
             row'[p].id # None, row'[p].id \notin late'
      PROVE  row'[p].id \in req'[s].seen
  <2>1. req'[s].op \in Choosers /\ req[s].op = req'[s].op /\ req[s].pc \notin {"idle", "done"}
    BY <1>2, <1>5, Kind DEF TInv
  <2>2. ~Created(r, p)
    <3>1. SUFFICES ASSUME Created(r, p) PROVE FALSE
      OBVIOUS
    <3>2. req[r].pc = "create" /\ row'[p].id = r
          /\ late' = IF At({"clear", "choose"}) = {} THEN late ELSE late \cup {r}
      BY <3>1 DEF Created, Create
    <3>3. s # r
      BY <1>2, <2>1, <3>2, Kind DEF Choosers
    <3>4. s \in At({"clear", "choose"})
      BY <1>2, <1>5, <3>3 DEF At
    <3> QED
      BY <1>5, <3>2, <3>4
  <2>3. row'[p].id = row[p].id /\ Settled(p)
    BY <1>5, <1>6, <2>2, RowStep DEF Dropped, Chose, Wrote, Marked, Keeps, Settled
  <2>4. CASE s # r
    BY <1>2, <1>5, <2>3, <2>4 DEF OInv, Exists
  <2>5. CASE s = r
    <3>1. CASE ClearBegin(r)
      <4>1. req'[r].seen = {row[u].id : u \in {v \in Provider : Exists(v)}}
        BY <1>2, <3>1 DEF ClearBegin, TInv, ReqRow
      <4> QED
        BY <1>5, <2>3, <2>5, <4>1 DEF Exists
    <3>2. CASE Clear(r)
      <4>1. req'[r].seen = req[r].seen /\ req[r].pc = "clear"
        BY <1>2, <3>2 DEF Clear, Goes, TInv, ReqRow
      <4> QED
        BY <1>5, <2>3, <2>5, <4>1 DEF OInv, Exists
    <3>3. CASE Choose(r)
      <4>1. req'[r].pc = "done"
        BY <1>2, <3>3 DEF Choose, Goes, TInv, ReqRow
      <4> QED
        BY <1>5, <2>5, <4>1
    <3> QED
      <4>1. req[r].pc \in {"clear", "choose"} \cup Choosers
        BY <1>2, <2>1, <2>5 DEF Proper, Place, Choosers
      <4>2. req[r].pc \notin {"create", "update", "write", "delete", "test", "probe", "resolve",
               "discover", "cached", "persist", "insert", "favorite", "defaultModel", "set",
               "upsert", "pop", "get", "fetch", "store"}
        BY <4>1 DEF Choosers
      <4> QED
        BY <3>1, <3>2, <3>3, <4>2
           DEF Handle, Create, UpdateRead, UpdateWrite, Delete, Validate, Tested, Resolve, Forget,
               GetModels, PersistBegin, Persist, Favorite, DefaultModel, SetRead, SetCommit, SetPop,
               GetLock, GetFetch, GetStore
  <2> QED
    BY <2>4, <2>5
<1> QED
  BY <1>3, <1>4, <1>5 DEF OInv, Exists, Settled

LEMMA OArrive ==
  ASSUME TInv, OInv, NEW r \in Request, Arrive(r)
  PROVE  OInv'
<1>1. PICK q : Arrived(r, q)
  BY Arrival
<1>2. /\ req'[r] = q /\ row' = row /\ late' = late
      /\ \A s \in Request : s # r => req'[s] = req[s]
  BY <1>1 DEF Arrived, TInv, provVars, history
<1>3. q.pc \notin {"clear", "choose"}
  BY <1>1, Kind DEF Arrived, OnRow, Choosers
<1> QED
  BY <1>2, <1>3 DEF OInv, Exists, Settled

LEMMA ONext == TInv /\ NInv /\ OInv /\ [Next]_vars => OInv'
<1> SUFFICES ASSUME TInv, NInv, OInv, [Next]_vars PROVE OInv'
  OBVIOUS
<1>1. ASSUME NEW c \in Process, Expire(c) PROVE OInv'
  BY <1>1 DEF Expire, OInv, Exists, Settled, provVars, history
<1>2. CASE UNCHANGED vars
  BY <1>2 DEF vars, provVars, history, OInv, Exists, Settled
<1> QED
  BY <1>1, <1>2, OArrive, OHandle DEF Next

\* One row at most is the default among those that were not inserted while a default was
\* being chosen, however many requests of any kind are at work (set_default and its two
\* UPDATEs).
THEOREM DefaultIsUnique == Spec => []OneSettledDefault
<1>1. OInv => OneSettledDefault
  <2> SUFFICES ASSUME OInv PROVE OneSettledDefault
    OBVIOUS
  <2> DEFINE D == {p \in Defaults : row[p].id \notin late}
  <2>1. CASE D = {}
    BY <2>1, FS_EmptySet DEF OneSettledDefault
  <2>2. CASE D # {}
    <3>1. PICK p : D = {p}
      BY <2>2 DEF OInv, Settled, Defaults
    <3>2. Cardinality(D) = 1
      BY <3>1, FS_Singleton
    <3> QED
      BY <3>2 DEF OneSettledDefault
  <2> QED
    BY <2>1, <2>2
<1> QED
  BY TInit, TNext, NInit, NNext, OInit, ONext, <1>1, PTL DEF Spec
-----------------------------------------------------------------------------
(* The configurations that answer questions. *)

Held(p) == [p |-> p, id |-> row[p].id, cfg |-> row[p].cfg]

\* A connected row has a configuration that passed a test or raced one. A test under way
\* is of the configuration that the row still has, if no update has raced it; and
\* an update that would leave the status alone has nothing connected to leave, if no
\* test has raced it.
UInv ==
  /\ \A p \in Provider : Exists(p) /\ row[p].status = "connected" => Held(p) \in tested \cup raced
  /\ \A r \in Request : Live(r, {"test"}) /\ Same(r) =>
       req[r].cfg = row[req[r].p].cfg \/ Held(req[r].p) \in raced
  /\ \A r \in Request : req[r].pc = "write" /\ Same(r) /\ req[r].status = "disconnected" =>
       row[req[r].p].status # "connected" \/ Copy(r) \in raced
  /\ TestedUnlessRaced

LEMMA UInit == Init => UInv
<1> SUFFICES ASSUME Init PROVE UInv
  OBVIOUS
<1>1. \A r \in Request : req[r].pc = "idle"
  BY IdleProper DEF Init
<1>2. \A p \in Provider : Exists(p) => row[p].id = Old /\ row[p].cfg = NewConfig(Old)
  BY AbsentRow DEF Init, Exists
<1> QED
  BY <1>1, <1>2 DEF Init, UInv, Live, Held, TestedUnlessRaced

LEMMA UHandle ==
  ASSUME TInv, NInv, UInv, NEW r \in Request, Handle(r)
  PROVE  UInv'
<1>1. PICK q : Further(r, q)
  BY Shape
<1>2. /\ req'[r] = q /\ q.op = req[r].op /\ q.id = req[r].id /\ q.p = req[r].p
      /\ \A s \in Request : s # r => req'[s] = req[s]
      /\ Proper(req[r]) /\ Proper(q) /\ req[r] \in ReqRow
      /\ req[r].pc \notin {"idle", "done"}
  BY <1>1, Shape DEF Further, TInv
<1>3. tested \subseteq tested' /\ raced \subseteq raced'
  BY DEF Handle, Create, UpdateRead, UpdateWrite, Delete, ClearBegin, Clear, Choose, Validate,
         Tested, Resolve, Forget, GetModels, PersistBegin, Persist, Favorite, DefaultModel,
         SetRead, SetCommit, SetPop, GetLock, GetFetch, GetStore, history
\* A row that a request of the kind has in view is not one that was just inserted.
<1>4. ASSUME NEW s \in Request, Live(s, OnRow), Created(r, req[s].p) PROVE row'[req[s].p].id # req[s].id
  <2>1. req[r].pc = "create" /\ row'[req[s].p].id = r
    BY <1>4 DEF Created, Create
  <2> QED
    BY <1>4, <2>1 DEF NInv
<1>5. ASSUME NEW s \in Request, Live(s, OnRow), req[s].p \in Provider,
             row'[req[s].p].id = req[s].id
      PROVE  /\ Same(s)
             /\ \/ row'[req[s].p] = row[req[s].p]
                \/ Chose(r, req[s].p) \/ Wrote(r, req[s].p) \/ Marked(r, req[s].p)
  <2>1. ~Created(r, req[s].p)
    BY <1>4, <1>5
  <2>2. ~Dropped(req[s].p)
    BY <1>5 DEF Dropped, NInv
  <2>3. \/ row'[req[s].p] = row[req[s].p]
        \/ Chose(r, req[s].p) \/ Wrote(r, req[s].p) \/ Marked(r, req[s].p)
    BY <1>5, <2>1, <2>2, RowStep
  <2> QED
    BY <1>5, <2>3 DEF Chose, Wrote, Marked, Keeps, Same
<1>6. ASSUME NEW p \in Provider, row'[p].id # None, row'[p].status = "connected"
      PROVE  [p |-> p, id |-> row'[p].id, cfg |-> row'[p].cfg] \in tested' \cup raced'
  <2>1. CASE row'[p].id = row[p].id /\ row'[p].status = row[p].status /\ row'[p].cfg = row[p].cfg
    BY <1>3, <1>6, <2>1 DEF UInv, Exists, Held
  <2>2. CASE Wrote(r, p)
    <3>1. /\ req[r].pc = "write" /\ Same(r) /\ p = req[r].p /\ req[r].status = "disconnected"
          /\ row'[p].id = req[r].id /\ row'[p].cfg = req[r].cfg /\ row[p].status = "connected"
      BY <1>6, <2>2 DEF Wrote, UpdateWrite, Keeps, Same
    <3>2. Copy(r) \in raced
      BY <3>1 DEF UInv
    <3> QED
      BY <1>3, <3>1, <3>2 DEF Copy
  <2>3. CASE Marked(r, p)
    <3>1. Tested(r) /\ p = req[r].p /\ Same(r) /\ row'[p].id = row[p].id /\ row'[p].cfg = row[p].cfg
      BY <1>6, <2>3 DEF Marked, Keeps
    <3>2. Live(r, {"test"})
      BY <1>2, <3>1, Kind DEF Tested, Live
    <3>3. req[r].id = row'[p].id
      BY <3>1 DEF Same
    <3>4. row'[p].status # "error"
      BY <1>6
    <3>5. PICK ok \in Probe(req[r].p) :
            /\ SetStatus(r, IF ok THEN "connected" ELSE "error")
            /\ tested' = IF ok THEN tested \cup {Copy(r)} ELSE tested
      BY <3>1 DEF Tested
    <3>6. CASE ok
      <4>1. CASE req[r].cfg = row'[p].cfg
        BY <3>1, <3>3, <3>5, <3>6, <4>1 DEF Copy
      <4>2. CASE Held(p) \in raced
        BY <1>3, <3>1, <4>2 DEF Held
      <4> QED
        BY <3>1, <3>2, <4>1, <4>2 DEF UInv
    <3>7. CASE ~ok
      <4>1. row' = [row EXCEPT ![req[r].p].status = "error"]
        BY <3>1, <3>5, <3>7 DEF SetStatus
      <4>2. row'[p].status = "error"
        BY <3>1, <4>1 DEF TInv, ProviderRow
      <4> QED
        BY <3>4, <4>2
    <3> QED
      BY <3>6, <3>7
  <2> QED
    BY <1>6, <2>1, <2>2, <2>3, RowStep DEF Created, Dropped, Chose
<1>7. ASSUME NEW s \in Request, Live(s, {"test"})', Same(s)'
      PROVE  req'[s].cfg = row'[req'[s].p].cfg \/ Held(req[s].p)' \in raced'
  <2>1. Live(s, {"test"}) /\ Live(s, OnRow) /\ req'[s].p = req[s].p /\ req'[s].id = req[s].id
    BY <1>2, <1>7 DEF Live, OnRow
  <2>2. req[s].p \in Provider
    BY <2>1 DEF TInv, Proper, Live
  <2>3. /\ Same(s)
        /\ \/ row'[req[s].p] = row[req[s].p]
           \/ Chose(r, req[s].p) \/ Wrote(r, req[s].p) \/ Marked(r, req[s].p)
    BY <1>5, <1>7, <2>1, <2>2 DEF Same
  <2>4. CASE Wrote(r, req[s].p)
    <3>1. /\ UpdateWrite(r) /\ req[r].pc = "write" /\ req[r].p = req[s].p
          /\ row'[req[s].p].id = req[r].id /\ row[req[s].p].id = req[r].id
          /\ row'[req[s].p].cfg = req[r].cfg
      BY <2>4 DEF Wrote, UpdateWrite, Keeps, Same
    <3>2. req[s].pc \in {"test", "probe"} /\ req[s].id = req[r].id
      BY <2>1, <2>3, <3>1 DEF TInv, Live, Proper, Place, Choosers, Same
    <3>3. s \in Beside(r, {"test", "probe"})
      BY <3>1, <3>2 DEF Beside, At
    <3>4. Copy(r) \in raced'
      BY <3>1, <3>3 DEF UpdateWrite
    <3> QED
      BY <2>1, <3>1, <3>4 DEF Held, Copy
  <2>5. CASE row'[req[s].p].cfg = row[req[s].p].cfg /\ row'[req[s].p].id = row[req[s].p].id
    <3>1. req'[s].cfg = req[s].cfg
      <4>1. CASE s = r
        <5>1. req[r].pc \in {"test", "probe"}
          BY <1>2, <2>1, <4>1 DEF Live, Proper, Place, Choosers
        <5>2. Validate(r) \/ Tested(r)
          BY <5>1
             DEF Handle, Create, UpdateRead, UpdateWrite, Delete, ClearBegin, Clear, Choose, Choosers,
                 Resolve, Forget, GetModels, PersistBegin, Persist, Favorite, DefaultModel, SetRead,
                 SetCommit, SetPop, GetLock, GetFetch, GetStore
        <5>3. \E pc \in {"probe", "done"} : req' = [req EXCEPT ![r].pc = pc]
          BY <5>2 DEF Validate, Tested, Goes
        <5> QED
          BY <4>1, <5>3 DEF TInv, ReqRow
      <4> QED
        BY <1>2, <4>1
    <3>2. CASE Held(req[s].p) \in raced
      BY <1>3, <2>1, <2>5, <3>2 DEF Held
    <3>3. CASE req[s].cfg = row[req[s].p].cfg
      BY <2>1, <2>5, <3>1, <3>3
    <3> QED
      BY <2>1, <2>3, <3>2, <3>3 DEF UInv
  <2> QED
    BY <2>3, <2>4, <2>5 DEF Chose, Marked, Keeps
<1>8. ASSUME NEW s \in Request, req'[s].pc = "write", Same(s)', req'[s].status = "disconnected"
      PROVE  row'[req'[s].p].status # "connected" \/ Copy(s)' \in raced'
  <2>1. CASE s = r
    <3>1. req[r].op = "update"
      BY <1>2, <1>8, <2>1, Kind
    <3>2. req[r].pc \in {"update", "write"}
      BY <1>2, <3>1 DEF Proper, Place, Choosers
    <3>3. UpdateRead(r) \/ UpdateWrite(r)
      BY <3>2
         DEF Handle, Create, Delete, ClearBegin, Clear, Choose, Choosers, Validate, Tested, Resolve,
             Forget, GetModels, PersistBegin, Persist, Favorite, DefaultModel, SetRead, SetCommit,
             SetPop, GetLock, GetFetch, GetStore
    <3>4. ~UpdateWrite(r)
      <4>1. ASSUME UpdateWrite(r) PROVE req'[r].pc = "done"
        BY <1>2, <4>1 DEF UpdateWrite, Goes, TInv, ReqRow
      <4> QED
        BY <1>8, <2>1, <4>1
    <3>5. row' = row /\ req'[r].status = row[req[r].p].status
      BY <1>2, <3>3, <3>4 DEF UpdateRead, provVars, TInv, ReqRow
    <3> QED
      BY <1>2, <1>8, <2>1, <3>5
  <2>2. CASE s # r
    <3>1. req'[s] = req[s] /\ req[s].op = "update" /\ Live(s, {"update"}) /\ Live(s, OnRow)
      BY <1>2, <1>8, <2>2, Kind DEF TInv, Live, OnRow
    <3>2. req[s].p \in Provider
      BY <3>1 DEF TInv, Proper
    <3>3. /\ Same(s)
          /\ \/ row'[req[s].p] = row[req[s].p]
             \/ Chose(r, req[s].p) \/ Wrote(r, req[s].p) \/ Marked(r, req[s].p)
      BY <1>5, <1>8, <3>1, <3>2 DEF Same
    <3>4. CASE Marked(r, req[s].p)
      <4>1. Validate(r) => row'[req[s].p].status = "validating"
        BY <3>4 DEF Marked
      <4>2. ASSUME Tested(r), row'[req[s].p].status = "connected" PROVE Copy(s) \in raced'
        <5>1. /\ req[r].p = req[s].p /\ req[r].id = req[s].id /\ Same(r)
          BY <3>3, <3>4 DEF Marked, Same
        <5>2. s \in Beside(r, {"write"})
          BY <1>8, <3>1, <5>1 DEF Beside, At
        <5>3. PICK ok \in Probe(req[r].p) :
                /\ SetStatus(r, IF ok THEN "connected" ELSE "error")
                /\ raced' = IF ok THEN raced \cup {Copy(t) : t \in Beside(r, {"write"})} ELSE raced
          BY <4>2 DEF Tested
        <5>4. CASE ok
          BY <5>2, <5>3, <5>4
        <5>5. CASE ~ok
          <6>1. row' = [row EXCEPT ![req[r].p].status = "error"]
            BY <5>1, <5>3, <5>5 DEF SetStatus
          <6>2. row'[req[s].p].status = "error"
            BY <3>2, <5>1, <6>1 DEF TInv, ProviderRow
          <6> QED
            BY <4>2, <6>2
        <5> QED
          BY <5>4, <5>5
      <4> QED
        BY <3>1, <3>4, <4>1, <4>2 DEF Marked, Copy
    <3>5. CASE row'[req[s].p] = row[req[s].p] \/ Chose(r, req[s].p)
      <4>1. row'[req[s].p].status = row[req[s].p].status
        BY <3>5 DEF Chose
      <4> QED
        BY <1>3, <1>8, <3>1, <3>3, <4>1 DEF UInv, Copy
    <3>6. CASE Wrote(r, req[s].p)
      <4>1. CASE req[r].status = "disconnected"
        BY <1>3, <1>8, <3>1, <3>3, <3>6, <4>1 DEF Wrote, UInv, Copy
      <4>2. CASE req[r].status # "disconnected"
        BY <3>1, <3>6, <4>2 DEF Wrote
      <4> QED
        BY <4>1, <4>2
    <3> QED
      BY <3>3, <3>4, <3>5, <3>6
  <2> QED
    BY <2>1, <2>2
<1>9. TestedUnlessRaced'
  <2>0. ASSUME NEW u, Passed(u, tested \cup raced) PROVE Passed(u, tested' \cup raced')
    BY <1>3, <2>0 DEF Passed
  <2>1. CASE Resolve(r)
    <3>1. ASSUME NEW p \in Resolved, Type # "llm"
          PROVE  Passed([p |-> p, id |-> row[p].id, key |-> KeyOf(p)], tested \cup raced)
      <4>1. Held(p) \in tested \cup raced
        BY <3>1 DEF Resolved, Preferred, Connected, UInv
      <4> QED
        BY <3>1, <4>1 DEF Passed, Held, KeyOf
    <3>2. ASSUME NEW u \in used'
          PROVE  u \in used \/ \E p \in Resolved : u = [p |-> p, id |-> row[p].id, key |-> KeyOf(p)]
      BY <2>1 DEF Resolve
    <3>3. Type = "llm" => \A p \in Resolved : KeyOf(p) = Preference
      BY DEF KeyOf
    <3>4. ASSUME NEW u \in used'
          PROVE  \/ Type = "llm" /\ u.key = Preference
                 \/ Passed(u, tested' \cup raced')
      <4>1. CASE u \in used
        BY <2>0, <4>1 DEF UInv, TestedUnlessRaced
      <4>2. ASSUME NEW p \in Resolved, u = [p |-> p, id |-> row[p].id, key |-> KeyOf(p)]
            PROVE  \/ Type = "llm" /\ u.key = Preference
                   \/ Passed(u, tested' \cup raced')
        BY <2>0, <3>1, <3>3, <4>2
      <4> QED
        BY <3>2, <4>1, <4>2
    <3> QED
      BY <3>4 DEF TestedUnlessRaced, Passed
  <2>2. CASE used' = used
    <3>1. \A u \in used' : \/ Type = "llm" /\ u.key = Preference
                           \/ Passed(u, tested' \cup raced')
      BY <2>0, <2>2 DEF UInv, TestedUnlessRaced
    <3> QED
      BY <3>1 DEF TestedUnlessRaced, Passed
  <2> QED
    BY <2>1, <2>2
       DEF Handle, Create, UpdateRead, UpdateWrite, Delete, ClearBegin, Clear, Choose, Validate,
           Tested, Forget, GetModels, PersistBegin, Persist, Favorite, DefaultModel,
           SetRead, SetCommit, SetPop, GetLock, GetFetch, GetStore, history
<1> QED
  BY <1>6, <1>7, <1>8, <1>9 DEF UInv, Exists, Held, Copy

LEMMA UArrive ==
  ASSUME TInv, UInv, NEW r \in Request, Arrive(r)
  PROVE  UInv'
<1>1. PICK q : Arrived(r, q)
  BY Arrival
<1>2. /\ req'[r] = q /\ row' = row /\ used' = used /\ tested' = tested /\ raced' = raced
      /\ \A s \in Request : s # r => req'[s] = req[s]
  BY <1>1 DEF Arrived, TInv, provVars, history
<1>3. q.pc # "write"
  BY <1>1, Kind DEF Arrived, OnRow, Choosers
<1>4. q.op = "test" /\ q.pc \notin {"idle", "done"} => q.cfg = row[q.p].cfg
  BY <1>1 DEF Arrived, OnRow
<1> QED
  BY <1>2, <1>3, <1>4 DEF UInv, Exists, Live, Same, Held, Copy, TestedUnlessRaced, Passed

LEMMA UNext == TInv /\ NInv /\ UInv /\ [Next]_vars => UInv'
<1> SUFFICES ASSUME TInv, NInv, UInv, [Next]_vars PROVE UInv'
  OBVIOUS
<1>1. ASSUME NEW c \in Process, Expire(c) PROVE UInv'
  BY <1>1 DEF Expire, UInv, Exists, Live, Same, Held, Copy, TestedUnlessRaced, Passed, provVars, history
<1>2. CASE UNCHANGED vars
  BY <1>2 DEF vars, provVars, history, UInv, Exists, Live, Same, Held, Copy, TestedUnlessRaced,
             Passed
<1> QED
  BY <1>1, <1>2, UArrive, UHandle DEF Next

\* The key of a provider's row that a question is answered with passed a test, or was
\* written by an update beside a test, whatever is updated, tested, deleted, created again
\* or chosen meanwhile (update_provider, update_status and provider_factory).
THEOREM OnlyTestedAnswers == Spec => []TestedUnlessRaced
<1>1. UInv => TestedUnlessRaced
  BY DEF UInv
<1> QED
  BY TInit, TNext, NInit, NNext, UInit, UNext, <1>1, PTL DEF Spec
=============================================================================
