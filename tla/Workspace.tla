------------------------------ MODULE Workspace ------------------------------
(***************************************************************************)
(* The providers of a user's workspace, their models, and a setting with    *)
(* its caches: routes/workspace and services/workspace, runtime_settings    *)
(* and user_preferences.                                                    *)
(*                                                                         *)
(* The rows are those of one user and one provider type, llm or embedding   *)
(* (for search the default is taken whatever its status). Every statement   *)
(* runs in a transaction of its own, except where a default is chosen: two  *)
(* UPDATEs of one transaction, with the rows locked in between (locked).    *)
(* An UPDATE works on the rows that were there when it began, also when it  *)
(* had to wait for them (READ COMMITTED). A row is known by the request     *)
(* that inserted it, so that one deleted and created again is another.      *)
(*                                                                         *)
(* Left out: the circuit breaker, since nothing calls record_provider_-     *)
(* failure; latencies, names and prices; is_fallback, which is set as       *)
(* is_default is and read by nothing.                                       *)
(* A definition marked "Variant" is a wrong version of the one after it,    *)
(* which the runs must notice in its place.                                 *)
(***************************************************************************)
EXTENDS Naturals, FiniteSets

CONSTANTS
  Provider,   \* provider names; a workspace has one row of each at most
  Unasked,    \* those whose test asks nobody
  Static,     \* those whose models are known without asking
  Model,      \* models that a provider may offer
  Catalog,    \* the static catalogue of each provider
  Process,    \* server processes, each with its cache
  Type,       \* the type of the rows
  Preference, \* the key that a user keeps as a preference
  Request, Old, None

Choosers == {"default", "fallback"}
OnRow == {"update", "delete", "test", "discover"} \cup Choosers
Op == OnRow \cup {"create", "resolve", "favorite", "defaultModel", "set", "get", "none"}

ASSUME WorkspaceAssumption ==
  /\ Unasked \cup Static \subseteq Provider /\ Catalog \in [Provider -> SUBSET Model]
  /\ None \notin Request \cup {Old} \cup Provider /\ Old \notin Request
  /\ Type \in {"llm", "embedding"} /\ Preference \notin Request \cup {Old}

VARIABLES
  row,      \* workspace_providers
  models,   \* workspace_models
  locked,   \* the request whose transaction holds the provider rows
  value,    \* the setting: the number of writes it has seen, 0 for no row
  cache,    \* each process's entry for it
  lock,     \* the request that holds each process's cache lock
  req,
  used,     \* history: the keys questions were answered with
  tested,   \* history: the configurations that passed a test
  raced,    \* history: those that an update wrote while a test of the row was under way,
            \* or had read the row for when one ended
  late,     \* history: the rows inserted while a default was being chosen
  finished  \* history: the last write of each process that was acknowledged

provVars == <<row, models, locked>>
setVars == <<value, cache, lock>>
history == <<used, tested, raced, late, finished>>
vars == <<provVars, setVars, req, history>>

Status == {"connected", "disconnected", "error", "validating"}
Owner == Request \cup {Old}
Config == [key : Owner, model : Owner]
ProviderRow == [id : Owner \cup {None}, default : BOOLEAN, status : Status, cfg : Config]
ModelRow == [p : Provider, m : Model, by : Owner, default : BOOLEAN, favorite : BOOLEAN]

NewConfig(o) == [key |-> o, model |-> o]
Absent == [id |-> None, default |-> FALSE, status |-> "disconnected", cfg |-> NewConfig(Old)]
Exists(p) == row[p].id # None
\* The row a request read is still there.
Same(r) == row[req[r].p].id = req[r].id
ModelsOf(p) == {m \in models : m.p = p}

Idle == [op |-> "none", pc |-> "idle", p |-> None, id |-> None, cfg |-> NewConfig(Old),
         status |-> "disconnected", seen |-> {}, got |-> {}, proc |-> None, n |-> 0, floor |-> 0]

Init ==
  /\ \E here \in SUBSET Provider, good \in SUBSET Provider :
       row = [p \in Provider |->
                IF p \notin here THEN Absent
                ELSE [id |-> Old, default |-> FALSE, cfg |-> NewConfig(Old),
                      status |-> IF p \in good THEN "connected" ELSE "disconnected"]]
  /\ models = {} /\ locked = None
  /\ value = 0 /\ cache = [c \in Process |-> None] /\ lock = [c \in Process |-> None]
  /\ req = [r \in Request |-> Idle]
  /\ used = {} /\ raced = {} /\ late = {} /\ finished = [c \in Process |-> 0]
  /\ tested = {[p |-> p, id |-> Old, cfg |-> NewConfig(Old)] : p \in Provider}

-----------------------------------------------------------------------------
(* A request arrives *)

Goes(r, pc) == req' = [req EXCEPT ![r].pc = pc]
\* The requests that are at one of these steps, and those of them on the same row as r.
At(pcs) == {s \in Request : req[s].pc \in pcs}
Beside(r, pcs) == {s \in At(pcs) : req[s].p = req[r].p /\ req[s].id = req[r].id}
\* The configuration that a request holds for its row.
Copy(r) == [p |-> req[r].p, id |-> req[r].id, cfg |-> req[r].cfg]

\* create_provider of the route, and the endpoints that first get the provider: 404
\* without one. The copy they read here is the one they go on with.
ProviderRequest(r) ==
  \E op \in OnRow \cup {"create", "resolve"}, p \in Provider :
    /\ req[r].pc = "idle"
    /\ req' = [req EXCEPT ![r] = [Idle EXCEPT !.op = op, !.p = p, !.id = row[p].id,
                 !.cfg = row[p].cfg, !.status = row[p].status,
                 !.pc = IF op \in OnRow /\ ~Exists(p) THEN "done" ELSE op]]
    /\ UNCHANGED <<provVars, setVars, history>>

\* A model that is listed; set_default_model of the route has read its row.
ModelRequest(r) ==
  \E op \in {"favorite", "defaultModel"}, m \in models :
    /\ req[r].pc = "idle"
    /\ req' = [req EXCEPT ![r] = [Idle EXCEPT !.op = op, !.pc = op, !.p = m.p,
                                              !.id = m.by, !.got = {m.m}]]
    /\ UNCHANGED <<provVars, setVars, history>>

\* A setting is read or written in some process. A read counts from the last write
\* that was acknowledged there.
SettingRequest(r) ==
  \E op \in {"set", "get"}, c \in Process :
    /\ req[r].pc = "idle"
    /\ req' = [req EXCEPT ![r] = [Idle EXCEPT !.op = op, !.pc = op, !.proc = c,
                                              !.floor = finished[c]]]
    /\ UNCHANGED <<provVars, setVars, history>>

-----------------------------------------------------------------------------
(* ProviderService *)

\* The unique constraint refuses a second row of the name.
Create(r) ==
  LET p == req[r].p IN
  /\ req[r].pc = "create"
  /\ row' = IF Exists(p) THEN row
            ELSE [row EXCEPT ![p] = [Absent EXCEPT !.id = r, !.cfg = NewConfig(r)]]
  /\ late' = IF At({"clear", "choose"}) = {} THEN late ELSE late \cup {r}
  /\ Goes(r, "done")
  /\ UNCHANGED <<models, locked, setVars, used, tested, raced, finished>>

\* update_provider reads the row again, and merges the new values into that copy.
UpdateRead(r) ==
  /\ req[r].pc = "update"
  /\ \E f \in {"key", "model"} :
       req' = [req EXCEPT ![r].pc = IF Same(r) THEN "write" ELSE "done",
                          ![r].cfg = [row[req[r].p].cfg EXCEPT ![f] = r],
                          ![r].status = row[req[r].p].status]
  /\ UNCHANGED <<provVars, setVars, history>>

\* Variant: the status is left alone.
UpdateConfigOnly(r) ==
  /\ req[r].pc = "write" /\ locked = None
  /\ row' = IF Same(r) THEN [row EXCEPT ![req[r].p].cfg = req[r].cfg] ELSE row
  /\ raced' = raced \cup {Copy(r) : s \in Beside(r, {"test", "probe"})}
  /\ Goes(r, "done")
  /\ UNCHANGED <<models, locked, setVars, used, tested, late, finished>>

\* The session writes the columns that changed: the status only if the copy's differs.
UpdateWrite(r) ==
  LET p == req[r].p IN
  /\ req[r].pc = "write" /\ locked = None
  /\ row' = IF ~Same(r) THEN row
            ELSE [row EXCEPT ![p].cfg = req[r].cfg,
                             ![p].status = IF req[r].status = "disconnected" THEN @
                                           ELSE "disconnected"]
  /\ raced' = raced \cup {Copy(r) : s \in Beside(r, {"test", "probe"})}
  /\ Goes(r, "done")
  /\ UNCHANGED <<models, locked, setVars, used, tested, late, finished>>

Delete(r) ==
  /\ req[r].pc = "delete" /\ locked = None
  /\ row' = IF Same(r) THEN [row EXCEPT ![req[r].p] = Absent] ELSE row
  /\ Goes(r, "done")
  /\ UNCHANGED <<models, locked, setVars, history>>

\* Variant: the UPDATE names only the rows that are marked.
ClearMarked(r) ==
  /\ req[r].pc \in Choosers
  /\ req' = [req EXCEPT ![r].pc = "clear",
                        ![r].seen = {row[p].id : p \in {q \in Provider : row[q].default}}]
  /\ UNCHANGED <<provVars, setVars, history>>

\* set_default and set_fallback. The first UPDATE begins: these are its rows.
ClearBegin(r) ==
  /\ req[r].pc \in Choosers
  /\ req' = [req EXCEPT ![r].pc = "clear",
                        ![r].seen = {row[p].id : p \in {q \in Provider : Exists(q)}}]
  /\ UNCHANGED <<provVars, setVars, history>>

\* It has them, when the transaction that held them has ended.
Clear(r) ==
  /\ req[r].pc = "clear" /\ locked = None
  /\ locked' = r /\ Goes(r, "choose")
  /\ UNCHANGED <<row, models, setVars, history>>

\* The row is marked and all is committed; without a row all is rolled back.
Choose(r) ==
  LET p == req[r].p IN
  /\ req[r].pc = "choose"
  /\ row' = IF Same(r) /\ req[r].op = "default"
            THEN [q \in Provider |->
                   [row[q] EXCEPT !.default = IF q = p THEN TRUE
                                              ELSE @ /\ row[q].id \notin req[r].seen]]
            ELSE row
  /\ locked' = IF locked = r THEN None ELSE locked
  /\ Goes(r, "done")
  /\ UNCHANGED <<models, setVars, history>>

-----------------------------------------------------------------------------
(* test_provider and the testers *)

\* One small request to the provider, that a 200 answers or not.
Answer == BOOLEAN
\* The testers per type. Local providers pass, and those without an endpoint to ask pass
\* with any key (an empty one, which fails, is not among the keys here).
Probe(p) == IF p \in Unasked THEN {TRUE} ELSE Answer

\* update_status finds the row and writes it.
SetStatus(r, status) ==
  row' = IF Same(r) THEN [row EXCEPT ![req[r].p].status = status] ELSE row

Validate(r) ==
  /\ req[r].pc = "test" /\ locked = None
  /\ SetStatus(r, "validating") /\ Goes(r, "probe")
  /\ UNCHANGED <<models, locked, setVars, history>>

\* The test is of the configuration that was read at the start.
Tested(r) ==
  /\ req[r].pc = "probe" /\ locked = None
  /\ \E ok \in Probe(req[r].p) :
       /\ SetStatus(r, IF ok THEN "connected" ELSE "error")
       /\ tested' = IF ok THEN tested \cup {Copy(r)} ELSE tested
       /\ raced' = IF ok THEN raced \cup {Copy(s) : s \in Beside(r, {"write"})} ELSE raced
  /\ Goes(r, "done")
  /\ UNCHANGED <<models, locked, setVars, used, late, finished>>

-----------------------------------------------------------------------------
(* provider_factory: what a question is answered with *)

Connected == {p \in Provider : Exists(p) /\ row[p].status = "connected"}
Preferred == {p \in Connected : row[p].default}
\* A default that is connected, or the first connected one: which that is depends on
\* the dates of creation, so it may be any.
Resolved == IF Preferred # {} THEN Preferred ELSE Connected

\* The pipeline takes no more than the key from what is resolved. For the language model
\* the user's preference comes before the row's own key; the question endpoints refuse
\* a user without it.
KeyOf(p) == IF Type = "llm" THEN Preference ELSE row[p].cfg.key

\* No provider, or a failure to read them: the global configuration.
Resolve(r) ==
  /\ req[r].pc = "resolve"
  /\ \/ UNCHANGED used
     \/ \E p \in Resolved : used' = used \cup {[p |-> p, id |-> row[p].id, key |-> KeyOf(p)]}
  /\ Goes(r, "done")
  /\ UNCHANGED <<provVars, setVars, tested, raced, late, finished>>

-----------------------------------------------------------------------------
(* ModelDiscoveryService *)

\* A provider's API, its static catalogue when the call fails; a catalogue alone.
Fetched(p) == IF p \in Static THEN {Catalog[p]} ELSE (SUBSET Model) \cup {Catalog[p]}

\* discover_models of the route forgets the provider's rows first.
Forget(r) ==
  /\ req[r].pc = "discover"
  /\ models' = models \ ModelsOf(req[r].p)
  /\ Goes(r, "cached")
  /\ UNCHANGED <<row, locked, setVars, history>>

\* get_models: the rows, if another request has stored some since, or a fetch.
GetModels(r) ==
  /\ req[r].pc = "cached"
  /\ \E got \in Fetched(req[r].p) :
       req' = [req EXCEPT ![r].got = got,
                 ![r].pc = IF ModelsOf(req[r].p) # {} \/ got = {} THEN "done" ELSE "persist"]
  /\ UNCHANGED <<provVars, setVars, history>>

\* _persist deletes what it sees and adds a row for each model.
PersistBegin(r) ==
  /\ req[r].pc = "persist"
  /\ req' = [req EXCEPT ![r].pc = "insert", ![r].seen = {m.by : m \in ModelsOf(req[r].p)}]
  /\ UNCHANGED <<provVars, setVars, history>>

\* A row that was committed meanwhile: the unique constraint refuses all of them.
Persist(r) ==
  LET p == req[r].p
      left == {m \in ModelsOf(p) : m.by \notin req[r].seen}
  IN
  /\ req[r].pc = "insert"
  /\ models' = IF \E m \in left : m.m \in req[r].got THEN models
               ELSE (models \ ModelsOf(p)) \cup left \cup
                    {[p |-> p, m |-> m, by |-> r, default |-> FALSE, favorite |-> FALSE]
                       : m \in req[r].got}
  /\ Goes(r, "done")
  /\ UNCHANGED <<row, locked, setVars, history>>

Chosen(r) == {m \in ModelsOf(req[r].p) : m.by = req[r].id /\ m.m \in req[r].got}

Favorite(r) ==
  /\ req[r].pc = "favorite"
  /\ models' = (models \ Chosen(r)) \cup {[m EXCEPT !.favorite = ~@] : m \in Chosen(r)}
  /\ Goes(r, "done")
  /\ UNCHANGED <<row, locked, setVars, history>>

\* set_default_model: none of the provider's rows but this one, if it is still there.
DefaultModel(r) ==
  /\ req[r].pc = "defaultModel"
  /\ models' = IF Chosen(r) = {} THEN models
               ELSE (models \ ModelsOf(req[r].p)) \cup
                    {[m EXCEPT !.default = m \in Chosen(r)] : m \in ModelsOf(req[r].p)}
  /\ Goes(r, "done")
  /\ UNCHANGED <<row, locked, setVars, history>>

-----------------------------------------------------------------------------
(* A setting: the three services hold the same code *)

SetRead(r) ==
  /\ req[r].pc = "set"
  /\ req' = [req EXCEPT ![r].pc = "upsert", ![r].n = value]
  /\ UNCHANGED <<provVars, setVars, history>>

\* A row that appeared since the read is refused by the unique constraint.
SetCommit(r) ==
  /\ req[r].pc = "upsert"
  /\ IF req[r].n = 0 /\ value > 0
     THEN Goes(r, "done") /\ UNCHANGED value
     ELSE /\ value' = value + 1
          /\ req' = [req EXCEPT ![r].pc = "pop", ![r].n = value + 1]
  /\ UNCHANGED <<provVars, cache, lock, history>>

\* Variant: the entry stays.
SetKeep(r) ==
  LET c == req[r].proc IN
  /\ req[r].pc = "pop" /\ lock[c] = None
  /\ finished' = [finished EXCEPT ![c] = IF @ < req[r].n THEN req[r].n ELSE @]
  /\ Goes(r, "done")
  /\ UNCHANGED <<provVars, value, cache, lock, used, tested, raced, late>>

\* The entry is dropped under the lock, after the commit; then the caller is told.
SetPop(r) ==
  LET c == req[r].proc IN
  /\ req[r].pc = "pop" /\ lock[c] = None
  /\ cache' = [cache EXCEPT ![c] = None]
  /\ finished' = [finished EXCEPT ![c] = IF @ < req[r].n THEN req[r].n ELSE @]
  /\ Goes(r, "done")
  /\ UNCHANGED <<provVars, value, lock, used, tested, raced, late>>

\* With the lock: an entry is the answer, or the lock is kept over the fetch.
GetLock(r) ==
  LET c == req[r].proc IN
  /\ req[r].pc = "get" /\ lock[c] = None
  /\ IF cache[c] # None
     THEN req' = [req EXCEPT ![r].pc = "done", ![r].n = cache[c]] /\ UNCHANGED lock
     ELSE Goes(r, "fetch") /\ lock' = [lock EXCEPT ![c] = r]
  /\ UNCHANGED <<provVars, value, cache, history>>

GetFetch(r) ==
  /\ req[r].pc = "fetch"
  /\ req' = [req EXCEPT ![r].pc = "store", ![r].n = value]
  /\ UNCHANGED <<provVars, setVars, history>>

GetStore(r) ==
  LET c == req[r].proc IN
  /\ req[r].pc = "store"
  /\ cache' = [cache EXCEPT ![c] = req[r].n]
  /\ lock' = [lock EXCEPT ![c] = None]
  /\ Goes(r, "done")
  /\ UNCHANGED <<provVars, value, history>>

\* Sixty seconds later.
Expire(c) ==
  /\ cache[c] # None
  /\ cache' = [cache EXCEPT ![c] = None]
  /\ UNCHANGED <<provVars, value, lock, req, history>>

-----------------------------------------------------------------------------
Arrive(r) == ProviderRequest(r) \/ ModelRequest(r) \/ SettingRequest(r)

Handle(r) ==
  \/ Create(r) \/ UpdateRead(r) \/ UpdateWrite(r) \/ Delete(r)
  \/ ClearBegin(r) \/ Clear(r) \/ Choose(r)
  \/ Validate(r) \/ Tested(r) \/ Resolve(r)
  \/ Forget(r) \/ GetModels(r) \/ PersistBegin(r) \/ Persist(r)
  \/ Favorite(r) \/ DefaultModel(r)
  \/ SetRead(r) \/ SetCommit(r) \/ SetPop(r)
  \/ GetLock(r) \/ GetFetch(r) \/ GetStore(r)

Next ==
  \/ \E r \in Request : Arrive(r) \/ Handle(r)
  \/ \E c \in Process : Expire(c)

Spec == Init /\ [][Next]_vars

-----------------------------------------------------------------------------
(* Correctness *)

TypeOK ==
  /\ row \in [Provider -> ProviderRow] /\ models \subseteq ModelRow
  /\ locked \in Request \cup {None}
  /\ value \in Nat /\ cache \in [Process -> Nat \cup {None}]
  /\ lock \in [Process -> Request \cup {None}] /\ finished \in [Process -> Nat]
  /\ \A r \in Request : req[r].op \in Op /\ req[r].cfg \in Config

Defaults == {p \in Provider : row[p].default}

\* However many requests choose a default at once, one row at most is the default, among
\* those that were not inserted while one was being chosen: the second choice waits for
\* the rows of the first. An UPDATE that waits does not see a row inserted meanwhile, which
\* the other may have made the default, though set_default says "clearing any previous
\* default of same type".
OneSettledDefault == Cardinality({p \in Defaults : row[p].id \notin late}) <= 1

Passed(u, configs) == \E c \in configs : c.p = u.p /\ c.id = u.id /\ c.cfg.key = u.key

\* The key of a provider's row that a question is answered with has passed a test, or was
\* written by an update beside a test: otherwise a change disconnects the provider
\* until the next test (update_provider, test_provider, _get_workspace_embedding_config).
\* A test that ends after an update marks what was written beside it as connected, though
\* update_provider says "re-validate after config change"; and the row of a language model
\* gives way to a key among the preferences, though provider_factory says "Workspace
\* default provider" first.
TestedUnlessRaced ==
  \A u \in used : \/ Type = "llm" /\ u.key = Preference
                  \/ Passed(u, tested \cup raced)

\* Once a write is acknowledged, no read that begins later in that process returns
\* an older value, whatever was being fetched when it was committed.
FreshAfterSet ==
  \A r \in Request : req[r].op = "get" /\ req[r].pc = "done" => req[r].n >= req[r].floor
=============================================================================
