---------------------------- MODULE Registration ----------------------------
(***************************************************************************)
(* The platform API as its clients set a platform up: endpoints, assets,   *)
(* their activation and update, discovery of their objects, registration   *)
(* and triggering of pipelines.  Every request has its own session; within *)
(* it a unit of work is one read committed transaction, and what follows   *)
(* the commit (the warehouse, the catalog, the DAG file) has no way back.  *)
(*                                                                         *)
(* A client has one request at a time; requests of different clients       *)
(* overlap.  A request may be cut at any point after its arrival: the API  *)
(* dies, or a call it makes outside the database fails.  An open           *)
(* transaction is rolled back, and what was committed stays.  A client     *)
(* that gives up on a late answer is taken as if its request was cut there *)
(* or had ended.  Assets and pipelines are never deleted: no route does.   *)
(***************************************************************************)
EXTENDS Naturals, FiniteSets

CONSTANTS Client,      \* who calls the API
          Endpoint,    \* endpoint names
          Asset,       \* asset names
          Object,      \* names of tables, collections and files
          Pipeline,    \* pipeline names
          FileOf(_),   \* the DAG file of a pipeline's name
          SourceOf(_), \* the objects the source behind an endpoint holds
          Filled,      \* endpoints whose source is there from the beginning
          MaxFaults    \* cut requests explored

ASSUME MaxFaultsAssumption == MaxFaults \in Nat
ASSUME FilledAssumption == Filled \subseteq Endpoint
ASSUME SourceAssumption == \A e \in Endpoint : SourceOf(e) \subseteq Object

None == "none"

(* No endpoint has the name that stands for none.                          *)
ASSUME NoneAssumption == None \notin Endpoint

(* A row of data_assets, and of the catalog.                               *)
Row == [state : {"draft", "active"}, endpoint : Endpoint \union {None}]
Missing == [state |-> None, endpoint |-> None]
New == [state |-> "draft", endpoint |-> None]

(* A row of data_objects: `by` is the client whose request inserted it.    *)
ObjectRow == [asset : Asset, name : Object, by : Client]

(* HTTP statuses, and the absence of an answer.                            *)
Lost == 0
Reply == {Lost, 200, 201, 404, 409, 422, 500}

VARIABLES endpoints, \* names of the committed endpoints
          assets,    \* the committed row of each asset
          objects,   \* committed rows of data_objects
          pipelines, \* each committed pipeline's request and links, or NotThere
          tables,    \* tables of the warehouse, pairs <<dataset, name>>
          catalog,   \* what the external catalog shows of each asset
          files,     \* files of the DAG directory: [file, dag, id]
          seeded,    \* endpoints whose source and secret have been set up
          call,      \* the request of each client
          at,        \* how far the API is with it
          loaded,    \* the asset's row as the request has it
          pending,   \* rows of data_objects the request has not committed
          found,     \* the assets a registration resolved
          reply,     \* the answer
          faults,    \* requests cut so far
          disturbed  \* assets with an overlap or a cut request so far

dbVars == <<endpoints, assets, objects, pipelines>>
outsideVars == <<tables, catalog, files, seeded>>
requestVars == <<call, at, loaded, pending, found, reply>>
serverVars == <<dbVars, outsideVars, requestVars, faults, disturbed>>

NoCall == [op |-> None]
NotThere == [request |-> NoCall, found |-> {}, links |-> {}]
Registered == {p \in Pipeline : pipelines[p].request # NoCall}

(* The assets a request is about.                                          *)
Concerned(q) ==
  CASE q.op \in {"asset", "activate", "update", "discover"} -> {q.asset}
    [] q.op = "direct" -> q.assets
    [] q.op = "pipeline" -> {q.source, q.dest} \intersect Asset
    [] OTHER -> {}

InProgress(c) == at[c] \notin {"idle", "answered"}

Busy == UNION {Concerned(call[c]) : c \in {d \in Client : InProgress(d)}}

Named(a, o) == {r \in objects : r.asset = a /\ r.name = o}

-----------------------------------------------------------------------------
ServerInit ==
  /\ endpoints = {}
  /\ assets = [a \in Asset |-> Missing]
  /\ objects = {}
  /\ pipelines = [p \in Pipeline |-> NotThere]
  /\ tables = {}
  /\ catalog = [a \in Asset |-> Missing]
  /\ files = {}
  /\ seeded = Filled
  /\ call = [c \in Client |-> NoCall]
  /\ at = [c \in Client |-> "idle"]
  /\ loaded = [c \in Client |-> Missing]
  /\ pending = [c \in Client |-> {}]
  /\ found = [c \in Client |-> {}]
  /\ reply = [c \in Client |-> Lost]
  /\ faults = 0
  /\ disturbed = {}

(* The client sends request q.                                             *)
Request(c, q) ==
  /\ at[c] = "idle"
  /\ call' = [call EXCEPT ![c] = q]
  /\ at' = [at EXCEPT ![c] = "received"]
  /\ disturbed' = disturbed \union (Concerned(q) \intersect Busy)
  /\ UNCHANGED <<dbVars, outsideVars, loaded, pending, found, reply, faults>>

Received(c, op) == at[c] = "received" /\ call[c].op = op

Goto(c, place) ==
  at' = [at EXCEPT ![c] = place] /\ UNCHANGED <<call, reply, faults, disturbed>>

(* The request ends: its session is closed.                                *)
Answer(c, status) ==
  /\ at' = [at EXCEPT ![c] = "answered"]
  /\ reply' = [reply EXCEPT ![c] = status]
  /\ loaded' = [loaded EXCEPT ![c] = Missing]
  /\ pending' = [pending EXCEPT ![c] = {}]
  /\ found' = [found EXCEPT ![c] = {}]
  /\ UNCHANGED call

Refuse(c, status) ==
  Answer(c, status) /\ UNCHANGED <<dbVars, outsideVars, faults, disturbed>>

-----------------------------------------------------------------------------
(* POST /v1/endpoints/<kind>: one transaction.                             *)
RegisterEndpoint(c) ==
  LET e == call[c].endpoint IN
  /\ Received(c, "endpoint")
  /\ \/ e \in endpoints /\ Refuse(c, 409)
     \/ /\ e \notin endpoints
        /\ endpoints' = endpoints \union {e}
        /\ Answer(c, 201)
        /\ UNCHANGED <<assets, objects, pipelines, outsideVars, faults, disturbed>>

(* POST /v1/assets/: the insert commits first.                             *)
RegisterAsset(c) ==
  LET a == call[c].asset IN
  /\ Received(c, "asset")
  /\ \/ assets[a] # Missing /\ Refuse(c, 409)
     \/ /\ assets[a] = Missing
        /\ assets' = [assets EXCEPT ![a] = New]
        /\ loaded' = [loaded EXCEPT ![c] = New]
        /\ Goto(c, "committed")
        /\ UNCHANGED <<endpoints, objects, pipelines, outsideVars, pending, found>>

(* Mutant: the catalog is told of the activation before it commits.        *)
MutantLoadForActivation(c) ==
  LET a == call[c].asset IN
  /\ Received(c, "activate")
  /\ \/ (assets[a] = Missing \/ call[c].endpoint \notin endpoints) /\ Refuse(c, 404)
     \/ /\ assets[a].state = "draft" /\ call[c].endpoint \in endpoints
        /\ loaded' = [loaded EXCEPT ![c] = assets[a]]
        /\ catalog' = [catalog EXCEPT ![a].state = "active"]
        /\ Goto(c, "loaded")
        /\ UNCHANGED <<dbVars, tables, files, seeded, pending, found>>

(* POST /v1/assets/<name>/activate: the names are resolved, the row read.  *)
LoadForActivation(c) ==
  LET a == call[c].asset IN
  /\ Received(c, "activate")
  /\ \/ (assets[a] = Missing \/ call[c].endpoint \notin endpoints) /\ Refuse(c, 404)
     \/ /\ assets[a] # Missing /\ call[c].endpoint \in endpoints
        /\ assets[a].state # "draft"
        /\ Refuse(c, 422)
     \/ /\ assets[a].state = "draft" /\ call[c].endpoint \in endpoints
        /\ loaded' = [loaded EXCEPT ![c] = assets[a]]
        /\ Goto(c, "loaded")
        /\ UNCHANGED <<dbVars, outsideVars, pending, found>>

CommitAsset(c, row) ==
  /\ assets' = [assets EXCEPT ![call[c].asset] = row]
  /\ loaded' = [loaded EXCEPT ![c] = row]
  /\ Goto(c, "committed")
  /\ UNCHANGED <<endpoints, objects, pipelines, outsideVars, pending, found>>

(* update_endpoint and update_state write their own columns; nothing       *)
(* checks that the row is still a draft.                                   *)
CommitActivation(c) ==
  /\ at[c] = "loaded" /\ call[c].op = "activate"
  /\ CommitAsset(c, [state |-> "active", endpoint |-> call[c].endpoint])

(* PUT /v1/assets/<name>, of an endpoint or (None) of other columns only.  *)
LoadForUpdate(c) ==
  LET a == call[c].asset IN
  /\ Received(c, "update")
  /\ \/ (assets[a] = Missing \/ call[c].endpoint \notin endpoints \union {None})
        /\ Refuse(c, 404)
     \/ /\ assets[a] # Missing /\ call[c].endpoint \in endpoints \union {None}
        /\ loaded' = [loaded EXCEPT ![c] = assets[a]]
        /\ Goto(c, "loaded")
        /\ UNCHANGED <<dbVars, outsideVars, pending, found>>

(* Mutant: the update writes the whole row it loaded, with its state.      *)
MutantCommitUpdate(c) ==
  /\ at[c] = "loaded" /\ call[c].op = "update"
  /\ CommitAsset(c, loaded[c])

(* The repository reads the row again and sets every column but the state  *)
(* to the entity's: what it loaded, where the request says nothing.        *)
CommitUpdate(c) ==
  /\ at[c] = "loaded" /\ call[c].op = "update"
  /\ CommitAsset(c, [state |-> assets[call[c].asset].state,
                     endpoint |-> IF call[c].endpoint = None THEN loaded[c].endpoint
                                  ELSE call[c].endpoint])

(* Mutant: the catalog gets the row as it was registered.                  *)
MutantPublishAsset(c) ==
  /\ at[c] = "committed" /\ call[c].op \in {"asset", "activate", "update"}
  /\ catalog' = [catalog EXCEPT ![call[c].asset] = New]
  /\ Answer(c, IF call[c].op = "asset" THEN 201 ELSE 200)
  /\ UNCHANGED <<dbVars, tables, files, seeded, faults, disturbed>>

(* After the commit the catalog gets the row as the request has it.        *)
PublishAsset(c) ==
  /\ at[c] = "committed" /\ call[c].op \in {"asset", "activate", "update"}
  /\ catalog' = [catalog EXCEPT ![call[c].asset] = loaded[c]]
  /\ Answer(c, IF call[c].op = "asset" THEN 201 ELSE 200)
  /\ UNCHANGED <<dbVars, tables, files, seeded, faults, disturbed>>

-----------------------------------------------------------------------------
(* A source and its secret are set up without the API; every statement may *)
(* be repeated.                                                            *)
SeedSource(c) ==
  /\ Received(c, "seed")
  /\ seeded' = seeded \union {call[c].endpoint}
  /\ Answer(c, 200)
  /\ UNCHANGED <<dbVars, tables, catalog, files, faults, disturbed>>

(* POST /v1/discovery/assets/<name>/run: reads the asset's objects and the *)
(* source.  One that was not set up has no secret, or nothing in it.       *)
StartDiscovery(c) ==
  LET a == call[c].asset
      e == assets[a].endpoint
      source == IF e \in seeded THEN SourceOf(e) ELSE {}
  IN
  /\ Received(c, "discover")
  /\ \/ (assets[a] = Missing \/ e \notin seeded \union {None}) /\ Refuse(c, 404)
     \/ assets[a] # Missing /\ e = None /\ Refuse(c, 422)
     \/ /\ e # None
        /\ pending' = [pending EXCEPT ![c] =
             [asset : {a}, name : {o \in source : Named(a, o) = {}}, by : {c}]]
        /\ Goto(c, "extracted")
        /\ UNCHANGED <<dbVars, outsideVars, loaded, found>>

CommitDiscovery(c) ==
  /\ at[c] = "extracted"
  /\ objects' = objects \union pending[c]
  /\ Answer(c, 201)
  /\ UNCHANGED <<endpoints, assets, pipelines, outsideVars, faults, disturbed>>

-----------------------------------------------------------------------------
(* POST /v1/pipelines/: the name is looked up, then inserted.  Before it,  *)
(* Pipeline refuses an incremental object without a watermark column.      *)
FindPipeline(c) ==
  /\ Received(c, "pipeline")
  /\ \/ (call[c].unmarked \/ call[c].pipeline \in Registered) /\ Refuse(c, 422)
     \/ /\ ~call[c].unmarked /\ call[c].pipeline \notin Registered
        /\ Goto(c, "unnamed")
        /\ UNCHANGED <<dbVars, outsideVars, loaded, pending, found>>

(* Mutant: a name that another transaction holds is answered like a name   *)
(* that is registered.                                                     *)
MutantInsertPipeline(c) ==
  LET p == call[c].pipeline
      held == \E d \in Client : at[d] \in {"inserted", "provisioned"} /\ call[d].pipeline = p
  IN
  /\ at[c] = "unnamed"
  /\ \/ (held \/ p \in Registered) /\ Refuse(c, 422)
     \/ /\ ~held /\ p \notin Registered
        /\ found' = [found EXCEPT ![c] =
             {a \in {call[c].source, call[c].dest} \intersect Asset : assets[a] # Missing}]
        /\ Goto(c, "inserted")
        /\ UNCHANGED <<dbVars, outsideVars, loaded, pending>>

(* An insert waits for the transaction that holds the same name, and fails *)
(* when that one commits.  The registration then resolves its assets.      *)
InsertPipeline(c) ==
  LET p == call[c].pipeline IN
  /\ at[c] = "unnamed"
  /\ \A d \in Client : at[d] \in {"inserted", "provisioned"} => call[d].pipeline # p
  /\ \/ p \in Registered /\ Refuse(c, 409)
     \/ /\ p \notin Registered
        /\ found' = [found EXCEPT ![c] =
             {a \in {call[c].source, call[c].dest} \intersect Asset : assets[a] # Missing}]
        /\ Goto(c, "inserted")
        /\ UNCHANGED <<dbVars, outsideVars, loaded, pending>>

(* Mutant: tables are made only where the destination is a known asset.    *)
MutantProvisionPipeline(c) ==
  LET d == call[c].dest
      missing == {o \in call[c].into : Named(d, o) = {}}
      made == d \in found[c] /\ call[c].create
  IN
  /\ at[c] = "inserted"
  /\ pending' = [pending EXCEPT ![c] = IF made THEN [asset : {d}, name : missing, by : {c}] ELSE {}]
  /\ tables' = tables \union IF made THEN {d} \X call[c].into ELSE {}
  /\ Goto(c, "provisioned")
  /\ UNCHANGED <<dbVars, catalog, files, seeded, loaded, found>>

(* _provision_destination_objects: rows for the objects the destination    *)
(* lacks, tables in the warehouse whether or not the destination exists.   *)
ProvisionPipeline(c) ==
  LET d == call[c].dest
      missing == {o \in call[c].into : Named(d, o) = {}}
  IN
  /\ at[c] = "inserted"
  /\ pending' = [pending EXCEPT ![c] =
       IF d \in found[c] /\ call[c].create THEN [asset : {d}, name : missing, by : {c}] ELSE {}]
  /\ tables' = tables \union IF call[c].create THEN {d} \X call[c].into ELSE {}
  /\ Goto(c, "provisioned")
  /\ UNCHANGED <<dbVars, catalog, files, seeded, loaded, found>>

(* The links of one role: any row of each name.                            *)
Links(a, names, rows) ==
  {chosen \in SUBSET {r \in rows : r.asset = a /\ r.name \in names} :
     \A r \in rows : r.asset = a /\ r.name \in names =>
       Cardinality({k \in chosen : k.name = r.name}) = 1}

CommitPipeline(c) ==
  LET q == call[c]
      rows == objects \union pending[c]
      LinksOf(a, names) == IF a \in found[c] THEN Links(a, names, rows) ELSE {{}}
  IN
  /\ at[c] = "provisioned"
  /\ \E source \in LinksOf(q.source, q.from), dest \in LinksOf(q.dest, q.into) :
       pipelines' = [pipelines EXCEPT ![q.pipeline] =
         [request |-> q, found |-> found[c], links |-> source \union dest]]
  /\ objects' = rows
  /\ pending' = [pending EXCEPT ![c] = {}]
  /\ Goto(c, "registered")
  /\ UNCHANGED <<endpoints, assets, outsideVars, loaded, found>>

(* Mutant: the answer is given without the file.                           *)
MutantWriteDagFile(c) ==
  /\ at[c] = "registered"
  /\ Answer(c, 201)
  /\ UNCHANGED <<dbVars, outsideVars, faults, disturbed>>

(* A DAG file, overwritten when it exists: the DAG's id is the pipeline's  *)
(* name, and its tasks report to the pipeline `id`.                        *)
Overwrite(file, p, id) ==
  files' = {f \in files : f.file # file} \union {[file |-> file, dag |-> p, id |-> id]}

WriteDagFile(c) ==
  /\ at[c] = "registered"
  /\ Overwrite(FileOf(call[c].pipeline), call[c].pipeline, "registered")
  /\ Answer(c, 201)
  /\ UNCHANGED <<dbVars, tables, catalog, seeded, faults, disturbed>>

(* A script's own unit of work: the assets it lacks, active at once, and   *)
(* their endpoint.  Nothing is published.  The insert fails when another   *)
(* client's has committed.                                                 *)
FindDirect(c) ==
  /\ Received(c, "direct")
  /\ found' = [found EXCEPT ![c] = {a \in call[c].assets : assets[a] = Missing}]
  /\ Goto(c, "checked")
  /\ UNCHANGED <<dbVars, outsideVars, loaded, pending>>

CommitDirect(c) ==
  LET new == [state |-> "active", endpoint |-> call[c].endpoint] IN
  /\ at[c] = "checked"
  /\ \/ (\E a \in found[c] : assets[a] # Missing) /\ Refuse(c, 500)
     \/ /\ \A a \in found[c] : assets[a] = Missing
        /\ assets' = [a \in Asset |-> IF a \in found[c] THEN new ELSE assets[a]]
        /\ endpoints' = endpoints \union {call[c].endpoint}
        /\ Answer(c, 201)
        /\ UNCHANGED <<objects, pipelines, outsideVars, faults, disturbed>>

(* A DAG file a script writes itself, with an id of its own.               *)
WriteOwnDagFile(c) ==
  /\ Received(c, "file")
  /\ Overwrite(call[c].file, call[c].pipeline, "fixed")
  /\ Answer(c, 201)
  /\ UNCHANGED <<dbVars, tables, catalog, seeded, faults, disturbed>>

(* POST /v1/pipelines/<id>/run, as far as it matters here: the DAG file is *)
(* written again before Airflow is called.                                 *)
TriggerRun(c) ==
  LET p == call[c].pipeline IN
  /\ Received(c, "trigger")
  /\ \/ p \notin Registered /\ Refuse(c, 404)
     \/ /\ p \in Registered
        /\ Overwrite(FileOf(p), p, "registered")
        /\ Answer(c, 201)
        /\ UNCHANGED <<dbVars, tables, catalog, seeded, faults, disturbed>>

(* GET of a pipeline by its name.                                          *)
LookUpPipeline(c) ==
  /\ Received(c, "look")
  /\ Refuse(c, IF call[c].pipeline \in Registered THEN 200 ELSE 404)

-----------------------------------------------------------------------------
(* The request is cut.  The exception handlers answer 500, PUT answers 422 *)
(* to any error, or there is no answer at all: an answer may be lost, too. *)
Cut(c) ==
  /\ at[c] # "idle"
  /\ faults < MaxFaults
  /\ faults' = faults + 1
  /\ \/ Answer(c, Lost)
     \/ InProgress(c) /\ Answer(c, IF call[c].op = "update" THEN 422 ELSE 500)
  /\ disturbed' = disturbed \union Concerned(call[c])
  /\ UNCHANGED <<dbVars, outsideVars>>

Serve(c) ==
  \/ RegisterEndpoint(c) \/ RegisterAsset(c)
  \/ LoadForActivation(c) \/ CommitActivation(c)
  \/ LoadForUpdate(c) \/ CommitUpdate(c) \/ PublishAsset(c)
  \/ SeedSource(c) \/ StartDiscovery(c) \/ CommitDiscovery(c)
  \/ FindPipeline(c) \/ InsertPipeline(c) \/ ProvisionPipeline(c)
  \/ CommitPipeline(c) \/ WriteDagFile(c)
  \/ FindDirect(c) \/ CommitDirect(c) \/ WriteOwnDagFile(c)
  \/ TriggerRun(c) \/ LookUpPipeline(c)
=============================================================================
