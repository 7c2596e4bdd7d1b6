---------------------------- MODULE SetupScripts ----------------------------
(***************************************************************************)
(* The scripts that set a platform up, as clients of Registration.  Each   *)
(* is a program of steps: a request, the statuses the script takes for     *)
(* success, and what it does with any other status and without an answer.  *)
(* Of the items a script handles alike, each kind is represented once: one *)
(* database of the three sources, one table of its source, one pipeline of *)
(* each shape.  Two users of the portal act beside the scripts.            *)
(*                                                                         *)
(* Seeding, tokens and console output have no step of their own, except    *)
(* that a source that was not seeded has nothing to discover.              *)
(***************************************************************************)
EXTENDS Registration, Sequences

CONSTANTS Team \* sets of scripts that run beside each other

VARIABLES script, \* the script of each client
          step,   \* its next step
          tries,  \* attempts at that step so far
          failed  \* whether a step has not succeeded

scriptVars == <<script, step, tries, failed>>
vars == <<serverVars, scriptVars>>

MaxTries == 2   \* stands for the five attempts of execute_bronze_pipelines

Each(requests, ok, orElse, orLost) ==
  [i \in DOMAIN requests |->
     [request |-> requests[i], ok |-> ok, orElse |-> orElse, orLost |-> orLost]]

EndpointOf(e) == [op |-> "endpoint", endpoint |-> e]
AssetOf(a) == [op |-> "asset", asset |-> a]
Activate(a, e) == [op |-> "activate", asset |-> a, endpoint |-> e]
Discover(a) == [op |-> "discover", asset |-> a]
PipelineOf(p, source, from, dest, into, create) ==
  [op |-> "pipeline", pipeline |-> p, source |-> source, from |-> from,
   dest |-> dest, into |-> into, create |-> create, unmarked |-> FALSE]
Unmarked(q) == [q EXCEPT !.unmarked = TRUE]
Seed(e) == [op |-> "seed", endpoint |-> e]
OwnFile(f, p) == [op |-> "file", file |-> f, pipeline |-> p]
Of(op, p) == [op |-> op, pipeline |-> p]

-----------------------------------------------------------------------------
(* seed_demo_environment.py: warns of what fails and goes on.              *)
DemoSource == Each(<<Seed("e2e-db-prod")>>, {200}, "continue", "continue")

DemoEndpoints == Each(<<EndpointOf("e2e-db-prod")>>, {201, 409}, "continue", "continue")

DemoAssets ==
  Each(<<AssetOf("postgres_asset"), AssetOf("platform_bronze")>>,
       {201, 409}, "continue", "continue")

DemoActivation ==
  Each(<<Activate("postgres_asset", "e2e-db-prod"), Activate("platform_bronze", "e2e-db-prod")>>,
       {200, 422}, "continue", "continue")

DemoDiscovery ==
  Each(<<Discover("postgres_asset"), Discover("platform_bronze")>>,
       {200, 201}, "continue", "continue")

(* The destination of an ingestion is its source asset; the ETL's asset is *)
(* one that no script registers.                                           *)
DemoPipelineSpecs ==
  <<PipelineOf("Ingest_Customers_Table", "postgres_asset", {"customers"},
               "postgres_asset", {"customers"}, TRUE),
    PipelineOf("ETL_Sales_and_Customer_Analytics", "dwh_lakehouse", {"sales_summary"},
               "dwh_lakehouse", {"sales_summary"}, TRUE)>>

(* Every object is declared incremental without a watermark column, which  *)
(* the API refuses with 422: the script shows the pipeline as existing.    *)
DemoPipelines == Each([i \in DOMAIN DemoPipelineSpecs |-> Unmarked(DemoPipelineSpecs[i])], {201, 409, 422}, "continue", "continue")

(* DAG files named for the specification's id: the API's file of the same  *)
(* pipeline stays beside them.                                             *)
DemoDags ==
  Each(<<OwnFile("dag_p_ingest_customers", "Ingest_Customers_Table")>>,
       {201}, "stop", "stop")

Demo == DemoSource \o DemoEndpoints \o DemoAssets \o DemoActivation
        \o DemoDiscovery \o DemoPipelines \o DemoDags

(* seed_e2e_platform.py: the same endpoints, other assets, and pipelines   *)
(* of the same names.  The destination is spelled with underscores: no     *)
(* such asset exists.                                                      *)
E2eSource == Each(<<Seed("e2e-db-prod")>>, {200}, "continue", "continue")

E2eEndpoints == Each(<<EndpointOf("e2e-db-prod")>>, {201, 409}, "continue", "continue")

E2eAssets == Each(<<AssetOf("e2e-postgres-asset")>>, {201, 409}, "continue", "continue")

E2eActivation ==
  Each(<<Activate("e2e-postgres-asset", "e2e-db-prod")>>, {200, 422}, "continue", "continue")

E2eDiscovery == Each(<<Discover("e2e-postgres-asset")>>, {200, 201}, "continue", "continue")

E2ePipelines ==
  Each(<<PipelineOf("Ingest_Customers_Table", "e2e-postgres-asset", {"customers"},
                    "e2e_postgres_asset", {"customers"}, TRUE)>>,
       {201, 422}, "continue", "continue")

E2e == E2eSource \o E2eEndpoints \o E2eAssets \o E2eActivation \o E2eDiscovery \o E2ePipelines

-----------------------------------------------------------------------------
(* register_and_run_bronze.py: stops at the first failure, but for the     *)
(* assets, whose answers it only shows.                                    *)
Players(p) ==
  Unmarked(PipelineOf(p, "file_asset_bronze", {"players"}, "platform_bronze", {"players"}, TRUE))

BronzeEndpoint == Each(<<EndpointOf("ep-landing-platform")>>, {201, 409}, "stop", "stop")

BronzeAssets ==
  Each(<<AssetOf("file_asset_bronze"), AssetOf("platform_bronze")>>,
       {201, 409}, "continue", "stop")

BronzeActivation ==
  Each(<<Activate("file_asset_bronze", "ep-landing-platform")>>, {200, 422}, "stop", "stop")

BronzeDiscovery == Each(<<Discover("file_asset_bronze")>>, {200, 201}, "stop", "stop")

(* A refused registration is looked up by its name, and left when it is    *)
(* not there.                                                              *)
BronzePipelines ==
  Each(<<Players("Ingest_players_Platform_Bronze")>>, {201, 409, 422}, "continue", "stop")
  \o Each(<<Of("look", "Ingest_players_Platform_Bronze")>>, {200}, "continue", "stop")

Bronze == BronzeEndpoint \o BronzeAssets \o BronzeActivation \o BronzeDiscovery
          \o BronzePipelines

(* execute_bronze_pipelines.py: goes on after any answer, ends without     *)
(* one.  Its endpoint for file_asset_bronze is another one.                *)
ExecuteEndpoint ==
  Each(<<EndpointOf("platform-landing-storage")>>, {200, 201, 409}, "continue", "stop")

ExecuteAssets ==
  Each(<<AssetOf("file_asset_bronze"), AssetOf("platform_bronze"), AssetOf("platform_silver")>>,
       {200, 201, 409}, "continue", "stop")

Silver ==
  PipelineOf("Platform_Silver_ETL", "platform_bronze", {}, "platform_silver",
             {"slv_players"}, TRUE)

ExecuteTransformations == Each(<<Silver>>, {200, 201, 422}, "continue", "stop")

ExecuteActivation ==
  Each(<<Activate("file_asset_bronze", "platform-landing-storage")>>,
       {200, 201, 422}, "continue", "stop")

ExecuteDiscovery == Each(<<Discover("file_asset_bronze")>>, {200, 201}, "continue", "stop")

ExecuteRegistration ==
  Each(<<Players("Ingest_players_Platform_Bronze")>>, {200, 201, 422}, "continue", "stop")
  \o Each(<<Of("look", "Ingest_players_Platform_Bronze")>>, {200}, "continue", "stop")

(* Mutant: the trigger is tried until it succeeds.                         *)
MutantExecuteTrigger ==
  Each(<<Of("trigger", "Ingest_players_Platform_Bronze")>>, {200, 201}, "forever", "stop")

(* A missing DAG is tried again: 404 and 500 are the statuses retried.     *)
ExecuteTrigger ==
  Each(<<Of("trigger", "Ingest_players_Platform_Bronze")>>, {200, 201}, "retry", "stop")

Execute == ExecuteEndpoint \o ExecuteAssets \o ExecuteTransformations \o ExecuteActivation
           \o ExecuteDiscovery \o ExecuteRegistration \o ExecuteTrigger

(* register_transformation_pipeline.py polls a route that does not exist,  *)
(* which answers 404 for ever.                                             *)
TransformationPipelines ==
  Each(<<AssetOf("platform_silver"), Silver>>, {200, 201, 409, 422}, "continue", "stop")
  \o Each(<<Of("look", "Platform_Silver_ETL")>>, {200}, "stop", "stop")

TransformationRun ==
  Each(<<Of("trigger", "Platform_Silver_ETL")>>, {200, 201}, "stop", "stop")
  \o Each(<<[op |-> "poll"]>>, {200}, "forever", "forever")

Transformation == TransformationPipelines \o TransformationRun

(* generate_platform_dags.py writes the API's files with ids of its own.   *)
Generate ==
  Each(<<OwnFile(FileOf("Platform_Silver_ETL"), "Platform_Silver_ETL"),
         OwnFile(FileOf("Ingest_players_Platform_Bronze"), "Ingest_players_Platform_Bronze")>>,
       {201}, "stop", "stop")

(* validate_landing_files_ingestion.py works on the database itself.  Its  *)
(* source asset is named by an id: none is found.  Its pipelines are       *)
(* refused like those of the demonstration, and it stops there: the branch *)
(* for a pipeline it finds is never taken.                                 *)
ValidateAssets ==
  Each(<<[op |-> "direct", assets |-> {"transactions_csv_asset"},
          endpoint |-> "landing-filesystem"]>>, {201}, "stop", "stop")

ValidateDiscovery == Each(<<Discover("transactions_csv_asset")>>, {201}, "stop", "stop")

ValidatePipelines ==
  Each(<<Unmarked(PipelineOf("ingest_transactions_landing", "asset-transactions-csv", {"transactions"},
                             "lakehouse_bronze", {"transactions"}, FALSE))>>, {201}, "stop", "stop")

Validate == ValidateAssets \o ValidateDiscovery \o ValidatePipelines

(* A user who edits a description, and one who registers a pipeline under  *)
(* a name whose DAG file another name has, too.                            *)
Edit ==
  Each(<<[op |-> "update", asset |-> "file_asset_bronze", endpoint |-> None]>>,
       {200}, "stop", "stop")

Portal ==
  Each(<<PipelineOf("Ingest Customers Table", "postgres_asset", {"customers"},
                    "postgres_asset", {"customers"}, TRUE),
         [op |-> "update", asset |-> "postgres_asset", endpoint |-> "e2e-db-prod"]>>,
       {200, 201}, "continue", "continue")

Program(s) ==
  CASE s = "demo" -> Demo
    [] s = "e2e" -> E2e
    [] s = "bronze" -> Bronze
    [] s = "execute" -> Execute
    [] s = "transformation" -> Transformation
    [] s = "generate" -> Generate
    [] s = "validate" -> Validate
    [] s = "edit" -> Edit
    [] s = "portal" -> Portal
    [] OTHER -> <<>>

-----------------------------------------------------------------------------
(* What the scripts name is among the names considered.                    *)
ASSUME NamesAssumption ==
  /\ {"e2e-db-prod", "ep-landing-platform", "platform-landing-storage", "landing-filesystem"}
       \subseteq Endpoint
  /\ {"postgres_asset", "platform_bronze", "platform_silver", "e2e-postgres-asset",
      "file_asset_bronze", "transactions_csv_asset"} \subseteq Asset
  /\ {"customers", "sales_summary", "players", "slv_players", "transactions"} \subseteq Object
  /\ {"Ingest_Customers_Table", "Ingest Customers Table", "ETL_Sales_and_Customer_Analytics",
      "Ingest_players_Platform_Bronze", "Platform_Silver_ETL", "ingest_transactions_landing"}
       \subseteq Pipeline

Ended(c) == step[c] > Len(Program(script[c]))

Current(c) == Program(script[c])[step[c]]

Init ==
  /\ ServerInit
  /\ script \in Team
  /\ step = [c \in Client |-> 1]
  /\ tries = [c \in Client |-> 0]
  /\ failed = [c \in Client |-> FALSE]

Send(c) ==
  /\ ~Ended(c)
  /\ Request(c, Current(c).request)
  /\ UNCHANGED scriptVars

(* A request no route takes.                                               *)
NoRoute(c) ==
  /\ Received(c, "poll")
  /\ Refuse(c, 404)
  /\ UNCHANGED scriptVars

(* What the script does with a step that has not succeeded.                *)
Policy(c) == IF reply[c] = Lost THEN Current(c).orLost ELSE Current(c).orElse

Proceed(c, place, retried, ok) ==
  /\ step' = [step EXCEPT ![c] = place]
  /\ tries' = [tries EXCEPT ![c] = retried]
  /\ failed' = [failed EXCEPT ![c] = @ \/ ~ok]

(* Mutant: the attempts are not limited.                                   *)
MutantHandleAnswer(c) ==
  LET succeeded == reply[c] \in Current(c).ok IN
  /\ at[c] = "answered"
  /\ IF ~succeeded /\ Policy(c) \in {"forever", "retry"}
     THEN Proceed(c, step[c], tries[c] + 1, TRUE)
     ELSE Proceed(c, step[c] + 1, 0, succeeded)
  /\ at' = [at EXCEPT ![c] = "idle"]
  /\ call' = [call EXCEPT ![c] = NoCall]
  /\ reply' = [reply EXCEPT ![c] = Lost]
  /\ UNCHANGED <<script, dbVars, outsideVars, loaded, pending, found, faults, disturbed>>

HandleAnswer(c) ==
  LET succeeded == reply[c] \in Current(c).ok
      again == ~succeeded /\ \/ Policy(c) = "forever"
                             \/ /\ Policy(c) = "retry" /\ reply[c] \in {404, 500}
                                /\ tries[c] + 1 < MaxTries
      next == IF ~succeeded /\ Policy(c) = "stop" THEN Len(Program(script[c])) + 1
              ELSE step[c] + 1
  IN
  /\ at[c] = "answered"
  /\ \/ again /\ Policy(c) = "forever" /\ UNCHANGED <<step, tries, failed>>
     \/ again /\ Policy(c) = "retry" /\ Proceed(c, step[c], tries[c] + 1, TRUE)
     \/ ~again /\ Proceed(c, next, 0, succeeded)
  /\ at' = [at EXCEPT ![c] = "idle"]
  /\ call' = [call EXCEPT ![c] = NoCall]
  /\ reply' = [reply EXCEPT ![c] = Lost]
  /\ UNCHANGED <<script, dbVars, outsideVars, loaded, pending, found, faults, disturbed>>

Step(c) == Send(c) \/ HandleAnswer(c) \/ NoRoute(c) \/ (Serve(c) /\ UNCHANGED scriptVars)

Done == (\A c \in Client : Ended(c)) /\ UNCHANGED vars

Next == (\E c \in Client : Step(c) \/ (Cut(c) /\ UNCHANGED scriptVars)) \/ Done

Spec == Init /\ [][Next]_vars /\ \A c \in Client : WF_vars(Step(c))

-----------------------------------------------------------------------------
TypeOK ==
  /\ endpoints \subseteq Endpoint
  /\ assets \in [Asset -> Row \union {Missing}]
  /\ objects \subseteq ObjectRow
  /\ catalog \in [Asset -> Row \union {Missing}]
  /\ seeded \subseteq Endpoint
  /\ loaded \in [Client -> Row \union {Missing}]
  /\ \A c \in Client : pending[c] \subseteq ObjectRow /\ found[c] \subseteq Asset
  /\ reply \in [Client -> Reply]
  /\ faults \in 0 .. MaxFaults
  /\ disturbed \subseteq Asset
  /\ step \in [Client -> Nat] /\ tries \in [Client -> 0 .. MaxTries] /\ failed \in [Client -> BOOLEAN]

Quiet(a) == a \notin Busy

(* An asset on which no two requests overlapped and none was cut is, once  *)
(* no request is about it, the same in the catalog and the database, has   *)
(* an endpoint if it is active, and one row per object name.  Publishing   *)
(* after the commit, reading before the write and inserting rows without a *)
(* unique constraint leave all of this to the order of the requests.       *)
UndisturbedAssetsAgree ==
  \A a \in Asset \ disturbed : Quiet(a) =>
    /\ catalog[a] \in {assets[a], Missing}
    /\ catalog[a] = Missing => assets[a] = Missing \/ a \in {"transactions_csv_asset"}
    /\ assets[a].state = "active" => assets[a].endpoint # None
    /\ \A o \in Object : Cardinality(Named(a, o)) <= 1

(* The catalog never shows an asset as active that the database does not:  *)
(* activation is published after it has committed, whatever is cut.        *)
CatalogNeverAhead ==
  \A a \in Asset : catalog[a].state = "active" => assets[a].state = "active"

(* A committed pipeline is complete, whatever else ran meanwhile: its      *)
(* tables are in the warehouse, and if its destination was known each of   *)
(* its objects has a committed row that the pipeline is linked to.         *)
RegistrationIsComplete ==
  \A p \in Registered :
    LET q == pipelines[p].request IN
    /\ pipelines[p].links \subseteq objects
    /\ q.create => \A o \in q.into :
         /\ <<q.dest, o>> \in tables
         /\ q.dest \in pipelines[p].found =>
              \E r \in pipelines[p].links : r.asset = q.dest /\ r.name = o

(* A DAG file of the API's never precedes its pipeline, and a registration *)
(* that was answered has left a file, wherever requests were cut.          *)
FilesFollowPipelines ==
  /\ \A f \in files : f.id = "registered" => f.dag \in Registered /\ f.file = FileOf(f.dag)
  /\ \A c \in Client : at[c] = "answered" /\ reply[c] = 201 /\ call[c].op = "pipeline" =>
       \E f \in files : f.file = FileOf(call[c].pipeline)

(* A script that has ended without a failed step has set up what it names, *)
(* also where it took "exists already" for success.  The exception is a    *)
(* pipeline the API refuses whatever else happens: the scripts take that   *)
(* answer for "exists already", too.                                       *)
CleanPassSetsUp ==
  \A c \in Client : Ended(c) /\ ~failed[c] =>
    \A i \in DOMAIN Program(script[c]) :
      LET q == Program(script[c])[i].request IN
      /\ q.op = "endpoint" => q.endpoint \in endpoints
      /\ q.op \in {"asset", "discover"} => assets[q.asset] # Missing
      /\ q.op = "activate" => assets[q.asset].state = "active"
      /\ q.op = "pipeline" /\ ~q.unmarked => q.pipeline \in Registered
      /\ q.op = "trigger" => q.pipeline \in Registered

(* No request takes an active asset back to draft, however old the row it  *)
(* has loaded.                                                             *)
StateOnlyAdvances ==
  [][\A a \in Asset : assets[a].state = "active" => assets'[a].state = "active"]_vars

(* Every script ends, but the one that polls a route that does not exist.  *)
ScriptsEnd ==
  \A c \in Client : script[c] # "transformation" => <>Ended(c)
=============================================================================
