------------------------- MODULE RegistrationProofs -------------------------
(***************************************************************************)
(* Theorems about SetupScripts, for every set of clients, assets, pipelines*)
(* and scripts and every number of cut requests.  Most of the arguments are*)
(* about Registration, whatever the scripts ask for; the types and what a  *)
(* clean pass sets up rest on what the scripts are written with, so each   *)
(* script is shown to be a sequence of well formed steps.                  *)
(***************************************************************************)
EXTENDS SetupScripts, SequenceTheorems, FiniteSetTheorems, TLAPS

IsFunction(f, S) == f = [x \in S |-> f[x]]

(* The variables that are written at one place are functions.              *)
Shape ==
  /\ IsFunction(assets, Asset) /\ IsFunction(catalog, Asset)
  /\ IsFunction(pipelines, Pipeline)
  /\ IsFunction(at, Client) /\ IsFunction(call, Client) /\ IsFunction(loaded, Client)
  /\ IsFunction(pending, Client) /\ IsFunction(found, Client) /\ IsFunction(reply, Client)

(* At the start the variables are functions.                               *)
LEMMA InitShape == Init => Shape
BY DEF Init, ServerInit, Shape, IsFunction

(* A step only changes their values.                                       *)
LEMMA StepShape == Shape /\ [Next]_vars => Shape'
<1> SUFFICES ASSUME Shape, [Next]_vars PROVE Shape'
  OBVIOUS
<1> USE DEF Shape, IsFunction
<1>1. ASSUME NEW c \in Client, Send(c) PROVE Shape'
  BY <1>1 DEF Send, Request, serverVars, dbVars, outsideVars, requestVars
<1>2. ASSUME NEW c \in Client, HandleAnswer(c) PROVE Shape'
  BY <1>2 DEF HandleAnswer, dbVars, outsideVars
<1>3. ASSUME NEW c \in Client, NoRoute(c) PROVE Shape'
  BY <1>3 DEF NoRoute, Refuse, Answer, dbVars, outsideVars
<1>4. ASSUME NEW c \in Client, Cut(c) PROVE Shape'
  BY <1>4 DEF Cut, Answer, dbVars, outsideVars
<1>5. ASSUME NEW c \in Client, Serve(c) PROVE Shape'
  <2> USE DEF Refuse, Answer, Goto, dbVars, outsideVars
  <2>1. CASE RegisterEndpoint(c) \/ RegisterAsset(c)
    BY <2>1 DEF RegisterEndpoint, RegisterAsset
  <2>2. CASE LoadForActivation(c) \/ LoadForUpdate(c)
    BY <2>2 DEF LoadForActivation, LoadForUpdate
  <2>3. CASE CommitActivation(c) \/ CommitUpdate(c)
    BY <2>3 DEF CommitActivation, CommitUpdate, CommitAsset
  <2>4. CASE PublishAsset(c)
    BY <2>4 DEF PublishAsset
  <2>5. CASE SeedSource(c) \/ StartDiscovery(c) \/ CommitDiscovery(c)
    BY <2>5 DEF SeedSource, StartDiscovery, CommitDiscovery
  <2>6. CASE FindPipeline(c) \/ InsertPipeline(c) \/ ProvisionPipeline(c)
    BY <2>6 DEF FindPipeline, InsertPipeline, ProvisionPipeline
  <2>7. CASE CommitPipeline(c)
    BY <2>7 DEF CommitPipeline
  <2>8. CASE WriteDagFile(c) \/ WriteOwnDagFile(c) \/ TriggerRun(c) \/ LookUpPipeline(c)
    BY <2>8 DEF WriteDagFile, WriteOwnDagFile, TriggerRun, LookUpPipeline
  <2>9. CASE FindDirect(c) \/ CommitDirect(c)
    BY <2>9 DEF FindDirect, CommitDirect
  <2> QED BY <1>5, <2>1, <2>2, <2>3, <2>4, <2>5, <2>6, <2>7, <2>8, <2>9 DEF Serve
<1>6. ASSUME UNCHANGED vars PROVE Shape'
  BY <1>6 DEF vars, serverVars, dbVars, outsideVars, requestVars
<1> QED BY <1>1, <1>2, <1>3, <1>4, <1>5, <1>6 DEF Next, Step, Done

(* The variables that the API and the scripts write one place of are       *)
(* functions at all times.                                                 *)
THEOREM Shapes == Spec => []Shape
<1> QED BY InitShape, StepShape, PTL DEF Spec

-----------------------------------------------------------------------------
(* Rows only advance, and the catalog follows.                             *)

(* What a request has loaded or committed as active is active in the       *)
(* database: nothing takes it back.                                        *)
LoadedIsBehind ==
  \A c \in Client :
    at[c] \in {"loaded", "committed"} /\ call[c].asset \in Asset
      /\ loaded[c].state = "active" => assets[call[c].asset].state = "active"

ActiveStays == \A a \in Asset : assets[a].state = "active" => assets'[a].state = "active"

(* No request takes an active asset back to draft.                         *)
LEMMA StepActiveStays == Shape /\ [Next]_vars => ActiveStays
<1> SUFFICES ASSUME Shape, [Next]_vars PROVE ActiveStays
  OBVIOUS
<1> USE DEF Shape, IsFunction, ActiveStays
<1>1. ASSUME NEW c \in Client, RegisterAsset(c) PROVE ActiveStays
  BY <1>1 DEF RegisterAsset, Refuse, Missing, None, dbVars
<1>2. ASSUME NEW c \in Client, CommitActivation(c) \/ CommitUpdate(c) PROVE ActiveStays
  BY <1>2 DEF CommitActivation, CommitUpdate, CommitAsset
<1>3. ASSUME NEW c \in Client, CommitDirect(c) PROVE ActiveStays
  BY <1>3 DEF CommitDirect, Refuse, dbVars
<1>4. ASSUME UNCHANGED assets PROVE ActiveStays
  BY <1>4
<1>5. ASSUME NEW c \in Client, Serve(c)
      PROVE \/ RegisterAsset(c) \/ CommitActivation(c) \/ CommitUpdate(c) \/ CommitDirect(c)
            \/ UNCHANGED assets
  BY <1>5 DEF Serve, RegisterEndpoint, LoadForActivation, LoadForUpdate, PublishAsset,
       SeedSource, StartDiscovery, CommitDiscovery, FindPipeline, InsertPipeline,
       ProvisionPipeline, CommitPipeline, WriteDagFile, FindDirect, WriteOwnDagFile,
       TriggerRun, LookUpPipeline, Refuse, dbVars
<1>6. ASSUME NEW c \in Client, Send(c) \/ HandleAnswer(c) \/ NoRoute(c) \/ Cut(c)
      PROVE UNCHANGED assets
  BY <1>6 DEF Send, Request, HandleAnswer, NoRoute, Cut, Refuse, dbVars
<1>7. ASSUME UNCHANGED vars PROVE UNCHANGED assets
  BY <1>7 DEF vars, serverVars, dbVars
<1> QED BY <1>1, <1>2, <1>3, <1>4, <1>5, <1>6, <1>7 DEF Next, Step, Done

(* StateOnlyAdvances: no request, however old the row it loaded, takes an  *)
(* active asset back.                                                      *)
THEOREM ActiveAssetsStay == Spec => StateOnlyAdvances
<1>1. Shape /\ [Next]_vars => [ActiveStays]_vars
  BY StepActiveStays
<1> QED BY <1>1, Shapes, PTL DEF Spec, StateOnlyAdvances, ActiveStays

(* What was loaded as active stays active while the request goes on.       *)
LEMMA StepLoaded == Shape /\ LoadedIsBehind /\ [Next]_vars => LoadedIsBehind'
<1> SUFFICES ASSUME Shape, LoadedIsBehind, [Next]_vars PROVE LoadedIsBehind'
  OBVIOUS
<1>0. ActiveStays
  BY StepActiveStays
<1> USE DEF Shape, IsFunction, ActiveStays, LoadedIsBehind
<1>1. ASSUME NEW c \in Client, Send(c) PROVE LoadedIsBehind'
  BY <1>1 DEF Send, Request, dbVars
<1>2. ASSUME NEW c \in Client, HandleAnswer(c) PROVE LoadedIsBehind'
  BY <1>2 DEF HandleAnswer, dbVars
<1>3. ASSUME NEW c \in Client, NoRoute(c) \/ Cut(c) PROVE LoadedIsBehind'
  BY <1>3 DEF NoRoute, Cut, Refuse, Answer, dbVars
<1>4. ASSUME NEW c \in Client, Serve(c) PROVE LoadedIsBehind'
  <2> USE DEF Refuse, Answer, Goto, dbVars
  <2>1. CASE RegisterEndpoint(c) \/ RegisterAsset(c)
    BY <1>0, <2>1 DEF RegisterEndpoint, RegisterAsset, New
  <2>2. CASE LoadForActivation(c) \/ LoadForUpdate(c)
    BY <2>2 DEF LoadForActivation, LoadForUpdate
  <2>3. CASE CommitActivation(c) \/ CommitUpdate(c)
    BY <1>0, <2>3 DEF CommitActivation, CommitUpdate, CommitAsset
  <2>4. CASE PublishAsset(c)
    BY <2>4 DEF PublishAsset
  <2>5. CASE SeedSource(c) \/ StartDiscovery(c) \/ CommitDiscovery(c)
    BY <2>5 DEF SeedSource, StartDiscovery, CommitDiscovery
  <2>6. CASE FindPipeline(c) \/ InsertPipeline(c) \/ ProvisionPipeline(c)
    BY <2>6 DEF FindPipeline, InsertPipeline, ProvisionPipeline
  <2>7. CASE CommitPipeline(c)
    BY <2>7 DEF CommitPipeline
  <2>8. CASE WriteDagFile(c) \/ WriteOwnDagFile(c) \/ TriggerRun(c) \/ LookUpPipeline(c)
    BY <2>8 DEF WriteDagFile, WriteOwnDagFile, TriggerRun, LookUpPipeline
  <2>9. CASE FindDirect(c) \/ CommitDirect(c)
    BY <1>0, <2>9 DEF FindDirect, CommitDirect
  <2> QED BY <1>4, <2>1, <2>2, <2>3, <2>4, <2>5, <2>6, <2>7, <2>8, <2>9 DEF Serve
<1>5. ASSUME UNCHANGED vars PROVE LoadedIsBehind'
  BY <1>5 DEF vars, serverVars, dbVars, requestVars
<1> QED BY <1>1, <1>2, <1>3, <1>4, <1>5 DEF Next, Step, Done

(* Only a request that has committed publishes, and what it publishes was  *)
(* committed.                                                              *)
LEMMA StepCatalog ==
  Shape /\ LoadedIsBehind /\ CatalogNeverAhead /\ [Next]_vars => CatalogNeverAhead'
<1> SUFFICES ASSUME Shape, LoadedIsBehind, CatalogNeverAhead, [Next]_vars
             PROVE CatalogNeverAhead'
  OBVIOUS
<1>0. ActiveStays
  BY StepActiveStays
<1> USE DEF Shape, IsFunction, ActiveStays, LoadedIsBehind, CatalogNeverAhead
<1>1. ASSUME NEW c \in Client, PublishAsset(c) PROVE CatalogNeverAhead'
  BY <1>1 DEF PublishAsset, dbVars
<1>2. ASSUME UNCHANGED catalog PROVE CatalogNeverAhead'
  BY <1>0, <1>2
<1>3. ASSUME NEW c \in Client, Serve(c) PROVE PublishAsset(c) \/ UNCHANGED catalog
  BY <1>3 DEF Serve, RegisterEndpoint, RegisterAsset, LoadForActivation, CommitActivation,
       LoadForUpdate, CommitUpdate, CommitAsset, SeedSource, StartDiscovery, CommitDiscovery,
       FindPipeline, InsertPipeline, ProvisionPipeline, CommitPipeline, WriteDagFile,
       FindDirect, CommitDirect, WriteOwnDagFile, TriggerRun, LookUpPipeline, Refuse, outsideVars
<1>4. ASSUME NEW c \in Client, Send(c) \/ HandleAnswer(c) \/ NoRoute(c) \/ Cut(c)
      PROVE UNCHANGED catalog
  BY <1>4 DEF Send, Request, HandleAnswer, NoRoute, Cut, Refuse, outsideVars
<1>5. ASSUME UNCHANGED vars PROVE UNCHANGED catalog
  BY <1>5 DEF vars, serverVars, outsideVars
<1> QED BY <1>1, <1>2, <1>3, <1>4, <1>5 DEF Next, Step, Done

(* CatalogNeverAhead: an asset the catalog shows as active is active in    *)
(* the database, whatever overlaps or is cut.                              *)
THEOREM CatalogFollows == Spec => []CatalogNeverAhead
<1>1. Init => LoadedIsBehind /\ CatalogNeverAhead
  BY DEF Init, ServerInit, LoadedIsBehind, CatalogNeverAhead, Missing, None
<1> QED BY <1>1, Shapes, StepLoaded, StepCatalog, PTL DEF Spec

-----------------------------------------------------------------------------
(* What the scripts are written with.                                      *)

(* What a script may ask for, and what it may make of the answer.          *)
Names == Asset \union {"dwh_lakehouse", "e2e_postgres_asset", "lakehouse_bronze",
                       "asset-transactions-csv"}
PipelineRequest ==
  [op : {"pipeline"}, pipeline : Pipeline, source : Names, from : SUBSET Object,
   dest : Names, into : SUBSET Object, create : BOOLEAN, unmarked : BOOLEAN]
Asked ==
  [op : {"endpoint", "seed"}, endpoint : Endpoint]
  \union [op : {"asset", "discover"}, asset : Asset]
  \union [op : {"activate"}, asset : Asset, endpoint : Endpoint]
  \union [op : {"update"}, asset : Asset, endpoint : Endpoint \union {None}]
  \union [op : {"direct"}, assets : {{"transactions_csv_asset"}}, endpoint : Endpoint]
  \union PipelineRequest
  \union [op : {"file"}, file : {FileOf(p) : p \in Pipeline} \union {"dag_p_ingest_customers"},
          pipeline : Pipeline]
  \union [op : {"look", "trigger"}, pipeline : Pipeline]
  \union [op : {"poll"}]
Taken == {200, 201, 409, 422}
Policies == {"continue", "stop", "retry", "forever"}
ScriptStep == [request : Asked, ok : SUBSET Taken, orElse : Policies, orLost : Policies]

(* The requests that the scripts are written with.                         *)
LEMMA SmallRequests ==
  /\ \A e \in Endpoint : EndpointOf(e) \in Asked /\ Seed(e) \in Asked
  /\ \A a \in Asset : AssetOf(a) \in Asked /\ Discover(a) \in Asked
  /\ \A a \in Asset, e \in Endpoint : Activate(a, e) \in Asked
BY DEF EndpointOf, Seed, AssetOf, Discover, Activate, Asked

(* The requests about a pipeline's DAG file, its name and its runs.        *)
LEMMA FileRequests ==
  ASSUME NEW p \in Pipeline
  PROVE  /\ OwnFile(FileOf(p), p) \in Asked /\ OwnFile("dag_p_ingest_customers", p) \in Asked
         /\ Of("look", p) \in Asked /\ Of("trigger", p) \in Asked
BY DEF OwnFile, Of, Asked

(* An update, a script's own unit of work, and the poll.                   *)
LEMMA OtherRequests ==
  /\ \A a \in Asset, e \in Endpoint \union {None} :
       [op |-> "update", asset |-> a, endpoint |-> e] \in Asked
  /\ \A e \in Endpoint :
       [op |-> "direct", assets |-> {"transactions_csv_asset"}, endpoint |-> e] \in Asked
  /\ [op |-> "poll"] \in Asked
BY DEF Asked

(* The registration of a pipeline, with or without watermark columns.      *)
LEMMA PipelineRequests ==
  ASSUME NEW p \in Pipeline, NEW source \in Names, NEW from \in SUBSET Object,
         NEW dest \in Names, NEW into \in SUBSET Object, NEW create \in BOOLEAN
  PROVE  /\ PipelineOf(p, source, from, dest, into, create) \in PipelineRequest
         /\ Unmarked(PipelineOf(p, source, from, dest, into, create)) \in PipelineRequest
         /\ PipelineRequest \subseteq Asked
BY DEF PipelineOf, Unmarked, PipelineRequest, Asked

(* Well formed requests give well formed steps.                            *)
LEMMA EachIsSteps ==
  ASSUME NEW requests \in Seq(Asked), NEW ok \in SUBSET Taken,
         NEW orElse \in Policies, NEW orLost \in Policies
  PROVE  Each(requests, ok, orElse, orLost) \in Seq(ScriptStep)
<1>1. Len(requests) \in Nat /\ DOMAIN requests = 1 .. Len(requests)
      /\ \A i \in 1 .. Len(requests) : requests[i] \in Asked
  BY LenProperties, ElementOfSeq
<1>2. Each(requests, ok, orElse, orLost) \in [1 .. Len(requests) -> ScriptStep]
  BY <1>1 DEF Each, ScriptStep
<1>3. QED BY <1>1, <1>2, SeqDef

(* A sequence of one step.                                                 *)
LEMMA OneStep ==
  ASSUME NEW q \in Asked,
         NEW ok \in SUBSET Taken, NEW orElse \in Policies, NEW orLost \in Policies
  PROVE  Each(<<q>>, ok, orElse, orLost) \in Seq(ScriptStep)
<1> DEFINE requests == <<q>>
<1>1. requests \in Seq(Asked)
  OBVIOUS
<1> HIDE DEF requests
<1>2. Each(requests, ok, orElse, orLost) \in Seq(ScriptStep)
  BY <1>1, EachIsSteps
<1>3. QED BY <1>2 DEF requests

(* A sequence of two steps.                                                *)
LEMMA TwoSteps ==
  ASSUME NEW q \in Asked, NEW r \in Asked,
         NEW ok \in SUBSET Taken, NEW orElse \in Policies, NEW orLost \in Policies
  PROVE  Each(<<q, r>>, ok, orElse, orLost) \in Seq(ScriptStep)
<1> DEFINE requests == <<q, r>>
<1>1. requests \in Seq(Asked)
  OBVIOUS
<1> HIDE DEF requests
<1>2. Each(requests, ok, orElse, orLost) \in Seq(ScriptStep)
  BY <1>1, EachIsSteps
<1>3. QED BY <1>2 DEF requests

(* A sequence of three steps.                                              *)
LEMMA ThreeSteps ==
  ASSUME NEW q \in Asked, NEW r \in Asked, NEW s \in Asked,
         NEW ok \in SUBSET Taken, NEW orElse \in Policies, NEW orLost \in Policies
  PROVE  Each(<<q, r, s>>, ok, orElse, orLost) \in Seq(ScriptStep)
<1> DEFINE requests == <<q, r, s>>
<1>1. requests \in Seq(Asked)
  OBVIOUS
<1> HIDE DEF requests
<1>2. Each(requests, ok, orElse, orLost) \in Seq(ScriptStep)
  BY <1>1, EachIsSteps
<1>3. QED BY <1>2 DEF requests

(* The statuses and policies the scripts are written with.                 *)
LEMMA Choices ==
  /\ "continue" \in Policies /\ "stop" \in Policies
  /\ "retry" \in Policies /\ "forever" \in Policies
  /\ {200} \in SUBSET Taken /\ {201} \in SUBSET Taken
  /\ {200, 201} \in SUBSET Taken /\ {200, 422} \in SUBSET Taken
  /\ {201, 409} \in SUBSET Taken /\ {201, 422} \in SUBSET Taken
  /\ {200, 201, 409} \in SUBSET Taken /\ {200, 201, 422} \in SUBSET Taken
  /\ {201, 409, 422} \in SUBSET Taken /\ {200, 201, 409, 422} \in SUBSET Taken
BY DEF Policies, Taken

(* Parts of a script, one after the other.                                 *)
LEMMA Joined ==
  \A s \in Seq(ScriptStep), t \in Seq(ScriptStep) : s \o t \in Seq(ScriptStep)
BY ConcatProperties

(* seed_demo_environment.py.                                               *)
LEMMA DemoSteps == Demo \in Seq(ScriptStep)
<1>1. DemoSource \in Seq(ScriptStep)
  <2>1. Seed("e2e-db-prod") \in Asked
    BY SmallRequests, NamesAssumption
  <2>2. QED BY <2>1, OneStep, Choices DEF DemoSource
<1>2. DemoEndpoints \in Seq(ScriptStep)
  <2>1. EndpointOf("e2e-db-prod") \in Asked
    BY SmallRequests, NamesAssumption
  <2>2. QED BY <2>1, OneStep, Choices DEF DemoEndpoints
<1>3. DemoAssets \in Seq(ScriptStep)
  <2>1. /\ AssetOf("postgres_asset") \in Asked
        /\ AssetOf("platform_bronze") \in Asked
    BY SmallRequests, NamesAssumption
  <2>2. QED BY <2>1, TwoSteps, Choices DEF DemoAssets
<1>4. DemoActivation \in Seq(ScriptStep)
  <2>1. /\ Activate("postgres_asset", "e2e-db-prod") \in Asked
        /\ Activate("platform_bronze", "e2e-db-prod") \in Asked
    BY SmallRequests, NamesAssumption
  <2>2. QED BY <2>1, TwoSteps, Choices DEF DemoActivation
<1>5. DemoDiscovery \in Seq(ScriptStep)
  <2>1. /\ Discover("postgres_asset") \in Asked
        /\ Discover("platform_bronze") \in Asked
    BY SmallRequests, NamesAssumption
  <2>2. QED BY <2>1, TwoSteps, Choices DEF DemoDiscovery
<1>6. DemoPipelines \in Seq(ScriptStep)
  <2> DEFINE p1 == PipelineOf("Ingest_Customers_Table", "postgres_asset", {"customers"},
                              "postgres_asset", {"customers"}, TRUE)
             p2 == PipelineOf("ETL_Sales_and_Customer_Analytics", "dwh_lakehouse",
                              {"sales_summary"}, "dwh_lakehouse", {"sales_summary"}, TRUE)
  <2>1. Unmarked(p1) \in Asked /\ Unmarked(p2) \in Asked
    <3>1. {"postgres_asset", "dwh_lakehouse"} \subseteq Names
          /\ {"customers"} \in SUBSET Object /\ {"sales_summary"} \in SUBSET Object
          /\ {"Ingest_Customers_Table", "ETL_Sales_and_Customer_Analytics"} \subseteq Pipeline
      BY NamesAssumption DEF Names
    <3>2. Unmarked(p1) \in Asked
      BY <3>1, PipelineRequests
    <3>3. Unmarked(p2) \in Asked
      BY <3>1, PipelineRequests
    <3>4. QED BY <3>2, <3>3
  <2>2. DemoPipelineSpecs = <<p1, p2>>
    BY DEF DemoPipelineSpecs
  <2> HIDE DEF p1, p2
  <2>3. [i \in DOMAIN DemoPipelineSpecs |-> Unmarked(DemoPipelineSpecs[i])]
          = <<Unmarked(p1), Unmarked(p2)>>
    BY <2>2
  <2>4. QED BY <2>1, <2>3, TwoSteps, Choices DEF DemoPipelines
<1>7. DemoDags \in Seq(ScriptStep)
  <2>1. OwnFile("dag_p_ingest_customers", "Ingest_Customers_Table") \in Asked
    BY FileRequests, NamesAssumption
  <2>2. QED BY <2>1, OneStep, Choices DEF DemoDags
<1>8. QED BY <1>1, <1>2, <1>3, <1>4, <1>5, <1>6, <1>7, Joined DEF Demo

(* seed_e2e_platform.py.                                                   *)
LEMMA E2eSteps == E2e \in Seq(ScriptStep)
<1>1. E2eSource \in Seq(ScriptStep)
  <2>1. Seed("e2e-db-prod") \in Asked
    BY SmallRequests, NamesAssumption
  <2>2. QED BY <2>1, OneStep, Choices DEF E2eSource
<1>2. E2eEndpoints \in Seq(ScriptStep)
  <2>1. EndpointOf("e2e-db-prod") \in Asked
    BY SmallRequests, NamesAssumption
  <2>2. QED BY <2>1, OneStep, Choices DEF E2eEndpoints
<1>3. E2eAssets \in Seq(ScriptStep)
  <2>1. AssetOf("e2e-postgres-asset") \in Asked
    BY SmallRequests, NamesAssumption
  <2>2. QED BY <2>1, OneStep, Choices DEF E2eAssets
<1>4. E2eActivation \in Seq(ScriptStep)
  <2>1. Activate("e2e-postgres-asset", "e2e-db-prod") \in Asked
    BY SmallRequests, NamesAssumption
  <2>2. QED BY <2>1, OneStep, Choices DEF E2eActivation
<1>5. E2eDiscovery \in Seq(ScriptStep)
  <2>1. Discover("e2e-postgres-asset") \in Asked
    BY SmallRequests, NamesAssumption
  <2>2. QED BY <2>1, OneStep, Choices DEF E2eDiscovery
<1>6. E2ePipelines \in Seq(ScriptStep)
  <2> DEFINE p == PipelineOf("Ingest_Customers_Table", "e2e-postgres-asset", {"customers"},
                             "e2e_postgres_asset", {"customers"}, TRUE)
  <2>1. p \in Asked
    <3>1. /\ {"e2e-postgres-asset", "e2e_postgres_asset"} \subseteq Names
          /\ {"customers"} \in SUBSET Object /\ "Ingest_Customers_Table" \in Pipeline
      BY NamesAssumption DEF Names
    <3>2. QED BY <3>1, PipelineRequests
  <2> HIDE DEF p
  <2>2. Each(<<p>>, {201, 422}, "continue", "continue") \in Seq(ScriptStep)
    BY <2>1, OneStep, Choices
  <2>3. QED BY <2>2 DEF E2ePipelines, p
<1>7. QED BY <1>1, <1>2, <1>3, <1>4, <1>5, <1>6, Joined DEF E2e

(* Both scripts that ingest players register the same pipeline.            *)
LEMMA PlayersRequest == Players("Ingest_players_Platform_Bronze") \in Asked
<1>1. /\ {"file_asset_bronze", "platform_bronze"} \subseteq Names
      /\ {"players"} \in SUBSET Object /\ "Ingest_players_Platform_Bronze" \in Pipeline
  BY NamesAssumption DEF Names
<1>2. QED BY <1>1, PipelineRequests DEF Players

(* And both that transform them register the same transformation.          *)
LEMMA SilverRequest == Silver \in Asked
<1>1. /\ {"platform_bronze", "platform_silver"} \subseteq Names
      /\ {"slv_players"} \in SUBSET Object /\ {} \in SUBSET Object
      /\ "Platform_Silver_ETL" \in Pipeline
  BY NamesAssumption DEF Names
<1>2. QED BY <1>1, PipelineRequests DEF Silver

(* register_and_run_bronze.py.                                             *)
LEMMA BronzeSteps == Bronze \in Seq(ScriptStep)
<1>1. BronzeEndpoint \in Seq(ScriptStep)
  <2>1. EndpointOf("ep-landing-platform") \in Asked
    BY SmallRequests, NamesAssumption
  <2>2. QED BY <2>1, OneStep, Choices DEF BronzeEndpoint
<1>2. BronzeAssets \in Seq(ScriptStep)
  <2>1. /\ AssetOf("file_asset_bronze") \in Asked
        /\ AssetOf("platform_bronze") \in Asked
    BY SmallRequests, NamesAssumption
  <2>2. QED BY <2>1, TwoSteps, Choices DEF BronzeAssets
<1>3. BronzeActivation \in Seq(ScriptStep)
  <2>1. Activate("file_asset_bronze", "ep-landing-platform") \in Asked
    BY SmallRequests, NamesAssumption
  <2>2. QED BY <2>1, OneStep, Choices DEF BronzeActivation
<1>4. BronzeDiscovery \in Seq(ScriptStep)
  <2>1. Discover("file_asset_bronze") \in Asked
    BY SmallRequests, NamesAssumption
  <2>2. QED BY <2>1, OneStep, Choices DEF BronzeDiscovery
<1>5. BronzePipelines \in Seq(ScriptStep)
  <2>1. /\ Players("Ingest_players_Platform_Bronze") \in Asked
        /\ Of("look", "Ingest_players_Platform_Bronze") \in Asked
    BY PlayersRequest, FileRequests, NamesAssumption
  <2>2. Each(<<Players("Ingest_players_Platform_Bronze")>>, {201, 409, 422}, "continue", "stop")
          \in Seq(ScriptStep)
    BY <2>1, OneStep, Choices
  <2>3. Each(<<Of("look", "Ingest_players_Platform_Bronze")>>, {200}, "continue", "stop")
          \in Seq(ScriptStep)
    BY <2>1, OneStep, Choices
  <2>4. QED BY <2>2, <2>3, Joined DEF BronzePipelines
<1>6. QED BY <1>1, <1>2, <1>3, <1>4, <1>5, Joined DEF Bronze

(* execute_bronze_pipelines.py.                                            *)
LEMMA ExecuteSteps == Execute \in Seq(ScriptStep)
<1>1. ExecuteEndpoint \in Seq(ScriptStep)
  <2>1. EndpointOf("platform-landing-storage") \in Asked
    BY SmallRequests, NamesAssumption
  <2>2. QED BY <2>1, OneStep, Choices DEF ExecuteEndpoint
<1>2. ExecuteAssets \in Seq(ScriptStep)
  <2>1. /\ AssetOf("file_asset_bronze") \in Asked
        /\ AssetOf("platform_bronze") \in Asked
        /\ AssetOf("platform_silver") \in Asked
    BY SmallRequests, NamesAssumption
  <2>2. QED BY <2>1, ThreeSteps, Choices DEF ExecuteAssets
<1>3. ExecuteTransformations \in Seq(ScriptStep)
  <2>1. Silver \in Asked
    BY SilverRequest, NamesAssumption
  <2>2. QED BY <2>1, OneStep, Choices DEF ExecuteTransformations
<1>4. ExecuteActivation \in Seq(ScriptStep)
  <2>1. Activate("file_asset_bronze", "platform-landing-storage") \in Asked
    BY SmallRequests, NamesAssumption
  <2>2. QED BY <2>1, OneStep, Choices DEF ExecuteActivation
<1>5. ExecuteDiscovery \in Seq(ScriptStep)
  <2>1. Discover("file_asset_bronze") \in Asked
    BY SmallRequests, NamesAssumption
  <2>2. QED BY <2>1, OneStep, Choices DEF ExecuteDiscovery
<1>6. ExecuteRegistration \in Seq(ScriptStep)
  <2>1. /\ Players("Ingest_players_Platform_Bronze") \in Asked
        /\ Of("look", "Ingest_players_Platform_Bronze") \in Asked
    BY PlayersRequest, FileRequests, NamesAssumption
  <2>2. Each(<<Players("Ingest_players_Platform_Bronze")>>, {200, 201, 422}, "continue", "stop")
          \in Seq(ScriptStep)
    BY <2>1, OneStep, Choices
  <2>3. Each(<<Of("look", "Ingest_players_Platform_Bronze")>>, {200}, "continue", "stop")
          \in Seq(ScriptStep)
    BY <2>1, OneStep, Choices
  <2>4. QED BY <2>2, <2>3, Joined DEF ExecuteRegistration
<1>7. ExecuteTrigger \in Seq(ScriptStep)
  <2>1. Of("trigger", "Ingest_players_Platform_Bronze") \in Asked
    BY FileRequests, NamesAssumption
  <2>2. QED BY <2>1, OneStep, Choices DEF ExecuteTrigger
<1>8. QED BY <1>1, <1>2, <1>3, <1>4, <1>5, <1>6, <1>7, Joined DEF Execute

(* register_transformation_pipeline.py.                                    *)
LEMMA TransformationSteps == Transformation \in Seq(ScriptStep)
<1>1. TransformationPipelines \in Seq(ScriptStep)
  <2>1. AssetOf("platform_silver") \in Asked /\ Of("look", "Platform_Silver_ETL") \in Asked
    BY SmallRequests, FileRequests, NamesAssumption
  <2>2. Each(<<AssetOf("platform_silver"), Silver>>, {200, 201, 409, 422}, "continue", "stop")
          \in Seq(ScriptStep)
    BY <2>1, SilverRequest, TwoSteps, Choices
  <2>3. Each(<<Of("look", "Platform_Silver_ETL")>>, {200}, "stop", "stop") \in Seq(ScriptStep)
    BY <2>1, OneStep, Choices
  <2>4. QED BY <2>2, <2>3, Joined DEF TransformationPipelines
<1>2. TransformationRun \in Seq(ScriptStep)
  <2>1. Of("trigger", "Platform_Silver_ETL") \in Asked
    BY FileRequests, NamesAssumption
  <2>2. Each(<<Of("trigger", "Platform_Silver_ETL")>>, {200, 201}, "stop", "stop")
          \in Seq(ScriptStep)
    BY <2>1, OneStep, Choices
  <2>3. Each(<<[op |-> "poll"]>>, {200}, "forever", "forever") \in Seq(ScriptStep)
    BY OtherRequests, OneStep, Choices
  <2>4. QED BY <2>2, <2>3, Joined DEF TransformationRun
<1>3. QED BY <1>1, <1>2, Joined DEF Transformation

(* generate_platform_dags.py.                                              *)
LEMMA GenerateSteps == Generate \in Seq(ScriptStep)
<1>1. /\ OwnFile(FileOf("Platform_Silver_ETL"), "Platform_Silver_ETL") \in Asked
      /\ OwnFile(FileOf("Ingest_players_Platform_Bronze"), "Ingest_players_Platform_Bronze")
           \in Asked
  BY FileRequests, NamesAssumption
<1>2. QED BY <1>1, TwoSteps, Choices DEF Generate

(* validate_landing_files_ingestion.py.                                    *)
LEMMA ValidateSteps == Validate \in Seq(ScriptStep)
<1>1. ValidateAssets \in Seq(ScriptStep)
  <2> DEFINE q == [op |-> "direct", assets |-> {"transactions_csv_asset"},
                   endpoint |-> "landing-filesystem"]
  <2>1. q \in Asked
    BY OtherRequests, NamesAssumption
  <2> HIDE DEF q
  <2>2. Each(<<q>>, {201}, "stop", "stop") \in Seq(ScriptStep)
    BY <2>1, OneStep, Choices
  <2>3. QED BY <2>2 DEF ValidateAssets, q
<1>2. ValidateDiscovery \in Seq(ScriptStep)
  <2>1. Discover("transactions_csv_asset") \in Asked
    BY SmallRequests, NamesAssumption
  <2>2. QED BY <2>1, OneStep, Choices DEF ValidateDiscovery
<1>3. ValidatePipelines \in Seq(ScriptStep)
  <2> DEFINE p == PipelineOf("ingest_transactions_landing", "asset-transactions-csv",
                             {"transactions"}, "lakehouse_bronze", {"transactions"}, FALSE)
  <2>1. Unmarked(p) \in Asked
    <3>1. /\ {"asset-transactions-csv", "lakehouse_bronze"} \subseteq Names
          /\ {"transactions"} \in SUBSET Object /\ "ingest_transactions_landing" \in Pipeline
      BY NamesAssumption DEF Names
    <3>2. QED BY <3>1, PipelineRequests
  <2> HIDE DEF p
  <2>2. Each(<<Unmarked(p)>>, {201}, "stop", "stop") \in Seq(ScriptStep)
    BY <2>1, OneStep, Choices
  <2>3. QED BY <2>2 DEF ValidatePipelines, p
<1>4. QED BY <1>1, <1>2, <1>3, Joined DEF Validate

(* The two users of the portal.                                            *)
LEMMA UserSteps == Edit \in Seq(ScriptStep) /\ Portal \in Seq(ScriptStep)
<1>1. Edit \in Seq(ScriptStep)
  <2> DEFINE q == [op |-> "update", asset |-> "file_asset_bronze", endpoint |-> None]
  <2>1. q \in Asked
    BY OtherRequests, NamesAssumption
  <2> HIDE DEF q
  <2>2. Each(<<q>>, {200}, "stop", "stop") \in Seq(ScriptStep)
    BY <2>1, OneStep, Choices
  <2>3. QED BY <2>2 DEF Edit, q
<1>2. Portal \in Seq(ScriptStep)
  <2> DEFINE p == PipelineOf("Ingest Customers Table", "postgres_asset", {"customers"},
                             "postgres_asset", {"customers"}, TRUE)
             q == [op |-> "update", asset |-> "postgres_asset", endpoint |-> "e2e-db-prod"]
  <2>1. p \in Asked
    <3>1. /\ "postgres_asset" \in Names /\ {"customers"} \in SUBSET Object
          /\ "Ingest Customers Table" \in Pipeline
      BY NamesAssumption DEF Names
    <3>2. QED BY <3>1, PipelineRequests
  <2>2. q \in Asked
    BY OtherRequests, NamesAssumption
  <2> HIDE DEF p, q
  <2>3. Each(<<p, q>>, {200, 201}, "continue", "continue") \in Seq(ScriptStep)
    BY <2>1, <2>2, TwoSteps, Choices
  <2>4. QED BY <2>3 DEF Portal, p, q
<1>3. QED BY <1>1, <1>2

(* Every script is a sequence of such steps.                               *)
LEMMA ProgramsAreSteps == ASSUME NEW s PROVE Program(s) \in Seq(ScriptStep)
<1>1. <<>> \in Seq(ScriptStep)
  BY EmptySeq
<1>2. QED BY <1>1, DemoSteps, E2eSteps, BronzeSteps, ExecuteSteps, TransformationSteps,
             GenerateSteps, ValidateSteps, UserSteps DEF Program

(* What a request of a kind says.                                          *)
LEMMA AskedFields ==
  ASSUME NEW q \in Asked \union {NoCall}
  PROVE  /\ q.op \in {"endpoint", "seed", "activate", "direct"} => q.endpoint \in Endpoint
         /\ q.op \in {"asset", "discover", "activate", "update"} => q.asset \in Asset
         /\ q.op = "update" => q.endpoint \in Endpoint \union {None}
         /\ q.op = "direct" => q.assets = {"transactions_csv_asset"}
         /\ q.op = "pipeline" => q.into \subseteq Object
         /\ q.op \in {"pipeline", "look", "trigger"} => q.pipeline \in Pipeline
<1>1. CASE q = NoCall
  BY <1>1 DEF NoCall, None
<1>2. CASE q \in PipelineRequest
  BY <1>2 DEF PipelineRequest
<1>3. CASE q \in Asked /\ q \notin PipelineRequest
  BY <1>3 DEF Asked
<1>4. QED BY <1>1, <1>2, <1>3

-----------------------------------------------------------------------------
(* What the requests are, and where they can be.                           *)

OpAt == [unnamed |-> "pipeline", inserted |-> "pipeline", provisioned |-> "pipeline",
         registered |-> "pipeline", extracted |-> "discover", checked |-> "direct"]
Writers == {"asset", "activate", "update"}

Requests ==
  /\ step \in [Client -> Nat \ {0}]
  /\ \A c \in Client : call[c] \in Asked \union {NoCall}
  /\ \A c \in Client : at[c] \in DOMAIN OpAt => call[c].op = OpAt[at[c]]
  /\ \A c \in Client : at[c] \in {"loaded", "committed"} => call[c].op \in Writers
  /\ \A c \in Client : at[c] # "idle" =>
       step[c] <= Len(Program(script[c])) /\ call[c] = Current(c).request

(* Nothing is asked for at the start.                                      *)
LEMMA InitRequests == Init => Requests
BY DEF Init, ServerInit, Requests, OpAt

(* The current step of a script is one it is written with.                 *)
LEMMA CurrentStep ==
  ASSUME NEW c \in Client, step[c] \in Nat \ {0}, step[c] <= Len(Program(script[c]))
  PROVE  Current(c) \in ScriptStep
<1>1. Program(script[c]) \in Seq(ScriptStep)
  BY ProgramsAreSteps
<1>2. step[c] \in 1 .. Len(Program(script[c]))
  BY <1>1, LenProperties
<1>3. QED BY <1>1, <1>2, ElementOfSeq DEF Current

(* A request is what the script's current step asks for until it has been  *)
(* answered, and it is only at the places of its kind.                     *)
LEMMA StepRequests == Shape /\ Requests /\ [Next]_vars => Requests'
<1> SUFFICES ASSUME Shape, Requests, [Next]_vars PROVE Requests'
  OBVIOUS
<1>1. ASSUME NEW c \in Client, Send(c) PROVE Requests'
  <2>1. Len(Program(script[c])) \in Nat /\ step[c] \in Nat \ {0}
    BY ProgramsAreSteps, LenProperties DEF Requests
  <2>2. step[c] <= Len(Program(script[c]))
    BY <1>1, <2>1 DEF Send, Ended
  <2>3. Current(c).request \in Asked
    BY <2>1, <2>2, CurrentStep DEF ScriptStep
  <2>4. /\ UNCHANGED <<script, step>>
        /\ at' = [at EXCEPT ![c] = "received"]
        /\ call' = [call EXCEPT ![c] = Current(c).request]
    BY <1>1 DEF Send, Request, scriptVars
  <2>5. \A d \in Client : Current(d)' = Current(d)
    BY <2>4 DEF Current
  <2>6. QED BY <2>2, <2>3, <2>4, <2>5 DEF Requests, Shape, IsFunction, OpAt
<1>2. ASSUME NEW c \in Client, HandleAnswer(c) PROVE Requests'
  <2>1. /\ call' = [call EXCEPT ![c] = NoCall] /\ at' = [at EXCEPT ![c] = "idle"]
        /\ UNCHANGED script
    BY <1>2 DEF HandleAnswer
  <2>2. step' \in [Client -> Nat \ {0}] /\ \A d \in Client \ {c} : step'[d] = step[d]
    <3>1. Len(Program(script[c])) \in Nat
      BY ProgramsAreSteps, LenProperties
    <3>2. Len(Program(script[c])) + 1 \in Nat \ {0} /\ step[c] + 1 \in Nat \ {0}
          /\ step \in [Client -> Nat \ {0}]
      BY <3>1 DEF Requests
    <3>3. step' \in {step, [step EXCEPT ![c] = step[c]], [step EXCEPT ![c] = step[c] + 1],
                   [step EXCEPT ![c] = Len(Program(script[c])) + 1]}
      BY <1>2 DEF HandleAnswer, Proceed
    <3>4. QED BY <3>2, <3>3
  <2>3. \A d \in Client \ {c} : Current(d)' = Current(d)
    BY <2>1, <2>2 DEF Current
  <2>4. QED BY <2>1, <2>2, <2>3 DEF Requests, Shape, IsFunction, OpAt
<1>3. ASSUME UNCHANGED <<script, step, call>>, NEW c \in Client, at[c] # "idle",
             NEW place, place # "idle", at' = [at EXCEPT ![c] = place],
             place \in DOMAIN OpAt => call[c].op = OpAt[place],
             place \in {"loaded", "committed"} => call[c].op \in Writers
      PROVE  Requests'
  <2>1. \A d \in Client : Current(d)' = Current(d)
    BY <1>3 DEF Current
  <2>2. \A d \in Client : at'[d] = at[d] \/ (d = c /\ at'[d] = place)
    BY <1>3 DEF Shape, IsFunction
  <2>3. QED BY <1>3, <2>1, <2>2 DEF Requests
<1>4. ASSUME NEW c \in Client, NoRoute(c) \/ (Cut(c) /\ UNCHANGED scriptVars) PROVE Requests'
  <2>1. UNCHANGED <<script, step, call>> /\ at[c] # "idle" /\ at' = [at EXCEPT ![c] = "answered"]
    BY <1>4 DEF NoRoute, Cut, Received, Refuse, Answer, scriptVars
  <2>2. "answered" \notin DOMAIN OpAt
    BY DEF OpAt
  <2>3. QED BY <1>3, <2>1, <2>2
<1>5. ASSUME NEW c \in Client, Serve(c), UNCHANGED scriptVars PROVE Requests'
  <2> DEFINE Moves(place) == UNCHANGED call /\ at[c] # "idle" /\ at' = [at EXCEPT ![c] = place]
  <2>1. UNCHANGED <<script, step>>
    BY <1>5 DEF scriptVars
  <2>2. ASSUME Moves("answered") PROVE Requests'
    <3>1. "answered" \notin DOMAIN OpAt
      BY DEF OpAt
    <3>2. QED BY <1>3, <2>1, <2>2, <3>1
  <2> USE DEF Refuse, Answer, Goto, Received
  <2>3. CASE RegisterEndpoint(c) \/ SeedSource(c) \/ CommitDiscovery(c) \/ WriteDagFile(c)
             \/ CommitDirect(c) \/ WriteOwnDagFile(c) \/ TriggerRun(c) \/ LookUpPipeline(c)
             \/ PublishAsset(c)
    <3>1. Moves("answered")
      BY <2>3 DEF RegisterEndpoint, SeedSource, CommitDiscovery, WriteDagFile, CommitDirect,
           WriteOwnDagFile, TriggerRun, LookUpPipeline, PublishAsset
    <3>2. QED BY <2>2, <3>1
  <2>4. CASE RegisterAsset(c) \/ CommitActivation(c) \/ CommitUpdate(c)
    <3>1. Moves("answered") \/ (Moves("committed") /\ call[c].op \in Writers)
      BY <2>4 DEF RegisterAsset, CommitActivation, CommitUpdate, CommitAsset, Writers
    <3>2. QED BY <1>3, <2>1, <2>2, <3>1 DEF OpAt
  <2>5. CASE LoadForActivation(c) \/ LoadForUpdate(c)
    <3>1. Moves("answered") \/ (Moves("loaded") /\ call[c].op \in Writers)
      BY <2>5 DEF LoadForActivation, LoadForUpdate, Writers
    <3>2. QED BY <1>3, <2>1, <2>2, <3>1 DEF OpAt
  <2>6. CASE StartDiscovery(c)
    <3>1. Moves("answered") \/ (Moves("extracted") /\ call[c].op = "discover")
      BY <2>6 DEF StartDiscovery
    <3>2. QED BY <1>3, <2>1, <2>2, <3>1 DEF OpAt
  <2>7. CASE FindPipeline(c)
    <3>1. Moves("answered") \/ (Moves("unnamed") /\ call[c].op = "pipeline")
      BY <2>7 DEF FindPipeline
    <3>2. QED BY <1>3, <2>1, <2>2, <3>1 DEF OpAt
  <2>8. CASE InsertPipeline(c)
    <3>1. Moves("answered") \/ (Moves("inserted") /\ call[c].op = "pipeline")
      BY <2>8 DEF InsertPipeline, Requests, OpAt
    <3>2. QED BY <1>3, <2>1, <2>2, <3>1 DEF OpAt
  <2>9. CASE ProvisionPipeline(c)
    <3>1. Moves("provisioned") /\ call[c].op = "pipeline"
      BY <2>9 DEF ProvisionPipeline, Requests, OpAt
    <3>2. QED BY <1>3, <2>1, <3>1 DEF OpAt
  <2>10. CASE CommitPipeline(c)
    <3>1. Moves("registered") /\ call[c].op = "pipeline"
      BY <2>10 DEF CommitPipeline, Requests, OpAt
    <3>2. QED BY <1>3, <2>1, <3>1 DEF OpAt
  <2>11. CASE FindDirect(c)
    <3>1. Moves("checked") /\ call[c].op = "direct"
      BY <2>11 DEF FindDirect
    <3>2. QED BY <1>3, <2>1, <3>1 DEF OpAt
  <2>12. QED BY <1>5, <2>3, <2>4, <2>5, <2>6, <2>7, <2>8, <2>9, <2>10, <2>11 DEF Serve
<1>6. ASSUME UNCHANGED vars PROVE Requests'
  <2>1. UNCHANGED <<script, step, call, at>>
    BY <1>6 DEF vars, serverVars, requestVars, scriptVars
  <2>2. \A d \in Client : Current(d)' = Current(d)
    BY <2>1 DEF Current
  <2>3. QED BY <2>1, <2>2 DEF Requests
<1>7. QED BY <1>1, <1>2, <1>4, <1>5, <1>6 DEF Next, Step, Done

(* Every request is one that some script is written with, at the step that *)
(* script has come to.                                                     *)
THEOREM RequestsAreKnown == Spec => []Requests
<1> QED BY InitRequests, StepRequests, Shapes, PTL DEF Spec

-----------------------------------------------------------------------------
(* A committed pipeline is complete.                                       *)

(* What a registration has done when it is about to commit.                *)
Provisioned ==
  \A c \in Client : at[c] = "provisioned" /\ call[c].create =>
    \A o \in call[c].into :
      /\ <<call[c].dest, o>> \in tables
      /\ call[c].dest \in found[c] =>
           \E r \in objects \union pending[c] : r.asset = call[c].dest /\ r.name = o

(* A registration links one row of each name there is.                     *)
LEMMA LinksCover ==
  ASSUME NEW a, NEW names, NEW rows, NEW chosen \in Links(a, names, rows),
         NEW r \in rows, r.asset = a, r.name \in names
  PROVE  \E k \in chosen : k.asset = a /\ k.name = r.name
<1>1. Cardinality({k \in chosen : k.name = r.name}) = 1
  BY DEF Links
<1>2. {k \in chosen : k.name = r.name} # {}
  BY <1>1, FS_EmptySet
<1>3. \A k \in chosen : k.asset = a
  BY DEF Links
<1> QED BY <1>2, <1>3

(* What a registration has provisioned is there until it commits.          *)
LEMMA StepProvisioned == Shape /\ Provisioned /\ [Next]_vars => Provisioned'
<1> SUFFICES ASSUME Shape, Provisioned, [Next]_vars PROVE Provisioned'
  OBVIOUS
<1> USE DEF Shape, IsFunction, Provisioned
<1>1. ASSUME NEW c \in Client, Send(c) PROVE Provisioned'
  <2>1. /\ at' = [at EXCEPT ![c] = "received"]
        /\ \A d \in Client \ {c} : call'[d] = call[d]
        /\ UNCHANGED <<objects, tables, pending, found>>
    BY <1>1 DEF Send, Request, dbVars, outsideVars
  <2> QED BY <2>1
<1>2. ASSUME NEW c \in Client, HandleAnswer(c) PROVE Provisioned'
  <2>1. /\ at' = [at EXCEPT ![c] = "idle"]
        /\ \A d \in Client \ {c} : call'[d] = call[d]
        /\ UNCHANGED <<objects, tables, pending, found>>
    BY <1>2 DEF HandleAnswer, dbVars, outsideVars
  <2> QED BY <2>1
<1>3. ASSUME NEW c \in Client, NoRoute(c) \/ Cut(c) PROVE Provisioned'
  BY <1>3 DEF NoRoute, Cut, Refuse, Answer, dbVars, outsideVars
<1>4. ASSUME NEW c \in Client, Serve(c) PROVE Provisioned'
  <2> USE DEF Refuse, Answer, Goto, dbVars, outsideVars
  <2>1. CASE RegisterEndpoint(c) \/ RegisterAsset(c)
    BY <2>1 DEF RegisterEndpoint, RegisterAsset
  <2>2. CASE LoadForActivation(c) \/ LoadForUpdate(c)
    BY <2>2 DEF LoadForActivation, LoadForUpdate
  <2>3. CASE CommitActivation(c) \/ CommitUpdate(c) \/ PublishAsset(c)
    BY <2>3 DEF CommitActivation, CommitUpdate, CommitAsset, PublishAsset
  <2>4. CASE SeedSource(c) \/ StartDiscovery(c)
    BY <2>4 DEF SeedSource, StartDiscovery
  <2>5. CASE CommitDiscovery(c)
    <3>1. /\ at' = [at EXCEPT ![c] = "answered"] /\ UNCHANGED <<call, tables>>
          /\ objects \subseteq objects'
          /\ \A d \in Client \ {c} : pending'[d] = pending[d] /\ found'[d] = found[d]
      BY <2>5 DEF CommitDiscovery
    <3> QED BY <3>1
  <2>6. CASE FindPipeline(c) \/ InsertPipeline(c)
    BY <2>6 DEF FindPipeline, InsertPipeline
  <2>7. CASE ProvisionPipeline(c)
    <3>1. ASSUME NEW o \in call[c].into, call[c].create
          PROVE  /\ <<call[c].dest, o>> \in tables'
                 /\ call[c].dest \in found[c] =>
                      \E r \in objects \union pending'[c] : r.asset = call[c].dest /\ r.name = o
      <4>1. CASE Named(call[c].dest, o) = {} /\ call[c].dest \in found[c]
        <5> DEFINE r == [asset |-> call[c].dest, name |-> o, by |-> c]
        <5>1. r \in pending'[c]
          BY <2>7, <3>1, <4>1 DEF ProvisionPipeline
        <5> QED BY <2>7, <3>1, <5>1 DEF ProvisionPipeline
      <4>2. CASE Named(call[c].dest, o) # {} \/ call[c].dest \notin found[c]
        BY <2>7, <3>1, <4>2 DEF ProvisionPipeline, Named
      <4> QED BY <4>1, <4>2
    <3>2. /\ at' = [at EXCEPT ![c] = "provisioned"] /\ UNCHANGED <<call, objects, found>>
          /\ tables \subseteq tables' /\ \A d \in Client \ {c} : pending'[d] = pending[d]
      BY <2>7 DEF ProvisionPipeline
    <3> QED BY <3>1, <3>2
  <2>8. CASE CommitPipeline(c)
    <3>1. /\ at' = [at EXCEPT ![c] = "registered"] /\ UNCHANGED <<call, tables, found>>
          /\ objects \subseteq objects'
          /\ \A d \in Client \ {c} : pending'[d] = pending[d]
      BY <2>8 DEF CommitPipeline
    <3> QED BY <3>1
  <2>9. CASE WriteDagFile(c) \/ WriteOwnDagFile(c) \/ TriggerRun(c) \/ LookUpPipeline(c)
    BY <2>9 DEF WriteDagFile, WriteOwnDagFile, TriggerRun, LookUpPipeline
  <2>10. CASE FindDirect(c) \/ CommitDirect(c)
    BY <2>10 DEF FindDirect, CommitDirect
  <2> QED BY <1>4, <2>1, <2>2, <2>3, <2>4, <2>5, <2>6, <2>7, <2>8, <2>9, <2>10 DEF Serve
<1>5. ASSUME UNCHANGED vars PROVE Provisioned'
  BY <1>5 DEF vars, serverVars, dbVars, outsideVars, requestVars
<1> QED BY <1>1, <1>2, <1>3, <1>4, <1>5 DEF Next, Step, Done

(* The tables and rows of the pipelines that do not change are still there.*)
LEMMA StepComplete ==
  Shape /\ Provisioned /\ RegistrationIsComplete /\ [Next]_vars => RegistrationIsComplete'
<1> SUFFICES ASSUME Shape, Provisioned, RegistrationIsComplete, [Next]_vars
             PROVE RegistrationIsComplete'
  OBVIOUS
<1>1. ASSUME NEW c \in Client, Serve(c)
      PROVE /\ objects \subseteq objects' /\ tables \subseteq tables'
            /\ CommitPipeline(c) \/ UNCHANGED pipelines
  BY <1>1 DEF Serve, RegisterEndpoint, RegisterAsset, LoadForActivation, CommitActivation,
       LoadForUpdate, CommitUpdate, CommitAsset, PublishAsset, SeedSource, StartDiscovery,
       CommitDiscovery, FindPipeline, InsertPipeline, ProvisionPipeline, CommitPipeline,
       WriteDagFile, FindDirect, CommitDirect, WriteOwnDagFile, TriggerRun, LookUpPipeline,
       Refuse, dbVars, outsideVars
<1>2. ASSUME NEW c \in Client, Send(c) \/ HandleAnswer(c) \/ NoRoute(c) \/ Cut(c)
      PROVE UNCHANGED <<objects, tables, pipelines>>
  BY <1>2 DEF Send, Request, HandleAnswer, NoRoute, Cut, Refuse, dbVars, outsideVars
<1>3. ASSUME UNCHANGED vars PROVE UNCHANGED <<objects, tables, pipelines>>
  BY <1>3 DEF vars, serverVars, dbVars, outsideVars
<1>4. ASSUME UNCHANGED pipelines, objects \subseteq objects', tables \subseteq tables'
      PROVE RegistrationIsComplete'
  BY <1>4 DEF RegistrationIsComplete, Registered
<1>5. ASSUME NEW c \in Client, CommitPipeline(c) PROVE RegistrationIsComplete'
  <2> DEFINE q == call[c]
             rows == objects \union pending[c]
             LinksOf(a, names) == IF a \in found[c] THEN Links(a, names, rows) ELSE {{}}
  <2>1. PICK source \in LinksOf(q.source, q.from), dest \in LinksOf(q.dest, q.into) :
          pipelines' = [pipelines EXCEPT ![q.pipeline] =
            [request |-> q, found |-> found[c], links |-> source \union dest]]
    BY <1>5 DEF CommitPipeline
  <2>2. objects' = rows /\ tables' = tables /\ at[c] = "provisioned"
    BY <1>5 DEF CommitPipeline, outsideVars
  <2>3. source \subseteq rows /\ dest \subseteq rows
    BY <2>1 DEF Links
  <2>4. ASSUME NEW o \in q.into, q.create
        PROVE /\ <<q.dest, o>> \in tables
              /\ q.dest \in found[c] => \E r \in source \union dest : r.asset = q.dest /\ r.name = o
    <3>1. /\ <<q.dest, o>> \in tables
          /\ q.dest \in found[c] => \E r \in rows : r.asset = q.dest /\ r.name = o
      BY <2>2, <2>4 DEF Provisioned
    <3>2. ASSUME q.dest \in found[c] PROVE \E r \in dest : r.asset = q.dest /\ r.name = o
      <4>1. dest \in Links(q.dest, q.into, rows)
        BY <2>1, <3>2
      <4>2. PICK r \in rows : r.asset = q.dest /\ r.name = o
        BY <3>1, <3>2
      <4> QED BY <4>1, <4>2, LinksCover
    <3> QED BY <3>1, <3>2
  <2>5. ASSUME NEW p \in Registered', p # q.pipeline
        PROVE p \in Registered /\ pipelines'[p] = pipelines[p]
    BY <2>1, <2>5 DEF Registered, Shape, IsFunction
  <2>6. ASSUME NEW p \in Registered', p = q.pipeline
        PROVE pipelines'[p] = [request |-> q, found |-> found[c], links |-> source \union dest]
    BY <2>1, <2>6 DEF Registered, Shape, IsFunction
  <2> HIDE DEF q, rows, LinksOf
  <2>7. objects \subseteq objects'
    BY <1>5 DEF CommitPipeline
  <2>8. ASSUME NEW p \in Registered', p # q.pipeline
        PROVE /\ pipelines'[p].links \subseteq objects'
              /\ pipelines'[p].request.create => \A o \in pipelines'[p].request.into :
                   /\ <<pipelines'[p].request.dest, o>> \in tables'
                   /\ pipelines'[p].request.dest \in pipelines'[p].found =>
                        \E r \in pipelines'[p].links :
                          r.asset = pipelines'[p].request.dest /\ r.name = o
    BY <2>2, <2>5, <2>7, <2>8 DEF RegistrationIsComplete
  <2>9. ASSUME NEW p \in Registered', p = q.pipeline
        PROVE /\ pipelines'[p].links \subseteq objects'
              /\ pipelines'[p].request.create => \A o \in pipelines'[p].request.into :
                   /\ <<pipelines'[p].request.dest, o>> \in tables'
                   /\ pipelines'[p].request.dest \in pipelines'[p].found =>
                        \E r \in pipelines'[p].links :
                          r.asset = pipelines'[p].request.dest /\ r.name = o
    BY <2>2, <2>3, <2>4, <2>6, <2>9
  <2> QED BY <2>8, <2>9 DEF RegistrationIsComplete
<1> QED BY <1>1, <1>2, <1>3, <1>4, <1>5 DEF Next, Step, Done

(* RegistrationIsComplete: the tables, rows and links of a committed       *)
(* pipeline are there, whatever ran meanwhile and wherever it was cut.     *)
THEOREM PipelinesAreComplete == Spec => []RegistrationIsComplete
<1>1. Init => Provisioned /\ RegistrationIsComplete
  BY DEF Init, ServerInit, Provisioned, RegistrationIsComplete, Registered, NotThere
<1> QED BY <1>1, Shapes, StepProvisioned, StepComplete, PTL DEF Spec

-----------------------------------------------------------------------------
(* DAG files follow pipelines.                                             *)

(* A registration that has committed is not undone.                        *)
Committed == \A c \in Client : at[c] = "registered" => call[c].pipeline \in Registered

(* Pipelines are not deleted.                                              *)
LEMMA StepRegistered ==
  Shape /\ Requests /\ Committed /\ [Next]_vars => Committed' /\ Registered \subseteq Registered'
<1> SUFFICES ASSUME Shape, Requests, Committed, [Next]_vars
             PROVE Committed' /\ Registered \subseteq Registered'
  OBVIOUS
<1>1. ASSUME NEW c \in Client, CommitPipeline(c)
      PROVE Committed' /\ Registered \subseteq Registered'
  <2>1. call[c].op = "pipeline" /\ call[c].pipeline \in Pipeline /\ call[c] # NoCall
    BY <1>1, AskedFields DEF CommitPipeline, Requests, OpAt, NoCall, None
  <2>2. PICK row :
          /\ row.request = call[c]
          /\ pipelines' = [pipelines EXCEPT ![call[c].pipeline] = row]
    <3> DEFINE rows == objects \union pending[c]
               LinksOf(a, names) == IF a \in found[c] THEN Links(a, names, rows) ELSE {{}}
    <3>1. PICK source \in LinksOf(call[c].source, call[c].from),
               dest \in LinksOf(call[c].dest, call[c].into) :
            pipelines' = [pipelines EXCEPT ![call[c].pipeline] =
              [request |-> call[c], found |-> found[c], links |-> source \union dest]]
      BY <1>1 DEF CommitPipeline
    <3> QED BY <3>1
  <2>3. at' = [at EXCEPT ![c] = "registered"] /\ UNCHANGED call
    BY <1>1 DEF CommitPipeline, Goto
  <2>4. Registered' = Registered \union {call[c].pipeline}
    BY <2>1, <2>2 DEF Registered, Shape, IsFunction
  <2> QED BY <2>3, <2>4 DEF Committed, Shape, IsFunction
<1>2. ASSUME UNCHANGED pipelines,
             \A c \in Client : at'[c] = "registered" => at[c] = "registered" /\ call'[c] = call[c]
      PROVE Committed' /\ Registered \subseteq Registered'
  BY <1>2 DEF Committed, Registered
<1> DEFINE Same == /\ UNCHANGED pipelines
                   /\ \A c \in Client : at'[c] = "registered" =>
                        at[c] = "registered" /\ call'[c] = call[c]
<1> USE DEF Shape, IsFunction
<1>3. ASSUME NEW c \in Client, Send(c) PROVE Same
  BY <1>3 DEF Send, Request, dbVars
<1>4. ASSUME NEW c \in Client, HandleAnswer(c) PROVE Same
  BY <1>4 DEF HandleAnswer, dbVars
<1>5. ASSUME NEW c \in Client, NoRoute(c) \/ Cut(c) PROVE Same
  BY <1>5 DEF NoRoute, Cut, Refuse, Answer, dbVars
<1>6. ASSUME NEW c \in Client, Serve(c) PROVE CommitPipeline(c) \/ Same
  <2> USE DEF Refuse, Answer, Goto, dbVars
  <2>1. CASE RegisterEndpoint(c) \/ RegisterAsset(c) \/ LoadForActivation(c) \/ LoadForUpdate(c)
    BY <2>1 DEF RegisterEndpoint, RegisterAsset, LoadForActivation, LoadForUpdate
  <2>2. CASE CommitActivation(c) \/ CommitUpdate(c) \/ PublishAsset(c)
    BY <2>2 DEF CommitActivation, CommitUpdate, CommitAsset, PublishAsset
  <2>3. CASE SeedSource(c) \/ StartDiscovery(c) \/ CommitDiscovery(c)
    BY <2>3 DEF SeedSource, StartDiscovery, CommitDiscovery
  <2>4. CASE FindPipeline(c) \/ InsertPipeline(c) \/ ProvisionPipeline(c)
    BY <2>4 DEF FindPipeline, InsertPipeline, ProvisionPipeline
  <2>5. CASE WriteDagFile(c) \/ WriteOwnDagFile(c) \/ TriggerRun(c) \/ LookUpPipeline(c)
    BY <2>5 DEF WriteDagFile, WriteOwnDagFile, TriggerRun, LookUpPipeline
  <2>6. CASE FindDirect(c) \/ CommitDirect(c)
    BY <2>6 DEF FindDirect, CommitDirect
  <2> QED BY <1>6, <2>1, <2>2, <2>3, <2>4, <2>5, <2>6 DEF Serve
<1>7. ASSUME UNCHANGED vars PROVE Same
  BY <1>7 DEF vars, serverVars, dbVars, requestVars
<1> QED BY <1>1, <1>2, <1>3, <1>4, <1>5, <1>6, <1>7 DEF Next, Step, Done

(* What a step does to the DAG files: nothing, or it writes one.           *)
Writes ==
  \/ UNCHANGED files
  \/ \E p \in Registered : Overwrite(FileOf(p), p, "registered")
  \/ \E c \in Client : Overwrite(call[c].file, call[c].pipeline, "fixed")

(* No registration but those that write their file are newly answered 201. *)
NoneAnswered ==
  \A c \in Client : at'[c] = "answered" /\ reply'[c] = 201 /\ call'[c].op = "pipeline" =>
    at[c] = "answered" /\ reply[c] = 201 /\ call'[c] = call[c]

(* A step writes at most one DAG file, and no registration is answered 201 *)
(* before its file is written.                                             *)
LEMMA StepAnswered ==
  ASSUME Shape, Requests, Committed, [Next]_vars
  PROVE  /\ Writes
         /\ NoneAnswered \/ \E c \in Client : WriteDagFile(c)
<1> USE DEF Shape, IsFunction
<1>1. ASSUME NEW c \in Client, Send(c) PROVE UNCHANGED files /\ NoneAnswered
  BY <1>1 DEF Send, Request, outsideVars, NoneAnswered
<1>2. ASSUME NEW c \in Client, HandleAnswer(c) PROVE UNCHANGED files /\ NoneAnswered
  <2>1. /\ UNCHANGED files /\ at' = [at EXCEPT ![c] = "idle"]
        /\ \A d \in Client \ {c} : call'[d] = call[d] /\ reply'[d] = reply[d]
    BY <1>2 DEF HandleAnswer, outsideVars
  <2> QED BY <2>1 DEF NoneAnswered
<1>3. ASSUME NEW c \in Client, NEW status,
             UNCHANGED files, Answer(c, status), status # 201 \/ call[c].op # "pipeline"
      PROVE UNCHANGED files /\ NoneAnswered
  BY <1>3 DEF Answer, NoneAnswered
<1>4. ASSUME NEW c \in Client, NoRoute(c) PROVE UNCHANGED files /\ NoneAnswered
  BY <1>3, <1>4 DEF NoRoute, Refuse, outsideVars
<1>5. ASSUME NEW c \in Client, Cut(c) PROVE UNCHANGED files /\ NoneAnswered
  BY <1>3, <1>5 DEF Cut, outsideVars, Lost
<1>6. ASSUME NEW c \in Client, Serve(c)
      PROVE Writes /\ (NoneAnswered \/ WriteDagFile(c))
  <2> USE DEF Refuse, Goto, outsideVars, Received, Writes
  <2>1. CASE RegisterEndpoint(c) \/ RegisterAsset(c)
    BY <1>3, <2>1 DEF RegisterEndpoint, RegisterAsset, NoneAnswered
  <2>2. CASE LoadForActivation(c) \/ LoadForUpdate(c)
    BY <1>3, <2>2 DEF LoadForActivation, LoadForUpdate, NoneAnswered
  <2>3. CASE CommitActivation(c) \/ CommitUpdate(c)
    BY <2>3 DEF CommitActivation, CommitUpdate, CommitAsset, NoneAnswered
  <2>4. CASE PublishAsset(c) \/ SeedSource(c)
    BY <1>3, <2>4 DEF PublishAsset, SeedSource
  <2>5. CASE StartDiscovery(c)
    BY <1>3, <2>5 DEF StartDiscovery, NoneAnswered
  <2>6. CASE CommitDiscovery(c)
    <3>1. call[c].op = "discover"
      BY <2>6 DEF CommitDiscovery, Requests, OpAt
    <3> QED BY <1>3, <2>6, <3>1 DEF CommitDiscovery
  <2>7. CASE FindPipeline(c) \/ InsertPipeline(c)
    BY <1>3, <2>7 DEF FindPipeline, InsertPipeline, NoneAnswered
  <2>8. CASE ProvisionPipeline(c) \/ CommitPipeline(c)
    BY <2>8 DEF ProvisionPipeline, CommitPipeline, NoneAnswered
  <2>9. CASE WriteDagFile(c)
    BY <2>9 DEF WriteDagFile, Committed
  <2>10. CASE WriteOwnDagFile(c) \/ TriggerRun(c)
    <3>1. Writes
      BY <2>10 DEF WriteOwnDagFile, TriggerRun
    <3>2. (call[c].op # "pipeline" /\ Answer(c, 201)) \/ (Refuse(c, 404) /\ UNCHANGED files)
      BY <2>10 DEF WriteOwnDagFile, TriggerRun
    <3>3. NoneAnswered
      BY <3>2 DEF NoneAnswered, Answer
    <3> QED BY <3>1, <3>3
  <2>11. CASE LookUpPipeline(c)
    BY <1>3, <2>11 DEF LookUpPipeline
  <2>12. CASE FindDirect(c)
    BY <2>12 DEF FindDirect, NoneAnswered
  <2>13. CASE CommitDirect(c)
    <3>1. call[c].op = "direct"
      BY <2>13 DEF CommitDirect, Requests, OpAt
    <3> QED BY <1>3, <2>13, <3>1 DEF CommitDirect
  <2> QED BY <1>6, <2>1, <2>2, <2>3, <2>4, <2>5, <2>6, <2>7, <2>8, <2>9, <2>10, <2>11,
             <2>12, <2>13 DEF Serve
<1>7. ASSUME UNCHANGED vars PROVE UNCHANGED files /\ NoneAnswered
  BY <1>7 DEF vars, serverVars, outsideVars, requestVars, NoneAnswered
<1> QED BY <1>1, <1>2, <1>4, <1>5, <1>6, <1>7 DEF Next, Step, Done, Writes

(* So a DAG file neither precedes its pipeline nor disappears.             *)
LEMMA StepFiles ==
  Shape /\ Requests /\ Committed /\ FilesFollowPipelines /\ [Next]_vars => FilesFollowPipelines'
<1> SUFFICES ASSUME Shape, Requests, Committed, FilesFollowPipelines, [Next]_vars
             PROVE FilesFollowPipelines'
  OBVIOUS
<1>1. Registered \subseteq Registered'
  BY StepRegistered
<1>2. Writes /\ (NoneAnswered \/ \E c \in Client : WriteDagFile(c))
  BY StepAnswered
<1>3. \A f \in files' : f.id = "registered" => f.dag \in Registered' /\ f.file = FileOf(f.dag)
  <2>1. CASE UNCHANGED files
    BY <1>1, <2>1 DEF FilesFollowPipelines
  <2>2. ASSUME NEW p \in Registered, Overwrite(FileOf(p), p, "registered")
        PROVE \A f \in files' :
                f.id = "registered" => f.dag \in Registered' /\ f.file = FileOf(f.dag)
    BY <1>1, <2>2 DEF FilesFollowPipelines, Overwrite
  <2>3. ASSUME NEW c \in Client, Overwrite(call[c].file, call[c].pipeline, "fixed")
        PROVE \A f \in files' :
                f.id = "registered" => f.dag \in Registered' /\ f.file = FileOf(f.dag)
    BY <1>1, <2>3 DEF FilesFollowPipelines, Overwrite
  <2> QED BY <1>2, <2>1, <2>2, <2>3 DEF Writes
<1>4. \A g \in files : \E f \in files' : f.file = g.file
  <2>1. ASSUME NEW file, NEW p, NEW id, Overwrite(file, p, id)
        PROVE \A g \in files : \E f \in files' : f.file = g.file
    <3>1. [file |-> file, dag |-> p, id |-> id] \in files'
      BY <2>1 DEF Overwrite
    <3>2. ASSUME NEW g \in files, g.file # file PROVE g \in files'
      BY <2>1, <3>2 DEF Overwrite
    <3> QED BY <3>1, <3>2
  <2> QED BY <1>2, <2>1 DEF Writes
<1>5. ASSUME NEW c \in Client, at'[c] = "answered", reply'[c] = 201, call'[c].op = "pipeline"
      PROVE \E f \in files' : f.file = FileOf(call'[c].pipeline)
  <2>1. CASE NoneAnswered
    <3>1. \E f \in files : f.file = FileOf(call'[c].pipeline)
      BY <1>5, <2>1 DEF NoneAnswered, FilesFollowPipelines
    <3> QED BY <3>1, <1>4
  <2>2. ASSUME NEW d \in Client, WriteDagFile(d)
        PROVE \E f \in files' : f.file = FileOf(call'[c].pipeline)
    <3>1. CASE c = d
      <4>1. UNCHANGED call
        BY <2>2 DEF WriteDagFile, Answer
      <4>2. [file |-> FileOf(call[c].pipeline), dag |-> call[c].pipeline, id |-> "registered"]
              \in files'
        BY <2>2, <3>1 DEF WriteDagFile, Overwrite
      <4> QED BY <4>1, <4>2
    <3>2. CASE c # d
      <4>1. at[c] = "answered" /\ reply[c] = 201 /\ call'[c] = call[c]
        BY <1>5, <2>2, <3>2 DEF WriteDagFile, Answer, Shape, IsFunction
      <4>2. \E f \in files : f.file = FileOf(call'[c].pipeline)
        BY <1>5, <4>1 DEF FilesFollowPipelines
      <4> QED BY <4>2, <1>4
    <3> QED BY <3>1, <3>2
  <2> QED BY <1>2, <2>1, <2>2
<1> QED BY <1>3, <1>5 DEF FilesFollowPipelines

(* FilesFollowPipelines: a DAG file of the API's never precedes its        *)
(* pipeline, and a registration that was answered has left a file.         *)
THEOREM FilesFollow == Spec => []FilesFollowPipelines
<1>1. Init => Committed /\ FilesFollowPipelines
  BY DEF Init, ServerInit, Committed, FilesFollowPipelines
<1>2. Shape /\ Requests /\ Committed /\ [Next]_vars => Committed'
  BY StepRegistered
<1> QED BY <1>1, <1>2, Shapes, RequestsAreKnown, StepFiles, PTL DEF Spec

-----------------------------------------------------------------------------
(* Only the client whose request is served, cut or answered has moved.     *)
OthersStay(c) ==
  \A d \in Client \ {c} :
    /\ at'[d] = at[d] /\ call'[d] = call[d] /\ loaded'[d] = loaded[d]
    /\ pending'[d] = pending[d] /\ found'[d] = found[d] /\ reply'[d] = reply[d]

(* Serving a request moves nobody else's.                                  *)
LEMMA ServeIsLocal ==
  ASSUME Shape, NEW c \in Client, Serve(c)
  PROVE  OthersStay(c) /\ InProgress(c) /\ UNCHANGED <<call, faults, disturbed>>
<1> USE DEF Refuse, Answer, Goto, Received, Shape, IsFunction, OthersStay, InProgress
<1>1. CASE RegisterEndpoint(c) \/ RegisterAsset(c)
  BY <1>1 DEF RegisterEndpoint, RegisterAsset
<1>2. CASE LoadForActivation(c) \/ LoadForUpdate(c)
  BY <1>2 DEF LoadForActivation, LoadForUpdate
<1>3. CASE CommitActivation(c) \/ CommitUpdate(c) \/ PublishAsset(c)
  BY <1>3 DEF CommitActivation, CommitUpdate, CommitAsset, PublishAsset
<1>4. CASE SeedSource(c) \/ StartDiscovery(c) \/ CommitDiscovery(c)
  BY <1>4 DEF SeedSource, StartDiscovery, CommitDiscovery
<1>5. CASE FindPipeline(c) \/ InsertPipeline(c) \/ ProvisionPipeline(c)
  BY <1>5 DEF FindPipeline, InsertPipeline, ProvisionPipeline
<1>6. CASE CommitPipeline(c)
  BY <1>6 DEF CommitPipeline
<1>7. CASE WriteDagFile(c) \/ WriteOwnDagFile(c) \/ TriggerRun(c) \/ LookUpPipeline(c)
  BY <1>7 DEF WriteDagFile, WriteOwnDagFile, TriggerRun, LookUpPipeline
<1>8. CASE FindDirect(c) \/ CommitDirect(c)
  BY <1>8 DEF FindDirect, CommitDirect
<1>9. QED BY <1>1, <1>2, <1>3, <1>4, <1>5, <1>6, <1>7, <1>8 DEF Serve

(* A request that has been answered holds nothing.                         *)
LEMMA AnswerIsLocal ==
  ASSUME Shape, NEW c \in Client, NEW status, Answer(c, status)
  PROVE  /\ OthersStay(c) /\ UNCHANGED call
         /\ at'[c] = "answered" /\ reply'[c] = status /\ loaded'[c] = Missing
         /\ pending'[c] = {} /\ found'[c] = {}
BY DEF Answer, Shape, IsFunction, OthersStay

(* A request that has moved on without an answer.                          *)
LEMMA GotoIsLocal ==
  ASSUME Shape, NEW c \in Client, NEW place, Goto(c, place)
  PROVE  at'[c] = place /\ UNCHANGED <<call, reply>>
BY DEF Goto, Shape, IsFunction

-----------------------------------------------------------------------------
(* The types of what is stored.                                            *)

(* What a request holds of the database.                                   *)
HeldTypes(c) ==
  /\ loaded[c] \in Row \union {Missing} /\ pending[c] \subseteq ObjectRow
  /\ found[c] \subseteq Asset /\ reply[c] \in Reply
  /\ at[c] \in {"loaded", "committed"} => loaded[c] \in Row /\ assets[call[c].asset] # Missing

Stored ==
  /\ endpoints \subseteq Endpoint /\ objects \subseteq ObjectRow /\ seeded \subseteq Endpoint
  /\ \A a \in Asset : assets[a] \in Row \union {Missing} /\ catalog[a] \in Row \union {Missing}

(* Assets are never deleted.                                               *)
AssetsStay == \A a \in Asset : assets[a] # Missing => assets'[a] # Missing

ServerTypes == Stored /\ \A c \in Client : HeldTypes(c)

(* Rows, and the row that stands for none.                                 *)
LEMMA RowFacts ==
  /\ New \in Row /\ Missing \notin Row /\ Missing.state = None /\ Missing.endpoint = None
  /\ \A r \in Row : /\ r.state \in {"draft", "active"} /\ r.endpoint \in Endpoint \union {None}
                    /\ r # Missing
  /\ \A s \in {"draft", "active"}, e \in Endpoint \union {None} :
       [state |-> s, endpoint |-> e] \in Row
BY DEF New, Row, Missing, None

(* The statuses the API answers.                                           *)
LEMMA StatusFacts == {Lost, 200, 201, 404, 409, 422, 500} \subseteq Reply
BY DEF Reply

(* The types hold after a step that only one client has taken.             *)
LEMMA TypesAfter ==
  ASSUME ServerTypes, NEW c \in Client, OthersStay(c), AssetsStay, Requests, Stored', HeldTypes(c)'
  PROVE  ServerTypes'
<1> SUFFICES ASSUME NEW d \in Client, d # c PROVE HeldTypes(d)'
  BY DEF ServerTypes
<1>1. HeldTypes(d)
  BY DEF ServerTypes
<1>2. at[d] \in {"loaded", "committed"} => call[d].asset \in Asset
  BY AskedFields DEF Requests, Writers
<1>3. QED BY <1>1, <1>2 DEF OthersStay, HeldTypes, AssetsStay

(* An answer leaves nothing behind.                                        *)
LEMMA AnswerTypes ==
  ASSUME Shape, Requests, ServerTypes, NEW c \in Client, NEW status \in Reply, Answer(c, status),
         Stored', AssetsStay
  PROVE  ServerTypes'
<1>1. HeldTypes(c)'
  BY AnswerIsLocal DEF HeldTypes
<1>2. QED BY <1>1, AnswerIsLocal, TypesAfter

(* A refusal leaves the stores as they were.                               *)
LEMMA RefuseTypes ==
  ASSUME Shape, Requests, ServerTypes, NEW c \in Client, NEW status \in Reply, Refuse(c, status)
  PROVE  ServerTypes'
<1>1. Answer(c, status) /\ Stored' /\ AssetsStay
  BY DEF Refuse, dbVars, outsideVars, Stored, ServerTypes, AssetsStay
<1>2. QED BY <1>1, AnswerTypes

(* Registration, activation and update of an asset write rows of its type. *)
LEMMA AssetTypes ==
  ASSUME Shape, Requests, ServerTypes, NEW c \in Client,
         \/ RegisterAsset(c) \/ LoadForActivation(c) \/ LoadForUpdate(c)
         \/ CommitActivation(c) \/ CommitUpdate(c) \/ PublishAsset(c)
  PROVE  ServerTypes'
<1> DEFINE a == call[c].asset
<1>1. /\ a \in Asset /\ call[c].op \in Writers
      /\ call[c].op = "activate" => call[c].endpoint \in Endpoint
      /\ call[c].op = "update" => call[c].endpoint \in Endpoint \union {None}
  <2>1. call[c].op \in Writers
    <3>1. CASE RegisterAsset(c)
      BY <3>1 DEF RegisterAsset, Received, Writers
    <3>2. CASE LoadForActivation(c) \/ LoadForUpdate(c)
      BY <3>2 DEF LoadForActivation, LoadForUpdate, Received, Writers
    <3>3. CASE CommitActivation(c) \/ CommitUpdate(c)
      BY <3>3 DEF CommitActivation, CommitUpdate, Writers
    <3>4. CASE PublishAsset(c)
      BY <3>4 DEF PublishAsset, Writers
    <3>5. QED BY <3>1, <3>2, <3>3, <3>4
  <2>2. call[c] \in Asked \union {NoCall}
    BY DEF Requests
  <2>3. QED BY <2>1, <2>2, AskedFields DEF Writers
<1>2. Serve(c)
  BY DEF Serve
<1>3. OthersStay(c) /\ UNCHANGED call
  BY <1>2, ServeIsLocal
<1>4. assets[a] \in Row \union {Missing} /\ HeldTypes(c)
  BY <1>1 DEF ServerTypes, Stored
<1>5. ASSUME NEW status \in Reply, Refuse(c, status) PROVE ServerTypes'
  BY <1>5, RefuseTypes
(* The row is written: it is a row, and the request has it.                *)
<1>6. ASSUME NEW row \in Row,
             assets' = [assets EXCEPT ![a] = row], loaded' = [loaded EXCEPT ![c] = row],
             Goto(c, "committed"), UNCHANGED <<endpoints, objects, catalog, seeded, pending, found>>
      PROVE  ServerTypes'
  <2>1. assets'[a] = row /\ \A b \in Asset : b = a \/ assets'[b] = assets[b]
    BY <1>1, <1>6 DEF Shape, IsFunction
  <2>2. Stored' /\ AssetsStay
    BY <1>6, <2>1, RowFacts DEF ServerTypes, Stored, AssetsStay
  <2>3. HeldTypes(c)'
    <3>1. loaded'[c] = row /\ pending' = pending /\ found' = found /\ reply' = reply
      BY <1>6, GotoIsLocal DEF Shape, IsFunction
    <3>2. QED BY <1>3, <1>4, <2>1, <3>1, RowFacts DEF HeldTypes
  <2>4. QED BY <1>3, <2>2, <2>3, TypesAfter
<1>7. ASSUME assets[a] # Missing, loaded' = [loaded EXCEPT ![c] = assets[a]], Goto(c, "loaded"),
             UNCHANGED <<dbVars, outsideVars, pending, found>>
      PROVE  ServerTypes'
  <2>1. Stored' /\ AssetsStay
    BY <1>7 DEF ServerTypes, Stored, AssetsStay, dbVars, outsideVars
  <2>2. HeldTypes(c)'
    <3>1. loaded'[c] = assets[a] /\ pending' = pending /\ found' = found /\ reply' = reply
          /\ assets' = assets
      BY <1>7, GotoIsLocal DEF Shape, IsFunction, dbVars
    <3>2. QED BY <1>3, <1>4, <1>7, <3>1 DEF HeldTypes
  <2>3. QED BY <1>3, <2>1, <2>2, TypesAfter
<1>8. CASE RegisterAsset(c)
  <2>1. Refuse(c, 409) \/ ~Refuse(c, 409)
    OBVIOUS
  <2>2. CASE ~Refuse(c, 409)
    BY <1>6, <1>8, <2>2, RowFacts DEF RegisterAsset, outsideVars
  <2>3. QED BY <1>5, <2>1, <2>2, StatusFacts
<1>9. CASE LoadForActivation(c)
  <2>1. CASE Refuse(c, 404) \/ Refuse(c, 422)
    BY <1>5, <2>1, StatusFacts
  <2>2. CASE ~(Refuse(c, 404) \/ Refuse(c, 422))
    <3>1. assets[a].state = "draft" => assets[a] # Missing
      BY DEF Missing, None
    <3>2. QED BY <1>7, <1>9, <2>2, <3>1 DEF LoadForActivation
  <2>3. QED BY <2>1, <2>2
<1>10. CASE LoadForUpdate(c)
  <2>1. CASE Refuse(c, 404)
    BY <1>5, <2>1, StatusFacts
  <2>2. CASE ~Refuse(c, 404)
    BY <1>7, <1>10, <2>2 DEF LoadForUpdate
  <2>3. QED BY <2>1, <2>2
<1>11. CASE CommitActivation(c)
  <2>1. [state |-> "active", endpoint |-> call[c].endpoint] \in Row
    BY <1>1, <1>11, RowFacts DEF CommitActivation
  <2>2. QED BY <1>6, <1>11, <2>1 DEF CommitActivation, CommitAsset, outsideVars
<1>12. CASE CommitUpdate(c)
  <2> DEFINE e == IF call[c].endpoint = None THEN loaded[c].endpoint ELSE call[c].endpoint
             row == [state |-> assets[a].state, endpoint |-> e]
  <2>1. at[c] = "loaded" /\ call[c].op = "update" /\ CommitAsset(c, row)
    BY <1>12 DEF CommitUpdate
  <2>2. loaded[c] \in Row /\ assets[a] \in Row
    BY <1>4, <2>1 DEF HeldTypes
  <2>3. assets[a].state \in {"draft", "active"} /\ e \in Endpoint \union {None}
    BY <1>1, <2>1, <2>2, RowFacts
  <2>4. row \in Row
    <3> HIDE DEF e
    <3>1. QED BY <2>3, RowFacts
  <2> HIDE DEF row
  <2>5. QED BY <1>6, <2>1, <2>4 DEF CommitAsset, outsideVars
<1>13. CASE PublishAsset(c)
  <2>1. loaded[c] \in Row
    BY <1>4, <1>13 DEF PublishAsset, HeldTypes
  <2>2. catalog' = [catalog EXCEPT ![a] = loaded[c]] /\ UNCHANGED <<dbVars, seeded>>
    BY <1>13 DEF PublishAsset
  <2>3. Stored' /\ AssetsStay
    BY <1>1, <2>1, <2>2 DEF ServerTypes, Stored, AssetsStay, dbVars, Shape, IsFunction
  <2>4. \E status \in Reply : Answer(c, status)
    BY <1>13, StatusFacts DEF PublishAsset
  <2>5. QED BY <2>3, <2>4, AnswerTypes
<1>14. QED BY <1>8, <1>9, <1>10, <1>11, <1>12, <1>13

(* Endpoints, sources and discovery: the objects discovered are objects of *)
(* the source behind an endpoint.                                          *)
LEMMA DiscoveryTypes ==
  ASSUME Shape, Requests, ServerTypes, NEW c \in Client,
         RegisterEndpoint(c) \/ SeedSource(c) \/ StartDiscovery(c) \/ CommitDiscovery(c)
  PROVE  ServerTypes'
<1>0. call[c] \in Asked \union {NoCall} /\ HeldTypes(c)
  BY DEF Requests, ServerTypes
<1>1. CASE RegisterEndpoint(c)
  <2>1. CASE Refuse(c, 409)
    BY <2>1, RefuseTypes, StatusFacts
  <2>2. CASE ~Refuse(c, 409)
    <3>1. /\ call[c].endpoint \in Endpoint /\ endpoints' = endpoints \union {call[c].endpoint}
          /\ UNCHANGED <<assets, objects, catalog, seeded>> /\ Answer(c, 201)
      BY <1>0, <1>1, <2>2, AskedFields DEF RegisterEndpoint, Received, outsideVars
    <3>2. Stored' /\ AssetsStay
      BY <3>1 DEF ServerTypes, Stored, AssetsStay
    <3>3. QED BY <3>1, <3>2, AnswerTypes, StatusFacts
  <2>3. QED BY <2>1, <2>2
<1>2. CASE SeedSource(c)
  <2>1. /\ call[c].endpoint \in Endpoint /\ seeded' = seeded \union {call[c].endpoint}
        /\ UNCHANGED <<endpoints, assets, objects, catalog>> /\ Answer(c, 200)
    BY <1>0, <1>2, AskedFields DEF SeedSource, Received, dbVars
  <2>2. Stored' /\ AssetsStay
    BY <2>1 DEF ServerTypes, Stored, AssetsStay
  <2>3. QED BY <2>1, <2>2, AnswerTypes, StatusFacts
<1>3. CASE StartDiscovery(c)
  <2> DEFINE a == call[c].asset
             e == assets[a].endpoint
             source == IF e \in seeded THEN SourceOf(e) ELSE {}
             new == [asset : {a}, name : {o \in source : Named(a, o) = {}}, by : {c}]
  <2>1. CASE Refuse(c, 404) \/ Refuse(c, 422)
    BY <2>1, RefuseTypes, StatusFacts
  <2>2. CASE ~(Refuse(c, 404) \/ Refuse(c, 422))
    <3>1. /\ a \in Asset /\ pending' = [pending EXCEPT ![c] = new] /\ Goto(c, "extracted")
          /\ UNCHANGED <<dbVars, outsideVars, loaded, found>>
      BY <1>0, <1>3, <2>2, AskedFields DEF StartDiscovery, Received
    <3>2. new \subseteq ObjectRow
      <4>1. source \subseteq Object
        <5>1. e \in seeded => e \in Endpoint
          BY DEF ServerTypes, Stored
        <5>2. QED BY <5>1, SourceAssumption
      <4> HIDE DEF source
      <4>2. QED BY <3>1, <4>1 DEF ObjectRow
    <3> HIDE DEF new
    <3>3. Stored' /\ AssetsStay
      BY <3>1 DEF ServerTypes, Stored, AssetsStay, dbVars, outsideVars
    <3>4. HeldTypes(c)'
      <4>1. at'[c] = "extracted" /\ pending'[c] = new /\ UNCHANGED <<loaded, found, reply>>
        BY <3>1, GotoIsLocal DEF Shape, IsFunction
      <4>2. QED BY <1>0, <3>2, <4>1 DEF HeldTypes
    <3>5. OthersStay(c)
      BY <1>3, ServeIsLocal DEF Serve
    <3>6. QED BY <3>3, <3>4, <3>5, TypesAfter
  <2>3. QED BY <2>1, <2>2
<1>4. CASE CommitDiscovery(c)
  <2>1. /\ objects' = objects \union pending[c] /\ Answer(c, 201)
        /\ UNCHANGED <<endpoints, assets, catalog, seeded>>
    BY <1>4 DEF CommitDiscovery, outsideVars
  <2>2. Stored' /\ AssetsStay
    BY <1>0, <2>1 DEF ServerTypes, Stored, AssetsStay, HeldTypes
  <2>3. QED BY <2>1, <2>2, AnswerTypes, StatusFacts
<1>5. QED BY <1>1, <1>2, <1>3, <1>4

(* Registration of a pipeline provisions objects it names, in assets there *)
(* are.                                                                    *)
LEMMA PipelineTypes ==
  ASSUME Shape, Requests, ServerTypes, NEW c \in Client,
         \/ FindPipeline(c) \/ InsertPipeline(c) \/ ProvisionPipeline(c) \/ CommitPipeline(c)
         \/ WriteDagFile(c)
  PROVE  ServerTypes'
<1>0. call[c] \in Asked \union {NoCall} /\ HeldTypes(c)
  BY DEF Requests, ServerTypes
<1>1. OthersStay(c)
  BY ServeIsLocal DEF Serve
<1>2. ASSUME NEW status \in Reply, Refuse(c, status) PROVE ServerTypes'
  BY <1>2, RefuseTypes
<1>3. ASSUME UNCHANGED <<endpoints, assets, objects, catalog, seeded>> PROVE Stored' /\ AssetsStay
  BY <1>3 DEF ServerTypes, Stored, AssetsStay
<1>4. CASE FindPipeline(c)
  <2>1. CASE ~Refuse(c, 422)
    <3>1. Goto(c, "unnamed") /\ UNCHANGED <<dbVars, outsideVars, loaded, pending, found>>
      BY <1>4, <2>1 DEF FindPipeline
    <3>2. HeldTypes(c)'
      BY <1>0, <3>1, GotoIsLocal DEF HeldTypes
    <3>3. QED BY <1>1, <1>3, <3>1, <3>2, TypesAfter DEF dbVars, outsideVars
  <2>2. QED BY <1>2, <2>1, StatusFacts
<1>5. CASE InsertPipeline(c)
  <2>1. CASE ~Refuse(c, 409)
    <3> DEFINE resolved == {a \in {call[c].source, call[c].dest} \intersect Asset :
                              assets[a] # Missing}
    <3>1. /\ Goto(c, "inserted") /\ UNCHANGED <<dbVars, outsideVars, loaded, pending>>
          /\ found' = [found EXCEPT ![c] = resolved]
      BY <1>5, <2>1 DEF InsertPipeline
    <3>2. resolved \subseteq Asset
      OBVIOUS
    <3> HIDE DEF resolved
    <3>3. HeldTypes(c)'
      <4>1. found'[c] = resolved /\ at'[c] = "inserted" /\ UNCHANGED <<loaded, pending, reply>>
        BY <3>1, GotoIsLocal DEF Shape, IsFunction
      <4>2. QED BY <1>0, <3>2, <4>1 DEF HeldTypes
    <3>4. QED BY <1>1, <1>3, <3>1, <3>3, TypesAfter DEF dbVars, outsideVars
  <2>2. QED BY <1>2, <2>1, StatusFacts
<1>6. CASE ProvisionPipeline(c)
  <2> DEFINE d == call[c].dest
             missing == {o \in call[c].into : Named(d, o) = {}}
             new == IF d \in found[c] /\ call[c].create
                    THEN [asset : {d}, name : missing, by : {c}] ELSE {}
  <2>1. /\ pending' = [pending EXCEPT ![c] = new] /\ Goto(c, "provisioned")
        /\ UNCHANGED <<dbVars, catalog, seeded, loaded, found>>
    BY <1>6 DEF ProvisionPipeline
  <2>2. new \subseteq ObjectRow
    <3>1. call[c].op = "pipeline"
      BY <1>6 DEF ProvisionPipeline, Requests, OpAt
    <3>2. missing \subseteq Object /\ found[c] \subseteq Asset
      BY <1>0, <3>1, AskedFields DEF HeldTypes
    <3> HIDE DEF missing
    <3>3. QED BY <3>2 DEF ObjectRow
  <2> HIDE DEF new
  <2>3. HeldTypes(c)'
    <3>1. pending'[c] = new /\ at'[c] = "provisioned" /\ UNCHANGED <<loaded, found, reply>>
      BY <2>1, GotoIsLocal DEF Shape, IsFunction
    <3>2. QED BY <1>0, <2>2, <3>1 DEF HeldTypes
  <2>4. QED BY <1>1, <1>3, <2>1, <2>3, TypesAfter DEF dbVars
<1>7. CASE CommitPipeline(c)
  <2>1. /\ objects' = objects \union pending[c] /\ pending' = [pending EXCEPT ![c] = {}]
        /\ Goto(c, "registered") /\ UNCHANGED <<endpoints, assets, catalog, seeded, loaded, found>>
    BY <1>7 DEF CommitPipeline, outsideVars
  <2>2. Stored' /\ AssetsStay
    BY <1>0, <2>1 DEF ServerTypes, Stored, AssetsStay, HeldTypes
  <2>3. HeldTypes(c)'
    <3>1. pending'[c] = {} /\ at'[c] = "registered" /\ UNCHANGED <<loaded, found, reply>>
      BY <2>1, GotoIsLocal DEF Shape, IsFunction
    <3>2. QED BY <1>0, <3>1 DEF HeldTypes
  <2>4. QED BY <1>1, <2>2, <2>3, TypesAfter
<1>8. CASE WriteDagFile(c)
  <2>1. Answer(c, 201) /\ UNCHANGED <<endpoints, assets, objects, catalog, seeded>>
    BY <1>8 DEF WriteDagFile, dbVars
  <2>2. QED BY <1>3, <2>1, AnswerTypes, StatusFacts
<1>9. QED BY <1>4, <1>5, <1>6, <1>7, <1>8

(* A script's own unit of work, DAG files, triggers and look-ups.          *)
LEMMA OtherTypes ==
  ASSUME Shape, Requests, ServerTypes, NEW c \in Client,
         \/ FindDirect(c) \/ CommitDirect(c) \/ WriteOwnDagFile(c) \/ TriggerRun(c)
         \/ LookUpPipeline(c)
  PROVE  ServerTypes'
<1>0. call[c] \in Asked \union {NoCall} /\ HeldTypes(c)
  BY DEF Requests, ServerTypes
<1>1. ASSUME NEW status \in Reply, Refuse(c, status) PROVE ServerTypes'
  BY <1>1, RefuseTypes
<1>2. ASSUME UNCHANGED <<endpoints, assets, objects, catalog, seeded>> PROVE Stored' /\ AssetsStay
  BY <1>2 DEF ServerTypes, Stored, AssetsStay
<1>3. CASE FindDirect(c)
  <2> DEFINE lacking == {a \in call[c].assets : assets[a] = Missing}
  <2>1. /\ Goto(c, "checked") /\ UNCHANGED <<dbVars, outsideVars, loaded, pending>>
        /\ found' = [found EXCEPT ![c] = lacking] /\ call[c].op = "direct"
    BY <1>3 DEF FindDirect, Received
  <2>2. lacking \subseteq Asset
    BY <1>0, <2>1, AskedFields, NamesAssumption
  <2> HIDE DEF lacking
  <2>3. HeldTypes(c)'
    <3>1. found'[c] = lacking /\ at'[c] = "checked" /\ UNCHANGED <<loaded, pending, reply>>
      BY <2>1, GotoIsLocal DEF Shape, IsFunction
    <3>2. QED BY <1>0, <2>2, <3>1 DEF HeldTypes
  <2>4. OthersStay(c)
    BY <1>3, ServeIsLocal DEF Serve
  <2>5. QED BY <1>2, <2>1, <2>3, <2>4, TypesAfter DEF dbVars, outsideVars
<1>4. CASE CommitDirect(c)
  <2> DEFINE new == [state |-> "active", endpoint |-> call[c].endpoint]
  <2>1. CASE ~Refuse(c, 500)
    <3>1. /\ assets' = [a \in Asset |-> IF a \in found[c] THEN new ELSE assets[a]]
          /\ endpoints' = endpoints \union {call[c].endpoint} /\ Answer(c, 201)
          /\ UNCHANGED <<objects, outsideVars>> /\ at[c] = "checked"
      BY <1>4, <2>1 DEF CommitDirect
    <3>2. call[c].op = "direct"
      BY <3>1 DEF Requests, OpAt
    <3>3. call[c].endpoint \in Endpoint
      BY <1>0, <3>2, AskedFields
    <3>4. new \in Row /\ new # Missing
      BY <3>3, RowFacts
    <3> HIDE DEF new
    <3>5. Stored' /\ AssetsStay
      BY <3>1, <3>3, <3>4 DEF ServerTypes, Stored, AssetsStay, outsideVars
    <3>6. QED BY <3>1, <3>5, AnswerTypes, StatusFacts
  <2>2. QED BY <1>1, <2>1, StatusFacts
<1>5. CASE WriteOwnDagFile(c)
  <2>1. Answer(c, 201) /\ UNCHANGED <<endpoints, assets, objects, catalog, seeded>>
    BY <1>5 DEF WriteOwnDagFile, dbVars
  <2>2. QED BY <1>2, <2>1, AnswerTypes, StatusFacts
<1>6. CASE TriggerRun(c)
  <2>1. CASE ~Refuse(c, 404)
    <3>1. Answer(c, 201) /\ UNCHANGED <<endpoints, assets, objects, catalog, seeded>>
      BY <1>6, <2>1 DEF TriggerRun, dbVars
    <3>2. QED BY <1>2, <3>1, AnswerTypes, StatusFacts
  <2>2. QED BY <1>1, <2>1, StatusFacts
<1>7. CASE LookUpPipeline(c)
  <2>1. \E status \in {200, 404} : Refuse(c, status)
    BY <1>7 DEF LookUpPipeline
  <2>2. QED BY <1>1, <2>1, StatusFacts
<1>8. QED BY <1>3, <1>4, <1>5, <1>6, <1>7

(* The assets a request is about.                                          *)
LEMMA ConcernedIs ==
  ASSUME NEW q
  PROVE  /\ q.op \in {"asset", "activate", "update", "discover"} => Concerned(q) = {q.asset}
         /\ q.op = "direct" => Concerned(q) = q.assets
         /\ q.op = "pipeline" => Concerned(q) = {q.source, q.dest} \intersect Asset
         /\ q.op \notin {"asset", "activate", "update", "discover", "direct", "pipeline"} =>
              Concerned(q) = {}
<1>1. q.op \in {"asset", "activate", "update", "discover"} => Concerned(q) = {q.asset}
  BY DEF Concerned
<1>2. q.op = "direct" => Concerned(q) = q.assets
  BY DEF Concerned
<1>3. q.op = "pipeline" => Concerned(q) = {q.source, q.dest} \intersect Asset
  BY DEF Concerned
<1>4. q.op \notin {"asset", "activate", "update", "discover", "direct", "pipeline"} =>
        Concerned(q) = {}
  BY DEF Concerned
<1>5. QED BY <1>1, <1>2, <1>3, <1>4

(* They are assets.                                                        *)
LEMMA ConcernedAssets == ASSUME NEW q \in Asked \union {NoCall} PROVE Concerned(q) \subseteq Asset
<1>1. "transactions_csv_asset" \in Asset
  BY NamesAssumption
<1>2. CASE q.op \in {"asset", "activate", "update", "discover"}
  BY <1>2, ConcernedIs, AskedFields
<1>3. CASE q.op = "direct"
  BY <1>1, <1>3, ConcernedIs, AskedFields
<1>4. CASE q.op \notin {"asset", "activate", "update", "discover", "direct"}
  BY <1>4, ConcernedIs
<1>5. QED BY <1>2, <1>3, <1>4

(* Every step keeps the types of what is stored and held.                  *)
LEMMA StepServerTypes == Shape /\ Requests /\ ServerTypes /\ [Next]_vars => ServerTypes'
<1> SUFFICES ASSUME Shape, Requests, ServerTypes, [Next]_vars PROVE ServerTypes'
  OBVIOUS
<1>1. ASSUME UNCHANGED <<endpoints, assets, objects, catalog, seeded>> PROVE Stored' /\ AssetsStay
  BY <1>1 DEF ServerTypes, Stored, AssetsStay
<1>2. ASSUME NEW c \in Client, Send(c) PROVE ServerTypes'
  <2>1. /\ UNCHANGED <<dbVars, outsideVars, loaded, pending, found, reply>>
        /\ at'[c] = "received" /\ OthersStay(c)
    BY <1>2 DEF Send, Request, Shape, IsFunction, OthersStay
  <2>2. HeldTypes(c)'
    BY <2>1 DEF ServerTypes, HeldTypes
  <2>3. QED BY <1>1, <2>1, <2>2, TypesAfter DEF dbVars, outsideVars
<1>3. ASSUME NEW c \in Client, HandleAnswer(c) PROVE ServerTypes'
  <2>1. /\ UNCHANGED <<dbVars, outsideVars, loaded, pending, found>>
        /\ at'[c] = "idle" /\ reply'[c] = Lost /\ OthersStay(c)
    BY <1>3 DEF HandleAnswer, Shape, IsFunction, OthersStay
  <2>2. HeldTypes(c)'
    BY <2>1, StatusFacts DEF ServerTypes, HeldTypes
  <2>3. QED BY <1>1, <2>1, <2>2, TypesAfter DEF dbVars, outsideVars
<1>4. ASSUME NEW c \in Client, NoRoute(c) PROVE ServerTypes'
  BY <1>4, RefuseTypes, StatusFacts DEF NoRoute
<1>5. ASSUME NEW c \in Client, Cut(c) PROVE ServerTypes'
  <2>1. \E status \in Reply : Answer(c, status)
    BY <1>5, StatusFacts DEF Cut
  <2>2. UNCHANGED <<endpoints, assets, objects, catalog, seeded>>
    BY <1>5 DEF Cut, dbVars, outsideVars
  <2>3. QED BY <1>1, <2>1, <2>2, AnswerTypes
<1>6. ASSUME NEW c \in Client, Serve(c) PROVE ServerTypes'
  BY <1>6, AssetTypes, DiscoveryTypes, PipelineTypes, OtherTypes DEF Serve
<1>7. ASSUME UNCHANGED vars PROVE ServerTypes'
  BY <1>7 DEF vars, serverVars, dbVars, outsideVars, requestVars, ServerTypes, Stored, HeldTypes
<1>8. QED BY <1>2, <1>3, <1>4, <1>5, <1>6, <1>7 DEF Next, Step, Done

(* The counters, and what the scripts remember.                            *)
Counted ==
  /\ faults \in 0 .. MaxFaults /\ disturbed \subseteq Asset
  /\ tries \in [Client -> 0 .. MaxTries] /\ failed \in [Client -> BOOLEAN]

(* The counters stay within their bounds, and only assets are disturbed.   *)
LEMMA StepCounted == Requests /\ Counted /\ [Next]_vars => Counted'
<1> SUFFICES ASSUME Requests, Counted, [Next]_vars PROVE Counted'
  OBVIOUS
<1>1. ASSUME UNCHANGED <<tries, failed>>, faults' \in 0 .. MaxFaults,
             \/ disturbed' = disturbed
             \/ \E c \in Client : disturbed' \subseteq disturbed \union Concerned(call[c])
      PROVE  Counted'
  BY <1>1, ConcernedAssets DEF Counted, Requests
<1>2. ASSUME NEW c \in Client, Send(c) PROVE Counted'
  <2>1. disturbed' \subseteq disturbed \union Busy /\ UNCHANGED <<faults, tries, failed>>
    BY <1>2 DEF Send, Request, scriptVars
  <2>2. Busy \subseteq Asset
    BY ConcernedAssets DEF Busy, Requests
  <2>3. QED BY <2>1, <2>2 DEF Counted
<1>3. ASSUME NEW c \in Client, HandleAnswer(c) PROVE Counted'
  <2>1. UNCHANGED <<faults, disturbed>>
    BY <1>3 DEF HandleAnswer
  <2>2. failed' \in [Client -> BOOLEAN]
    <3> DEFINE b(ok) == failed[c] \/ ~ok
    <3>1. UNCHANGED failed \/ \E ok : failed' = [failed EXCEPT ![c] = b(ok)]
      BY <1>3 DEF HandleAnswer, Proceed
    <3>2. \A ok : b(ok) \in BOOLEAN
      OBVIOUS
    <3> HIDE DEF b
    <3>3. QED BY <3>1, <3>2 DEF Counted
  <2>3. tries[c] \in 0 .. MaxTries /\ 0 \in 0 .. MaxTries
    BY DEF Counted, MaxTries
  <2>4. \/ UNCHANGED tries \/ tries' = [tries EXCEPT ![c] = 0]
        \/ tries[c] + 1 < MaxTries /\ tries' = [tries EXCEPT ![c] = tries[c] + 1]
    BY <1>3 DEF HandleAnswer, Proceed
  <2>5. tries[c] + 1 < MaxTries => tries[c] + 1 \in 0 .. MaxTries
    BY <2>3 DEF MaxTries
  <2>6. tries' \in [Client -> 0 .. MaxTries]
    BY <2>3, <2>4, <2>5 DEF Counted
  <2>7. QED BY <2>1, <2>2, <2>6 DEF Counted
<1>4. ASSUME NEW c \in Client, Cut(c), UNCHANGED scriptVars PROVE Counted'
  <2>1. faults' \in 0 .. MaxFaults
    BY <1>4, MaxFaultsAssumption DEF Cut, Counted
  <2>2. QED BY <1>1, <1>4, <2>1 DEF Cut, scriptVars
<1>5. ASSUME UNCHANGED <<faults, disturbed, scriptVars>> PROVE Counted'
  BY <1>5 DEF Counted, scriptVars
<1>6. ASSUME NEW c \in Client, NoRoute(c) PROVE Counted'
  BY <1>5, <1>6 DEF NoRoute, Refuse
<1>7. ASSUME NEW c \in Client, Serve(c), UNCHANGED scriptVars PROVE Counted'
  <2>1. UNCHANGED <<faults, disturbed>>
    BY <1>7 DEF Serve, RegisterEndpoint, RegisterAsset, LoadForActivation, CommitActivation,
         LoadForUpdate, CommitUpdate, CommitAsset, PublishAsset, SeedSource, StartDiscovery,
         CommitDiscovery, FindPipeline, InsertPipeline, ProvisionPipeline, CommitPipeline,
         WriteDagFile, FindDirect, CommitDirect, WriteOwnDagFile, TriggerRun, LookUpPipeline,
         Refuse, Goto
  <2>2. QED BY <1>5, <1>7, <2>1
<1>8. ASSUME UNCHANGED vars PROVE Counted'
  BY <1>5, <1>8 DEF vars, serverVars
<1>9. QED BY <1>2, <1>3, <1>4, <1>6, <1>7, <1>8 DEF Next, Step, Done

(* The types at the start.                                                 *)
LEMMA InitTypes == Init => ServerTypes /\ Counted
<1>1. Missing \in Row \union {Missing} /\ Lost \in Reply /\ 0 \in 0 .. MaxTries
  BY StatusFacts DEF MaxTries
<1>2. 0 \in 0 .. MaxFaults
  BY MaxFaultsAssumption
<1>3. QED BY <1>1, <1>2, FilledAssumption
          DEF Init, ServerInit, ServerTypes, Stored, HeldTypes, Counted

(* What is stored, what requests hold and what the scripts count keep      *)
(* their types: no request writes a row of another shape, or a row that    *)
(* was never there.                                                        *)
THEOREM SetupTypeCorrect == Spec => []TypeOK
<1>1. Init => ServerTypes /\ Counted
  BY InitTypes
<1>2. Shape /\ Requests /\ ServerTypes /\ Counted => TypeOK
  <2> SUFFICES ASSUME Shape, Requests, ServerTypes, Counted PROVE TypeOK
    OBVIOUS
  <2>1. assets \in [Asset -> Row \union {Missing}] /\ catalog \in [Asset -> Row \union {Missing}]
    BY DEF Shape, IsFunction, ServerTypes, Stored
  <2>2. loaded \in [Client -> Row \union {Missing}] /\ reply \in [Client -> Reply]
    BY DEF Shape, IsFunction, ServerTypes, HeldTypes
  <2>3. step \in [Client -> Nat]
    BY DEF Requests
  <2>4. QED BY <2>1, <2>2, <2>3 DEF ServerTypes, Stored, HeldTypes, Counted, TypeOK
<1>3. QED BY <1>1, <1>2, Shapes, RequestsAreKnown, StepServerTypes, StepCounted, PTL DEF Spec

-----------------------------------------------------------------------------
(* An asset whose requests did not overlap.                                *)

(* Request c is about asset a and has not ended.                           *)
On(c, a) == InProgress(c) /\ a \in Concerned(call[c])

(* Two requests about one asset disturb it.                                *)
Exclusive ==
  \A c, d \in Client, a \in Asset : c # d /\ On(c, a) /\ On(d, a) => a \in disturbed

(* A request has found and inserted rows of its own assets only, and holds *)
(* none before it begins and after it has ended.                           *)
OwnRows ==
  \A c \in Client :
    /\ found[c] \subseteq Concerned(call[c])
    /\ \A r \in pending[c] : r.asset \in Concerned(call[c])
    /\ at[c] \in {"idle", "answered"} => found[c] = {} /\ pending[c] = {}

Unique(a, rows) ==
  \A r, s \in rows : r.asset = a /\ s.asset = a /\ r.name = s.name => r = s
Sound(a) == assets[a].state = "active" => assets[a].endpoint # None
Settled(a) ==
  /\ catalog[a] \in {assets[a], Missing}
  /\ catalog[a] = Missing => assets[a] = Missing \/ a \in {"transactions_csv_asset"}

(* What request c holds of asset a is what the database has, and the rows  *)
(* it is about to commit are rows that a lacks.                            *)
Holds(c, a) ==
  /\ at[c] \in {"loaded", "committed"} => loaded[c] = assets[a]
  /\ at[c] \in {"extracted", "provisioned"} => Unique(a, objects \union pending[c])

(* An asset nobody has disturbed agrees with the catalog, except while a   *)
(* request that has committed has yet to publish it.                       *)
AgreesAt(a) ==
  /\ Sound(a) /\ Unique(a, objects)
  /\ (\A c \in Client : On(c, a) => at[c] # "committed") => Settled(a)
  /\ \A c \in Client : On(c, a) => Holds(c, a)
Agreed == \A a \in Asset \ disturbed : AgreesAt(a)

(* A step that leaves asset a alone.                                       *)
Untouched(a) ==
  /\ assets'[a] = assets[a] /\ catalog'[a] = catalog[a]
  /\ \A r : r.asset = a => (r \in objects' <=> r \in objects)

(* An asset that a step leaves alone agrees after it as before, when the   *)
(* client that has moved is not at work on it.                             *)
LEMMA UntouchedAgrees ==
  ASSUME NEW c \in Client, OthersStay(c), NEW a \in Asset, AgreesAt(a), Untouched(a),
         ~On(c, a), ~On(c, a)'
  PROVE  AgreesAt(a)'
<1>1. \A d \in Client : On(d, a)' <=> On(d, a)
  BY DEF OthersStay, On, InProgress
<1>2. \A d \in Client : On(d, a) =>
        at'[d] = at[d] /\ loaded'[d] = loaded[d] /\ pending'[d] = pending[d]
  BY DEF OthersStay
<1>3. Sound(a)' /\ Unique(a, objects)' /\ (Settled(a) => Settled(a)')
  <2>1. Sound(a)'
    BY DEF AgreesAt, Sound, Untouched
  <2>2. Unique(a, objects)'
    BY DEF AgreesAt, Unique, Untouched
  <2>3. Settled(a) => Settled(a)'
    BY DEF Settled, Untouched
  <2>4. QED BY <2>1, <2>2, <2>3
<1>4. ASSUME NEW d \in Client, On(d, a) PROVE Holds(d, a)'
  <2>1. Holds(d, a)
    BY <1>4 DEF AgreesAt
  <2>2. Unique(a, objects \union pending[d]) => Unique(a, objects \union pending[d])'
    BY <1>2, <1>4 DEF Unique, Untouched
  <2>3. QED BY <1>2, <1>4, <2>1, <2>2 DEF Holds, Untouched
<1>5. QED BY <1>1, <1>2, <1>3, <1>4 DEF AgreesAt

(* When c is the only request about a, only its own place matters.         *)
LEMMA SoleAgrees ==
  ASSUME NEW c \in Client, OthersStay(c), UNCHANGED <<call, disturbed>>, Exclusive,
         NEW a \in Asset \ disturbed, On(c, a),
         Sound(a)', Unique(a, objects)', at'[c] # "committed" => Settled(a)', Holds(c, a)'
  PROVE  AgreesAt(a)'
<1>1. \A d \in Client \ {c} : ~On(d, a)'
  BY DEF Exclusive, OthersStay, On, InProgress
<1>2. QED BY <1>1 DEF AgreesAt, On, InProgress

(* An undisturbed asset is settled while the one request about it has not  *)
(* committed.                                                              *)
LEMMA SoleSettled ==
  ASSUME NEW c \in Client, Exclusive, NEW a \in Asset \ disturbed, On(c, a), AgreesAt(a),
         at[c] # "committed"
  PROVE  Settled(a)
BY DEF Exclusive, AgreesAt

(* A step that stores and publishes nothing.                               *)
LEMMA QuietStep ==
  ASSUME Shape, NEW c \in Client, Serve(c), Exclusive, NEW a \in Asset \ disturbed, On(c, a),
         AgreesAt(a), UNCHANGED <<assets, catalog, objects>>, at[c] # "committed",
         at'[c] \notin {"loaded", "committed", "extracted", "provisioned"}
  PROVE  AgreesAt(a)'
<1>1. OthersStay(c) /\ UNCHANGED <<call, disturbed>>
  BY ServeIsLocal
<1>2. Sound(a)' /\ Unique(a, objects)' /\ Settled(a)'
  BY SoleSettled DEF AgreesAt, Sound, Unique, Settled
<1>3. Holds(c, a)'
  BY DEF Holds
<1>4. QED BY <1>1, <1>2, <1>3, SoleAgrees

(* An undisturbed asset agrees after the request about it is refused.      *)
LEMMA RefusedStep ==
  ASSUME Shape, NEW c \in Client, Serve(c), Exclusive, NEW a \in Asset \ disturbed, On(c, a),
         AgreesAt(a), NEW status, Refuse(c, status), at[c] # "committed"
  PROVE  AgreesAt(a)'
<1>1. at'[c] = "answered" /\ UNCHANGED <<assets, catalog, objects>>
  BY AnswerIsLocal DEF Refuse, dbVars, outsideVars
<1>2. QED BY <1>1, QuietStep

(* Registration, activation, update and publication of an asset.           *)
LEMMA AssetAgrees ==
  ASSUME Shape, Requests, ServerTypes, Exclusive, NEW c \in Client, Serve(c),
         NEW a \in Asset \ disturbed, On(c, a), AgreesAt(a),
         \/ RegisterAsset(c) \/ LoadForActivation(c) \/ LoadForUpdate(c)
         \/ CommitActivation(c) \/ CommitUpdate(c) \/ PublishAsset(c)
  PROVE  AgreesAt(a)'
<1>1. OthersStay(c) /\ UNCHANGED <<call, disturbed>>
  BY ServeIsLocal
<1>2. a = call[c].asset
  <2>1. call[c].op \in Writers
    <3>1. CASE RegisterAsset(c)
      BY <3>1 DEF RegisterAsset, Received, Writers
    <3>2. CASE LoadForActivation(c) \/ LoadForUpdate(c)
      BY <3>2 DEF LoadForActivation, LoadForUpdate, Received, Writers
    <3>3. CASE CommitActivation(c) \/ CommitUpdate(c)
      BY <3>3 DEF CommitActivation, CommitUpdate, Writers
    <3>4. CASE PublishAsset(c)
      BY <3>4 DEF PublishAsset, Writers
    <3>5. QED BY <3>1, <3>2, <3>3, <3>4
  <2>2. QED BY <2>1, ConcernedIs DEF Writers, On
<1>3. Sound(a) /\ Unique(a, objects) /\ Holds(c, a)
  BY DEF AgreesAt
<1>4. ASSUME NEW status, Refuse(c, status), at[c] # "committed" PROVE AgreesAt(a)'
  BY <1>4, RefusedStep
(* The row is written, and the request has it: publishing is still to come. *)
<1>5. ASSUME NEW row, row.state = "active" => row.endpoint # None,
             assets' = [assets EXCEPT ![a] = row], loaded' = [loaded EXCEPT ![c] = row],
             Goto(c, "committed"), UNCHANGED objects
      PROVE  AgreesAt(a)'
  <2>1. assets'[a] = row /\ loaded'[c] = row /\ at'[c] = "committed"
    BY <1>5, GotoIsLocal DEF Shape, IsFunction
  <2>2. Sound(a)' /\ Unique(a, objects)' /\ Holds(c, a)'
    BY <1>3, <1>5, <2>1 DEF Sound, Unique, Holds
  <2>3. QED BY <1>1, <2>1, <2>2, SoleAgrees
<1>6. ASSUME loaded' = [loaded EXCEPT ![c] = assets[a]], Goto(c, "loaded"),
             UNCHANGED <<dbVars, outsideVars>>, at[c] # "committed"
      PROVE  AgreesAt(a)'
  <2>1. /\ loaded'[c] = assets[a] /\ at'[c] = "loaded" /\ UNCHANGED <<assets, catalog, objects>>
        /\ Settled(a)
    BY <1>6, GotoIsLocal, SoleSettled DEF Shape, IsFunction, dbVars, outsideVars
  <2>2. Sound(a)' /\ Unique(a, objects)' /\ Holds(c, a)' /\ Settled(a)'
    BY <1>3, <2>1 DEF Sound, Unique, Holds, Settled
  <2>3. QED BY <1>1, <2>1, <2>2, SoleAgrees
<1>7. CASE RegisterAsset(c)
  <2>1. CASE Refuse(c, 409)
    BY <1>4, <1>7, <2>1 DEF RegisterAsset, Received
  <2>2. CASE ~Refuse(c, 409)
    BY <1>2, <1>5, <1>7, <2>2 DEF RegisterAsset, New
  <2>3. QED BY <2>1, <2>2
<1>8. CASE LoadForActivation(c)
  <2>1. CASE Refuse(c, 404) \/ Refuse(c, 422)
    BY <1>4, <1>8, <2>1 DEF LoadForActivation, Received
  <2>2. CASE ~(Refuse(c, 404) \/ Refuse(c, 422))
    BY <1>2, <1>6, <1>8, <2>2 DEF LoadForActivation, Received
  <2>3. QED BY <2>1, <2>2
<1>9. CASE LoadForUpdate(c)
  <2>1. CASE Refuse(c, 404)
    BY <1>4, <1>9, <2>1 DEF LoadForUpdate, Received
  <2>2. CASE ~Refuse(c, 404)
    BY <1>2, <1>6, <1>9, <2>2 DEF LoadForUpdate, Received
  <2>3. QED BY <2>1, <2>2
<1>10. CASE CommitActivation(c)
  <2> DEFINE row == [state |-> "active", endpoint |-> call[c].endpoint]
  <2>1. call[c].op = "activate" /\ CommitAsset(c, row)
    BY <1>10 DEF CommitActivation
  <2>2. call[c] \in Asked \union {NoCall}
    BY DEF Requests
  <2>3. row.endpoint # None
    BY <2>1, <2>2, AskedFields, NoneAssumption
  <2> HIDE DEF row
  <2>4. QED BY <1>2, <1>5, <2>1, <2>3 DEF CommitAsset
<1>11. CASE CommitUpdate(c)
  <2> DEFINE e == IF call[c].endpoint = None THEN loaded[c].endpoint ELSE call[c].endpoint
             row == [state |-> assets[a].state, endpoint |-> e]
  <2>1. at[c] = "loaded" /\ CommitAsset(c, row)
    BY <1>2, <1>11 DEF CommitUpdate
  <2>2. loaded[c] = assets[a]
    BY <1>3, <2>1 DEF Holds
  <2>3. row.state = "active" => row.endpoint # None
    BY <1>3, <2>2 DEF Sound
  <2> HIDE DEF row
  <2>4. QED BY <1>2, <1>5, <2>1, <2>3 DEF CommitAsset
<1>12. CASE PublishAsset(c)
  <2>1. /\ at[c] = "committed" /\ catalog' = [catalog EXCEPT ![a] = loaded[c]]
        /\ UNCHANGED dbVars /\ \E status : Answer(c, status)
    BY <1>2, <1>12 DEF PublishAsset
  <2>2. catalog'[a] = assets[a] /\ UNCHANGED <<assets, objects>> /\ at'[c] = "answered"
    BY <1>3, <2>1, AnswerIsLocal DEF Holds, Shape, IsFunction, dbVars
  <2>3. Sound(a)' /\ Unique(a, objects)' /\ Holds(c, a)' /\ Settled(a)'
    BY <1>3, <2>2 DEF Sound, Unique, Holds, Settled
  <2>4. QED BY <1>1, <2>3, SoleAgrees
<1>13. QED BY <1>7, <1>8, <1>9, <1>10, <1>11, <1>12

(* Rows that a request is about to insert, of names the asset lacks.       *)
LEMMA NewRowsAreUnique ==
  ASSUME NEW a, NEW rows \in SUBSET ObjectRow, Unique(a, rows), NEW c, NEW b, NEW names,
         \A o \in names : {r \in rows : r.asset = b /\ r.name = o} = {}
  PROVE  Unique(a, rows \union [asset : {b}, name : names, by : {c}])
<1> DEFINE new == [asset : {b}, name : names, by : {c}]
<1>1. \A r \in new : r.asset = b /\ r.name \in names
  OBVIOUS
<1>2. \A r, s \in new : r.name = s.name => r = s
  OBVIOUS
<1>3. \A r \in rows, s \in new : ~(r.asset = s.asset /\ r.name = s.name)
  BY <1>1
<1> HIDE DEF new
<1>4. Unique(a, rows \union new)
  BY <1>2, <1>3 DEF Unique
<1>5. QED BY <1>4 DEF new

(* Discovery and the registration of a pipeline, which insert rows of      *)
(* objects.                                                                *)
LEMMA ObjectsAgree ==
  ASSUME Shape, Requests, ServerTypes, Exclusive, OwnRows, NEW c \in Client, Serve(c),
         NEW a \in Asset \ disturbed, On(c, a), AgreesAt(a),
         \/ StartDiscovery(c) \/ CommitDiscovery(c) \/ ProvisionPipeline(c) \/ CommitPipeline(c)
         \/ CommitDirect(c)
  PROVE  AgreesAt(a)'
<1>1. OthersStay(c) /\ UNCHANGED <<call, disturbed>>
  BY ServeIsLocal
<1>2. Sound(a) /\ Unique(a, objects) /\ Holds(c, a) /\ objects \subseteq ObjectRow
  BY DEF AgreesAt, ServerTypes, Stored
<1>3. at[c] # "committed" => Settled(a)
  BY SoleSettled
<1>4. CASE StartDiscovery(c)
  <2> DEFINE b == call[c].asset
             e == assets[b].endpoint
             source == IF e \in seeded THEN SourceOf(e) ELSE {}
             names == {o \in source : Named(b, o) = {}}
             new == [asset : {b}, name : names, by : {c}]
  <2>1. CASE Refuse(c, 404) \/ Refuse(c, 422)
    BY <1>4, <2>1, RefusedStep DEF StartDiscovery, Received
  <2>2. CASE ~(Refuse(c, 404) \/ Refuse(c, 422))
    <3>1. /\ pending' = [pending EXCEPT ![c] = new] /\ Goto(c, "extracted")
          /\ UNCHANGED <<dbVars, outsideVars>> /\ at[c] = "received"
      BY <1>4, <2>2 DEF StartDiscovery, Received
    <3>2. Unique(a, objects \union new)
      <4>1. \A o \in names : {r \in objects : r.asset = b /\ r.name = o} = {}
        BY DEF Named
      <4> HIDE DEF names
      <4>2. QED BY <1>2, <4>1, NewRowsAreUnique
    <3> HIDE DEF new
    <3>3. /\ pending'[c] = new /\ at'[c] = "extracted" /\ UNCHANGED <<assets, catalog, objects>>
      BY <3>1, GotoIsLocal DEF Shape, IsFunction, dbVars, outsideVars
    <3>4. Sound(a)' /\ Unique(a, objects)' /\ Holds(c, a)' /\ Settled(a)'
      BY <1>2, <1>3, <3>1, <3>2, <3>3 DEF Sound, Unique, Holds, Settled
    <3>5. QED BY <1>1, <3>4, SoleAgrees
  <2>3. QED BY <2>1, <2>2
<1>5. ASSUME Unique(a, objects \union pending[c]), objects' = objects \union pending[c],
             UNCHANGED <<assets, catalog>>, at[c] # "committed",
             at'[c] \in {"answered", "registered"}
      PROVE  AgreesAt(a)'
  <2>1. Sound(a)' /\ Unique(a, objects)' /\ Holds(c, a)' /\ Settled(a)'
    BY <1>2, <1>3, <1>5 DEF Sound, Unique, Holds, Settled
  <2>2. QED BY <1>1, <2>1, SoleAgrees
<1>6. CASE CommitDiscovery(c)
  <2>1. /\ at[c] = "extracted" /\ objects' = objects \union pending[c]
        /\ UNCHANGED <<assets, catalog>> /\ at'[c] = "answered"
    BY <1>6, AnswerIsLocal DEF CommitDiscovery, outsideVars
  <2>2. QED BY <1>2, <1>5, <2>1 DEF Holds
<1>7. CASE CommitPipeline(c)
  <2>1. /\ at[c] = "provisioned" /\ objects' = objects \union pending[c]
        /\ UNCHANGED <<assets, catalog>> /\ at'[c] = "registered"
    BY <1>7, GotoIsLocal DEF CommitPipeline, outsideVars
  <2>2. QED BY <1>2, <1>5, <2>1 DEF Holds
<1>8. CASE ProvisionPipeline(c)
  <2> DEFINE d == call[c].dest
             names == {o \in call[c].into : Named(d, o) = {}}
             rows == [asset : {d}, name : names, by : {c}]
             new == IF d \in found[c] /\ call[c].create THEN rows ELSE {}
  <2>1. /\ pending' = [pending EXCEPT ![c] = new] /\ Goto(c, "provisioned")
        /\ UNCHANGED <<dbVars, catalog>> /\ at[c] = "inserted"
    BY <1>8 DEF ProvisionPipeline
  <2>2. Unique(a, objects \union new)
    <3>1. \A o \in names : {r \in objects : r.asset = d /\ r.name = o} = {}
      BY DEF Named
    <3> HIDE DEF names
    <3>2. Unique(a, objects \union rows)
      BY <1>2, <3>1, NewRowsAreUnique
    <3> HIDE DEF rows
    <3>3. QED BY <1>2, <3>2 DEF Unique
  <2> HIDE DEF new
  <2>3. /\ pending'[c] = new /\ at'[c] = "provisioned" /\ UNCHANGED <<assets, catalog, objects>>
    BY <2>1, GotoIsLocal DEF Shape, IsFunction, dbVars
  <2>4. Sound(a)' /\ Unique(a, objects)' /\ Holds(c, a)' /\ Settled(a)'
    BY <1>2, <1>3, <2>1, <2>2, <2>3 DEF Sound, Unique, Holds, Settled
  <2>5. QED BY <1>1, <2>4, SoleAgrees
<1>9. CASE CommitDirect(c)
  <2> DEFINE new == [state |-> "active", endpoint |-> call[c].endpoint]
  <2>1. CASE Refuse(c, 500)
    BY <1>9, <2>1, RefusedStep DEF CommitDirect
  <2>2. CASE ~Refuse(c, 500)
    <3>1. /\ at[c] = "checked" /\ \A b \in found[c] : assets[b] = Missing
          /\ assets' = [b \in Asset |-> IF b \in found[c] THEN new ELSE assets[b]]
          /\ UNCHANGED <<objects, catalog>> /\ Answer(c, 201)
      BY <1>9, <2>2 DEF CommitDirect, outsideVars
    <3>2. call[c].op = "direct" /\ call[c] \in Asked \union {NoCall}
      BY <3>1 DEF Requests, OpAt
    <3>3. call[c].endpoint # None /\ a \in {"transactions_csv_asset"}
      BY <3>2, AskedFields, ConcernedIs, NoneAssumption DEF On
    <3>4. new.state = "active" /\ new.endpoint # None
      BY <3>3
    <3> HIDE DEF new
    <3>5. at'[c] = "answered" /\ Settled(a)
      BY <1>3, <3>1, AnswerIsLocal
    <3>6. assets'[a] = IF a \in found[c] THEN new ELSE assets[a]
      BY <3>1
    <3>7. Sound(a)' /\ Unique(a, objects)' /\ Holds(c, a)'
      BY <1>2, <3>1, <3>4, <3>5, <3>6 DEF Sound, Unique, Holds
    <3>8. Settled(a)'
      BY <3>1, <3>3, <3>5, <3>6 DEF Settled
    <3>9. QED BY <1>1, <3>7, <3>8, SoleAgrees
  <2>3. QED BY <2>1, <2>2
<1>10. QED BY <1>4, <1>6, <1>7, <1>8, <1>9

(* The requests that write no row of an asset, and a script's own unit of  *)
(* work.                                                                   *)
LEMMA OtherAgrees ==
  ASSUME Shape, Exclusive, NEW c \in Client, Serve(c),
         NEW a \in Asset \ disturbed, On(c, a), AgreesAt(a),
         \/ RegisterEndpoint(c) \/ SeedSource(c) \/ FindPipeline(c) \/ InsertPipeline(c)
         \/ WriteDagFile(c) \/ FindDirect(c) \/ WriteOwnDagFile(c) \/ TriggerRun(c)
         \/ LookUpPipeline(c)
  PROVE  AgreesAt(a)'
<1> DEFINE Quietly == /\ UNCHANGED <<assets, catalog, objects>> /\ at[c] # "committed"
                      /\ at'[c] \notin {"loaded", "committed", "extracted", "provisioned"}
<1>1. ASSUME NEW status, Refuse(c, status), at[c] # "committed" PROVE Quietly
  BY <1>1, AnswerIsLocal DEF Refuse, dbVars, outsideVars
<1>2. ASSUME NEW status, Answer(c, status), UNCHANGED <<assets, catalog, objects>>,
             at[c] # "committed"
      PROVE  Quietly
  BY <1>2, AnswerIsLocal
<1>3. ASSUME NEW place, Goto(c, place), UNCHANGED <<assets, catalog, objects>>, at[c] # "committed",
             place \in {"unnamed", "inserted", "checked"}
      PROVE  Quietly
  BY <1>3, GotoIsLocal
<1> HIDE DEF Quietly
<1> USE DEF Received, dbVars, outsideVars
<1>4. CASE RegisterEndpoint(c) \/ SeedSource(c)
  BY <1>1, <1>2, <1>4, QuietStep DEF RegisterEndpoint, SeedSource, Quietly
<1>5. CASE FindPipeline(c)
  <2>1. Quietly
    BY <1>1, <1>3, <1>5 DEF FindPipeline
  <2>2. QED BY <2>1, QuietStep DEF Quietly
<1>6. CASE InsertPipeline(c)
  <2>1. Quietly
    BY <1>1, <1>3, <1>6 DEF InsertPipeline
  <2>2. QED BY <2>1, QuietStep DEF Quietly
<1>7. CASE WriteDagFile(c) \/ WriteOwnDagFile(c) \/ TriggerRun(c)
  <2>1. Quietly
    BY <1>1, <1>2, <1>7 DEF WriteDagFile, WriteOwnDagFile, TriggerRun
  <2>2. QED BY <2>1, QuietStep DEF Quietly
<1>8. CASE FindDirect(c)
  <2>1. Quietly
    BY <1>3, <1>8 DEF FindDirect
  <2>2. QED BY <2>1, QuietStep DEF Quietly
<1>9. CASE LookUpPipeline(c)
  <2>1. Quietly
    BY <1>1, <1>9 DEF LookUpPipeline
  <2>2. QED BY <2>1, QuietStep DEF Quietly
<1>10. QED BY <1>4, <1>5, <1>6, <1>7, <1>8, <1>9

(* A request stores and publishes nothing about another asset.             *)
LEMMA ServeTouches ==
  ASSUME Shape, Requests, OwnRows, NEW c \in Client, Serve(c), NEW a \in Asset \ Concerned(call[c])
  PROVE  Untouched(a)
<1>0. /\ found[c] \subseteq Concerned(call[c])
      /\ \A r \in pending[c] : r.asset \in Concerned(call[c])
      /\ call[c] \in Asked \union {NoCall}
  BY DEF OwnRows, Requests
<1>1. ASSUME UNCHANGED <<assets, catalog, objects>> PROVE Untouched(a)
  BY <1>1 DEF Untouched
<1>2. ASSUME UNCHANGED <<assets, catalog>>, objects' = objects \union pending[c] PROVE Untouched(a)
  BY <1>0, <1>2 DEF Untouched
<1>3. CASE CommitDiscovery(c) \/ CommitPipeline(c)
  BY <1>2, <1>3 DEF CommitDiscovery, CommitPipeline, outsideVars
<1>4. CASE \/ RegisterAsset(c) \/ CommitActivation(c) \/ CommitUpdate(c) \/ PublishAsset(c)
  <2>1. call[c].op \in Writers
    BY <1>4 DEF RegisterAsset, Received, CommitActivation, CommitUpdate, PublishAsset, Writers
  <2>2. call[c].asset # a
    BY <2>1, ConcernedIs DEF Writers
  <2>3. UNCHANGED objects
    BY <1>4 DEF RegisterAsset, CommitActivation, CommitUpdate, CommitAsset, PublishAsset, Refuse,
         dbVars
  <2>4. assets'[a] = assets[a]
    BY <1>4, <2>2 DEF RegisterAsset, CommitActivation, CommitUpdate, CommitAsset, PublishAsset,
         Refuse, dbVars, Shape, IsFunction
  <2>5. catalog'[a] = catalog[a]
    BY <1>4, <2>2 DEF RegisterAsset, CommitActivation, CommitUpdate, CommitAsset, PublishAsset,
         Refuse, outsideVars, Shape, IsFunction
  <2>6. QED BY <2>3, <2>4, <2>5 DEF Untouched
<1>5. CASE CommitDirect(c)
  <2>1. UNCHANGED <<catalog, objects>> /\ (a \notin found[c] => assets'[a] = assets[a])
    BY <1>5 DEF CommitDirect, Refuse, dbVars, outsideVars
  <2>2. QED BY <1>0, <2>1 DEF Untouched
<1>6. CASE \/ RegisterEndpoint(c) \/ LoadForActivation(c) \/ LoadForUpdate(c) \/ SeedSource(c)
           \/ StartDiscovery(c) \/ FindPipeline(c) \/ InsertPipeline(c) \/ ProvisionPipeline(c)
           \/ WriteDagFile(c) \/ FindDirect(c) \/ WriteOwnDagFile(c) \/ TriggerRun(c)
           \/ LookUpPipeline(c)
  BY <1>1, <1>6 DEF RegisterEndpoint, LoadForActivation, LoadForUpdate, SeedSource, StartDiscovery,
       FindPipeline, InsertPipeline, ProvisionPipeline, WriteDagFile, FindDirect, WriteOwnDagFile,
       TriggerRun, LookUpPipeline, Refuse, dbVars, outsideVars
<1>7. QED BY <1>3, <1>4, <1>5, <1>6 DEF Serve

(* A request that begins while another is about its asset disturbs the     *)
(* asset.                                                                  *)
LEMMA StepExclusive == Shape /\ Exclusive /\ [Next]_vars => Exclusive'
<1> SUFFICES ASSUME Shape, Exclusive, [Next]_vars PROVE Exclusive'
  OBVIOUS
<1>1. ASSUME disturbed \subseteq disturbed',
             \A c \in Client, a \in Asset : On(c, a)' => On(c, a)
      PROVE  Exclusive'
  BY <1>1 DEF Exclusive
<1>2. ASSUME NEW c \in Client, Send(c) PROVE Exclusive'
  <2> DEFINE q == Current(c).request
  <2>1. /\ at[c] = "idle" /\ call' = [call EXCEPT ![c] = q] /\ at' = [at EXCEPT ![c] = "received"]
        /\ disturbed' = disturbed \union (Concerned(q) \intersect Busy)
    BY <1>2 DEF Send, Request
  <2> HIDE DEF q
  <2>2. call'[c] = q /\ \A d \in Client \ {c} : at'[d] = at[d] /\ call'[d] = call[d]
    BY <2>1 DEF Shape, IsFunction
  <2>3. \A d \in Client \ {c}, a \in Asset : On(d, a)' => On(d, a) /\ a \in Busy
    BY <2>2 DEF On, InProgress, Busy
  <2>4. \A a \in Asset : On(c, a)' => a \in Concerned(q)
    BY <2>2 DEF On
  <2>5. QED BY <2>1, <2>3, <2>4 DEF Exclusive
<1>3. ASSUME NEW c \in Client, HandleAnswer(c) PROVE Exclusive'
  <2>1. UNCHANGED disturbed /\ at'[c] = "idle"
        /\ \A d \in Client \ {c} : at'[d] = at[d] /\ call'[d] = call[d]
    BY <1>3 DEF HandleAnswer, Shape, IsFunction
  <2>2. QED BY <1>1, <2>1 DEF On, InProgress
<1>4. ASSUME NEW c \in Client, Cut(c) \/ NoRoute(c) PROVE Exclusive'
  <2>1. disturbed \subseteq disturbed' /\ \E status : Answer(c, status)
    BY <1>4 DEF Cut, NoRoute, Refuse
  <2>2. UNCHANGED call /\ at'[c] = "answered" /\ \A d \in Client \ {c} : at'[d] = at[d]
    BY <2>1, AnswerIsLocal DEF OthersStay
  <2>3. QED BY <1>1, <2>1, <2>2 DEF On, InProgress
<1>5. ASSUME NEW c \in Client, Serve(c) PROVE Exclusive'
  BY <1>1, <1>5, ServeIsLocal DEF OthersStay, On, InProgress
<1>6. ASSUME UNCHANGED vars PROVE Exclusive'
  BY <1>1, <1>6 DEF vars, serverVars, requestVars, On, InProgress
<1>7. QED BY <1>2, <1>3, <1>4, <1>5, <1>6 DEF Next, Step, Done

(* A request finds and inserts rows of its own assets only.                *)
LEMMA StepOwnRows == Shape /\ Requests /\ OwnRows /\ [Next]_vars => OwnRows'
<1> SUFFICES ASSUME Shape, Requests, OwnRows, [Next]_vars PROVE OwnRows'
  OBVIOUS
<1> DEFINE Own(c) == /\ found[c] \subseteq Concerned(call[c])
                     /\ \A r \in pending[c] : r.asset \in Concerned(call[c])
                     /\ at[c] \in {"idle", "answered"} => found[c] = {} /\ pending[c] = {}
<1>0. \A c \in Client : Own(c) /\ call[c] \in Asked \union {NoCall}
  BY DEF OwnRows, Requests
<1>1. ASSUME NEW c \in Client, OthersStay(c), Own(c)' PROVE OwnRows'
  BY <1>0, <1>1 DEF OthersStay, OwnRows
<1>2. ASSUME NEW c \in Client, Send(c) PROVE OwnRows'
  <2>1. OthersStay(c) /\ UNCHANGED <<pending, found>> /\ at[c] = "idle" /\ at'[c] = "received"
    BY <1>2 DEF Send, Request, Shape, IsFunction, OthersStay
  <2>2. QED BY <1>0, <1>1, <2>1
<1>3. ASSUME NEW c \in Client, HandleAnswer(c) PROVE OwnRows'
  <2>1. OthersStay(c) /\ UNCHANGED <<pending, found>> /\ at[c] = "answered" /\ at'[c] = "idle"
    BY <1>3 DEF HandleAnswer, Shape, IsFunction, OthersStay
  <2>2. QED BY <1>0, <1>1, <2>1
<1>4. ASSUME NEW c \in Client, NEW status, Answer(c, status) PROVE OwnRows'
  BY <1>1, <1>4, AnswerIsLocal
<1>5. ASSUME NEW c \in Client, Cut(c) \/ NoRoute(c) PROVE OwnRows'
  BY <1>4, <1>5 DEF Cut, NoRoute, Refuse
<1>6. ASSUME NEW c \in Client, Serve(c) PROVE OwnRows'
  <2>0. OthersStay(c) /\ UNCHANGED call /\ InProgress(c)
    BY <1>6, ServeIsLocal
  <2>1. ASSUME NEW place, Goto(c, place), place \notin {"idle", "answered"},
                    UNCHANGED <<pending, found>>
        PROVE  OwnRows'
    BY <1>0, <1>1, <2>0, <2>1, GotoIsLocal
  <2>2. ASSUME NEW status, Refuse(c, status) PROVE OwnRows'
    BY <1>4, <2>2 DEF Refuse
  <2>3. CASE RegisterEndpoint(c) \/ SeedSource(c) \/ CommitDiscovery(c) \/ WriteDagFile(c)
    BY <1>4, <2>2, <2>3 DEF RegisterEndpoint, SeedSource, CommitDiscovery, WriteDagFile
  <2>4. CASE CommitDirect(c) \/ WriteOwnDagFile(c) \/ TriggerRun(c) \/ LookUpPipeline(c)
             \/ PublishAsset(c)
    BY <1>4, <2>2, <2>4 DEF CommitDirect, WriteOwnDagFile, TriggerRun, LookUpPipeline, PublishAsset
  <2>5. CASE RegisterAsset(c) \/ CommitActivation(c) \/ CommitUpdate(c)
    BY <2>1, <2>2, <2>5 DEF RegisterAsset, CommitActivation, CommitUpdate, CommitAsset
  <2>6. CASE LoadForActivation(c) \/ LoadForUpdate(c)
    BY <2>1, <2>2, <2>6 DEF LoadForActivation, LoadForUpdate
  <2>7. CASE FindPipeline(c)
    BY <2>1, <2>2, <2>7 DEF FindPipeline
  <2>8. CASE StartDiscovery(c)
    <3>1. CASE ~(Refuse(c, 404) \/ Refuse(c, 422))
      <4>1. /\ call[c].op = "discover" /\ Goto(c, "extracted") /\ UNCHANGED found
            /\ \E names : pending' = [pending EXCEPT ![c] =
                            [asset : {call[c].asset}, name : names, by : {c}]]
        BY <2>8, <3>1 DEF StartDiscovery, Received
      <4>2. Concerned(call[c]) = {call[c].asset}
        BY <4>1, ConcernedIs
      <4>3. \A r \in pending'[c] : r.asset = call[c].asset
        BY <4>1 DEF Shape, IsFunction
      <4>4. at'[c] = "extracted"
        BY <4>1, GotoIsLocal
      <4>5. QED BY <1>0, <1>1, <2>0, <4>1, <4>2, <4>3, <4>4
    <3>2. QED BY <2>2, <3>1
  <2>9. CASE InsertPipeline(c)
    <3>1. CASE ~Refuse(c, 409)
      <4>1. /\ Goto(c, "inserted") /\ UNCHANGED pending /\ call[c].op = "pipeline"
            /\ found' = [found EXCEPT ![c] =
                 {b \in {call[c].source, call[c].dest} \intersect Asset : assets[b] # Missing}]
        BY <2>9, <3>1 DEF InsertPipeline, Requests, OpAt
      <4>2. found'[c] \subseteq Concerned(call[c])
        BY <4>1, ConcernedIs DEF Shape, IsFunction
      <4>3. at'[c] = "inserted"
        BY <4>1, GotoIsLocal
      <4>4. QED BY <1>0, <1>1, <2>0, <4>1, <4>2, <4>3
    <3>2. QED BY <2>2, <3>1
  <2>10. CASE ProvisionPipeline(c)
    <3> DEFINE d == call[c].dest
               rows == [asset : {d}, name : {o \in call[c].into : Named(d, o) = {}}, by : {c}]
               new == IF d \in found[c] /\ call[c].create THEN rows ELSE {}
    <3>1. /\ Goto(c, "provisioned") /\ UNCHANGED found /\ pending' = [pending EXCEPT ![c] = new]
      BY <2>10 DEF ProvisionPipeline
    <3>2. \A r \in new : r.asset \in found[c]
      OBVIOUS
    <3> HIDE DEF new
    <3>3. pending'[c] = new /\ at'[c] = "provisioned"
      BY <3>1, GotoIsLocal DEF Shape, IsFunction
    <3>4. QED BY <1>0, <1>1, <2>0, <3>1, <3>2, <3>3
  <2>11. CASE CommitPipeline(c)
    <3>1. /\ Goto(c, "registered") /\ UNCHANGED found /\ pending' = [pending EXCEPT ![c] = {}]
      BY <2>11 DEF CommitPipeline
    <3>2. pending'[c] = {} /\ at'[c] = "registered"
      BY <3>1, GotoIsLocal DEF Shape, IsFunction
    <3>3. QED BY <1>0, <1>1, <2>0, <3>1, <3>2
  <2>12. CASE FindDirect(c)
    <3>1. /\ Goto(c, "checked") /\ UNCHANGED pending /\ call[c].op = "direct"
          /\ found' = [found EXCEPT ![c] = {b \in call[c].assets : assets[b] = Missing}]
      BY <2>12 DEF FindDirect, Received
    <3>2. found'[c] \subseteq Concerned(call[c]) /\ at'[c] = "checked"
      BY <3>1, ConcernedIs, GotoIsLocal DEF Shape, IsFunction
    <3>3. QED BY <1>0, <1>1, <2>0, <3>1, <3>2
  <2>13. QED BY <1>6, <2>3, <2>4, <2>5, <2>6, <2>7, <2>8, <2>9, <2>10, <2>11, <2>12 DEF Serve
<1>7. ASSUME UNCHANGED vars PROVE OwnRows'
  BY <1>7 DEF vars, serverVars, requestVars, OwnRows
<1>8. QED BY <1>2, <1>3, <1>5, <1>6, <1>7 DEF Next, Step, Done

(* Every step keeps undisturbed assets in agreement.                       *)
LEMMA StepAgreed ==
  Shape /\ Requests /\ ServerTypes /\ Exclusive /\ OwnRows /\ Agreed /\ [Next]_vars => Agreed'
<1> SUFFICES ASSUME Shape, Requests, ServerTypes, Exclusive, OwnRows, Agreed, [Next]_vars,
                    NEW a \in Asset, a \notin disturbed'
             PROVE  AgreesAt(a)'
  BY DEF Agreed
<1>1. ASSUME a \notin disturbed PROVE AgreesAt(a)
  BY <1>1 DEF Agreed
<1>2. ASSUME UNCHANGED <<assets, catalog, objects>> PROVE Untouched(a)
  BY <1>2 DEF Untouched
<1>3. ASSUME NEW c \in Client, Send(c) PROVE AgreesAt(a)'
  <2>1. /\ UNCHANGED <<assets, catalog, objects, pending, loaded>> /\ disturbed \subseteq disturbed'
        /\ at[c] = "idle" /\ at'[c] = "received"
        /\ \A d \in Client \ {c} : at'[d] = at[d] /\ call'[d] = call[d]
    BY <1>3 DEF Send, Request, dbVars, outsideVars, Shape, IsFunction
  <2>2. AgreesAt(a) /\ Sound(a)' /\ Unique(a, objects)' /\ (Settled(a) => Settled(a)')
    BY <1>1, <2>1 DEF AgreesAt, Sound, Unique, Settled
  <2>3. \A d \in Client \ {c} : (On(d, a)' <=> On(d, a)) /\ (Holds(d, a) => Holds(d, a)')
    BY <2>1 DEF On, InProgress, Holds, Unique
  <2>4. ~On(c, a) /\ Holds(c, a)'
    BY <2>1 DEF On, InProgress, Holds
  <2>5. QED BY <2>1, <2>2, <2>3, <2>4 DEF AgreesAt
<1>4. ASSUME NEW c \in Client, HandleAnswer(c) PROVE AgreesAt(a)'
  <2>1. /\ OthersStay(c) /\ UNCHANGED <<assets, catalog, objects, disturbed>>
        /\ at[c] = "answered" /\ at'[c] = "idle"
    BY <1>4 DEF HandleAnswer, dbVars, outsideVars, Shape, IsFunction, OthersStay
  <2>2. QED BY <1>1, <1>2, <2>1, UntouchedAgrees DEF On, InProgress
<1>5. ASSUME NEW c \in Client, Cut(c) PROVE AgreesAt(a)'
  <2>1. /\ UNCHANGED <<assets, catalog, objects>>
        /\ disturbed' = disturbed \union Concerned(call[c])
        /\ \E status : Answer(c, status)
    BY <1>5 DEF Cut, dbVars, outsideVars
  <2>2. OthersStay(c) /\ UNCHANGED call
    BY <2>1, AnswerIsLocal
  <2>3. ~On(c, a) /\ ~On(c, a)' /\ a \notin disturbed
    BY <2>1, <2>2 DEF On
  <2>4. QED BY <1>1, <1>2, <2>1, <2>2, <2>3, UntouchedAgrees
<1>6. ASSUME NEW c \in Client, NoRoute(c) PROVE AgreesAt(a)'
  <2>1. /\ UNCHANGED <<assets, catalog, objects, disturbed>> /\ call[c].op = "poll"
        /\ \E status : Answer(c, status)
    BY <1>6 DEF NoRoute, Received, Refuse, dbVars, outsideVars
  <2>2. OthersStay(c) /\ UNCHANGED call
    BY <2>1, AnswerIsLocal
  <2>3. ~On(c, a) /\ ~On(c, a)'
    BY <2>1, <2>2, ConcernedIs DEF On
  <2>4. QED BY <1>1, <1>2, <2>1, <2>2, <2>3, UntouchedAgrees
<1>7. ASSUME NEW c \in Client, Serve(c) PROVE AgreesAt(a)'
  <2>1. OthersStay(c) /\ InProgress(c) /\ UNCHANGED <<call, disturbed>>
    BY <1>7, ServeIsLocal
  <2>2. CASE a \notin Concerned(call[c])
    BY <1>1, <1>7, <2>1, <2>2, ServeTouches, UntouchedAgrees DEF On
  <2>3. CASE a \in Concerned(call[c])
    <3>1. a \in Asset \ disturbed /\ On(c, a) /\ AgreesAt(a)
      BY <1>1, <2>1, <2>3 DEF On
    <3>2. QED BY <1>7, <3>1, AssetAgrees, ObjectsAgree, OtherAgrees DEF Serve
  <2>4. QED BY <2>2, <2>3
<1>8. ASSUME UNCHANGED vars PROVE AgreesAt(a)'
  BY <1>1, <1>8 DEF vars, serverVars, dbVars, outsideVars, requestVars, AgreesAt, Sound, Unique,
     Settled, Holds, On, InProgress
<1>9. QED BY <1>3, <1>4, <1>5, <1>6, <1>7, <1>8 DEF Next, Step, Done

(* UndisturbedAssetsAgree: when requests about an asset neither overlap    *)
(* nor are cut, the catalog shows what the database has, an active asset   *)
(* has an endpoint and every object one row, for any number of clients.    *)
THEOREM UndisturbedAgree == Spec => []UndisturbedAssetsAgree
<1>1. Init => Exclusive /\ OwnRows /\ Agreed
  BY DEF Init, ServerInit, Exclusive, OwnRows, Agreed, AgreesAt, On, InProgress, Sound, Settled,
     Unique, Missing, None
<1>2. Agreed => UndisturbedAssetsAgree
  <2> SUFFICES ASSUME Agreed, NEW a \in Asset \ disturbed, Quiet(a)
               PROVE  /\ Settled(a) /\ Sound(a)
                      /\ \A o \in Object : Cardinality(Named(a, o)) <= 1
    BY DEF UndisturbedAssetsAgree, Settled, Sound
  <2>1. AgreesAt(a)
    BY DEF Agreed
  <2>2. \A c \in Client : ~On(c, a)
    BY DEF Quiet, Busy, On
  <2>3. ASSUME NEW o \in Object PROVE Cardinality(Named(a, o)) <= 1
    <3>1. CASE Named(a, o) = {}
      BY <3>1, FS_EmptySet
    <3>2. ASSUME NEW r \in Named(a, o) PROVE Cardinality(Named(a, o)) <= 1
      <4>1. Named(a, o) = {r}
        BY <2>1, <3>2 DEF AgreesAt, Unique, Named
      <4>2. Cardinality({r}) = 1
        BY FS_Singleton
      <4>3. QED BY <4>1, <4>2
    <3>3. QED BY <3>1, <3>2
  <2>4. QED BY <2>1, <2>2, <2>3 DEF AgreesAt
<1>3. Init => ServerTypes
  <2>1. Missing \in Row \union {Missing} /\ Lost \in Reply
    BY StatusFacts
  <2>2. QED BY <2>1, FilledAssumption DEF Init, ServerInit, ServerTypes, Stored, HeldTypes
<1>4. QED BY <1>1, <1>2, <1>3, Shapes, RequestsAreKnown, StepServerTypes, StepExclusive,
             StepOwnRows, StepAgreed, PTL DEF Spec

-----------------------------------------------------------------------------
(* What a clean pass of a script has set up.                               *)

(* What request q asks for is there.                                       *)
Established(q) ==
  /\ q.op = "endpoint" => q.endpoint \in endpoints
  /\ q.op \in {"asset", "discover"} => assets[q.asset] # Missing
  /\ q.op = "activate" => assets[q.asset].state = "active"
  /\ q.op = "pipeline" /\ ~q.unmarked => q.pipeline \in Registered
  /\ q.op = "trigger" => q.pipeline \in Registered

(* No step takes back what was established.                                *)
NothingIsLost ==
  /\ endpoints \subseteq endpoints' /\ Registered \subseteq Registered'
  /\ AssetsStay /\ ActiveStays

(* What request c has established so far: an answer that a script may take *)
(* for success is only given when what was asked for is there.             *)
TruthOf(c) ==
  /\ at[c] = "extracted" => assets[call[c].asset] # Missing
  /\ at[c] = "committed" /\ call[c].op = "activate" => assets[call[c].asset].state = "active"
  /\ at[c] = "answered" /\ reply[c] \in Taken => Established(call[c])

Truthful == \A c \in Client : TruthOf(c)

(* A script that has not failed has established what its steps so far      *)
(* asked for.                                                              *)
PastEstablished ==
  \A c \in Client : ~failed[c] =>
    \A i \in DOMAIN Program(script[c]) : i < step[c] =>
      Established(Program(script[c])[i].request)

(* No route deletes an endpoint, an asset or a pipeline, or takes an asset *)
(* back to draft.                                                          *)
LEMMA StepNothingIsLost ==
  ASSUME Shape, Requests, ServerTypes, Committed, [Next]_vars
  PROVE  NothingIsLost
<1>1. ActiveStays
  BY StepActiveStays
<1>2. Registered \subseteq Registered'
  BY StepRegistered
<1>3. ASSUME UNCHANGED assets PROVE AssetsStay
  BY <1>3 DEF AssetsStay
<1>4. ASSUME UNCHANGED dbVars PROVE AssetsStay /\ endpoints \subseteq endpoints'
  BY <1>3, <1>4 DEF dbVars
<1>5. ASSUME NEW c \in Client, Serve(c) PROVE AssetsStay /\ endpoints \subseteq endpoints'
  <2>1. endpoints \subseteq endpoints'
    BY <1>5 DEF Serve, RegisterEndpoint, RegisterAsset, LoadForActivation, CommitActivation,
         LoadForUpdate, CommitUpdate, CommitAsset, PublishAsset, SeedSource, StartDiscovery,
         CommitDiscovery, FindPipeline, InsertPipeline, ProvisionPipeline, CommitPipeline,
         WriteDagFile, FindDirect, CommitDirect, WriteOwnDagFile, TriggerRun, LookUpPipeline,
         Refuse, dbVars
  <2>2. CASE RegisterAsset(c)
    <3>1. UNCHANGED assets \/ assets' = [assets EXCEPT ![call[c].asset] = New]
      BY <2>2 DEF RegisterAsset, Refuse, dbVars
    <3>2. New # Missing
      BY RowFacts
    <3>3. QED BY <1>3, <2>1, <3>1, <3>2 DEF AssetsStay, Shape, IsFunction
  <2>3. CASE CommitActivation(c) \/ CommitUpdate(c)
    <3>1. PICK row : assets' = [assets EXCEPT ![call[c].asset] = row] /\
                     row.state \in {"active", assets[call[c].asset].state}
      BY <2>3 DEF CommitActivation, CommitUpdate, CommitAsset
    <3>2. call[c].asset \in Asset /\ assets[call[c].asset] # Missing
      <4>1. at[c] = "loaded"
        BY <2>3 DEF CommitActivation, CommitUpdate
      <4>2. call[c].asset \in Asset
        BY <4>1, AskedFields DEF Requests, Writers
      <4>3. QED BY <4>1, <4>2 DEF ServerTypes, HeldTypes
    <3>3. assets[call[c].asset] \in Row
      BY <3>2 DEF ServerTypes, Stored
    <3>4. row # Missing
      <4>1. row.state \in {"draft", "active"}
        BY <3>1, <3>3, RowFacts
      <4>2. QED BY <4>1 DEF Missing, None
    <3>5. QED BY <2>1, <3>1, <3>4 DEF AssetsStay, Shape, IsFunction
  <2>4. CASE CommitDirect(c)
    <3> DEFINE new == [state |-> "active", endpoint |-> call[c].endpoint]
    <3>1. UNCHANGED assets
          \/ assets' = [a \in Asset |-> IF a \in found[c] THEN new ELSE assets[a]]
      BY <2>4 DEF CommitDirect, Refuse, dbVars
    <3>2. new # Missing
      BY DEF Missing, None
    <3> HIDE DEF new
    <3>3. QED BY <1>3, <2>1, <3>1, <3>2 DEF AssetsStay
  <2>5. \/ RegisterAsset(c) \/ CommitActivation(c) \/ CommitUpdate(c) \/ CommitDirect(c)
        \/ UNCHANGED assets
    BY <1>5 DEF Serve, RegisterEndpoint, LoadForActivation, LoadForUpdate, PublishAsset,
         SeedSource, StartDiscovery, CommitDiscovery, FindPipeline, InsertPipeline,
         ProvisionPipeline, CommitPipeline, WriteDagFile, FindDirect, WriteOwnDagFile,
         TriggerRun, LookUpPipeline, Refuse, dbVars
  <2>6. QED BY <1>3, <2>1, <2>2, <2>3, <2>4, <2>5
<1>6. ASSUME NEW c \in Client, Send(c) \/ HandleAnswer(c) \/ NoRoute(c) \/ Cut(c)
      PROVE UNCHANGED dbVars
  BY <1>6 DEF Send, Request, HandleAnswer, NoRoute, Cut, Refuse
<1>7. ASSUME UNCHANGED vars PROVE UNCHANGED dbVars
  BY <1>7 DEF vars, serverVars, dbVars
<1>8. AssetsStay /\ endpoints \subseteq endpoints'
  BY <1>4, <1>5, <1>6, <1>7 DEF Next, Step, Done
<1>9. QED BY <1>1, <1>2, <1>8 DEF NothingIsLost

(* What is established stays so.                                           *)
LEMMA EstablishedStays ==
  ASSUME NothingIsLost, NEW q \in Asked \union {NoCall}, Established(q)
  PROVE  /\ q.op = "endpoint" => q.endpoint \in endpoints'
         /\ q.op \in {"asset", "discover"} => assets'[q.asset] # Missing
         /\ q.op = "activate" => assets'[q.asset].state = "active"
         /\ q.op = "pipeline" /\ ~q.unmarked => q.pipeline \in Registered'
         /\ q.op = "trigger" => q.pipeline \in Registered'
<1>1. q.op \in {"asset", "discover", "activate"} => q.asset \in Asset
  BY AskedFields
<1>2. QED BY <1>1 DEF NothingIsLost, Established, AssetsStay, ActiveStays

(* The requests of the other clients have established what they had.       *)
LEMMA TruthAfter ==
  ASSUME Requests, Truthful, NothingIsLost, NEW c \in Client, OthersStay(c), TruthOf(c)'
  PROVE  Truthful'
<1> SUFFICES ASSUME NEW d \in Client, d # c PROVE TruthOf(d)'
  BY DEF Truthful
<1>1. TruthOf(d) /\ call[d] \in Asked \union {NoCall}
  BY DEF Truthful, Requests
<1>2. at'[d] = at[d] /\ call'[d] = call[d] /\ reply'[d] = reply[d]
  BY DEF OthersStay
<1>3. at[d] = "extracted" => call[d].asset \in Asset
  BY <1>1, AskedFields DEF Requests, OpAt
<1>4. call[d].op = "activate" => call[d].asset \in Asset
  BY <1>1, AskedFields
<1>5. ASSUME at[d] = "answered", reply[d] \in Taken PROVE Established(call[d])'
  <2>1. Established(call[d])
    BY <1>1, <1>5 DEF TruthOf
  <2>2. QED BY <1>1, <1>2, <2>1, EstablishedStays DEF Established
<1>6. QED BY <1>1, <1>2, <1>3, <1>4, <1>5 DEF TruthOf, NothingIsLost, AssetsStay, ActiveStays

(* An answer is truthful where no success is claimed, or it was earned.    *)
LEMMA TruthOfAnswer ==
  ASSUME Shape, Requests, Truthful, NothingIsLost, NEW c \in Client, NEW status,
         Answer(c, status), status \in Taken => Established(call[c])'
  PROVE  Truthful'
<1>1. OthersStay(c) /\ UNCHANGED call /\ at'[c] = "answered" /\ reply'[c] = status
  BY AnswerIsLocal
<1>2. TruthOf(c)'
  BY <1>1 DEF TruthOf
<1>3. QED BY <1>1, <1>2, TruthAfter

(* The statuses that stand for what is there already, or is not there.     *)
LEMMA TruthOfRefusal ==
  ASSUME Shape, Requests, Truthful, NothingIsLost, NEW c \in Client, NEW status,
         Refuse(c, status), status \in Taken => Established(call[c])
  PROVE  Truthful'
<1>1. UNCHANGED <<call, dbVars>> /\ Answer(c, status)
  BY DEF Refuse, Answer
<1>2. Established(call[c]) => Established(call[c])'
  BY <1>1 DEF Established, Registered, dbVars
<1>3. QED BY <1>1, <1>2, TruthOfAnswer

(* A request that has moved on without an answer.                          *)
LEMMA TruthOfMove ==
  ASSUME Shape, Requests, Truthful, NothingIsLost, NEW c \in Client, NEW place, Goto(c, place),
         OthersStay(c), place # "answered",
         place = "extracted" => assets'[call[c].asset] # Missing,
         place = "committed" /\ call[c].op = "activate" =>
           assets'[call[c].asset].state = "active"
  PROVE  Truthful'
<1>1. at'[c] = place /\ UNCHANGED call
  BY GotoIsLocal
<1>2. TruthOf(c)'
  BY <1>1 DEF TruthOf
<1>3. QED BY <1>2, TruthAfter

(* Serving a request answers it with a status for success only when what   *)
(* it asked for is there.                                                  *)
LEMMA ServeTruthful ==
  ASSUME Shape, Requests, ServerTypes, Committed, Truthful, NothingIsLost, NEW c \in Client,
         Serve(c)
  PROVE  Truthful'
<1> DEFINE a == call[c].asset
<1>0. /\ call[c] \in Asked \union {NoCall} /\ OthersStay(c) /\ UNCHANGED call /\ TruthOf(c)
  BY ServeIsLocal DEF Requests, Truthful
<1>1. ASSUME NEW status, Refuse(c, status), status \in Taken => Established(call[c])
      PROVE Truthful'
  BY <1>1, TruthOfRefusal
<1>2. ASSUME NEW status, Answer(c, status), status \in Taken => Established(call[c])'
      PROVE Truthful'
  BY <1>2, TruthOfAnswer
<1>3. ASSUME NEW place, Goto(c, place), place # "answered",
             place = "extracted" => assets'[a] # Missing,
             place = "committed" /\ call[c].op = "activate" => assets'[a].state = "active"
      PROVE Truthful'
  BY <1>0, <1>3, TruthOfMove
<1>4. 404 \notin Taken /\ 500 \notin Taken
  BY DEF Taken
<1> HIDE DEF a
<1>5. CASE RegisterEndpoint(c)
  <2>1. call[c].op = "endpoint"
    BY <1>5 DEF RegisterEndpoint, Received
  <2>2. \/ Refuse(c, 409) /\ call[c].endpoint \in endpoints
        \/ Answer(c, 201) /\ call[c].endpoint \in endpoints'
    BY <1>5 DEF RegisterEndpoint
  <2>3. QED BY <1>0, <1>1, <1>2, <2>1, <2>2 DEF Established
<1>6. CASE RegisterAsset(c)
  <2>1. call[c].op = "asset"
    BY <1>6 DEF RegisterAsset, Received
  <2>2. \/ Refuse(c, 409) /\ assets[call[c].asset] # Missing
        \/ Goto(c, "committed")
    BY <1>6 DEF RegisterAsset
  <2>3. QED BY <1>1, <1>3, <2>1, <2>2 DEF Established
<1>7. CASE LoadForActivation(c)
  <2>1. call[c].op = "activate" /\ call[c].asset \in Asset
    BY <1>0, <1>7, AskedFields DEF LoadForActivation, Received
  <2>2. \/ Refuse(c, 404) \/ Goto(c, "loaded")
        \/ /\ assets[call[c].asset] # Missing /\ assets[call[c].asset].state # "draft"
           /\ Refuse(c, 422)
    BY <1>7 DEF LoadForActivation
  <2>3. assets[call[c].asset] # Missing /\ assets[call[c].asset].state # "draft"
          => assets[call[c].asset].state = "active"
    BY <2>1, RowFacts DEF ServerTypes, Stored
  <2>4. QED BY <1>1, <1>3, <1>4, <2>1, <2>2, <2>3 DEF Established
<1>8. CASE CommitActivation(c)
  <2>1. /\ call[c].asset \in Asset /\ Goto(c, "committed")
        /\ \E row : row.state = "active" /\ assets' = [assets EXCEPT ![call[c].asset] = row]
    BY <1>0, <1>8, AskedFields DEF CommitActivation, CommitAsset
  <2>2. assets'[call[c].asset].state = "active"
    BY <2>1 DEF Shape, IsFunction
  <2>3. QED BY <1>3, <2>1, <2>2 DEF a
<1>9. CASE LoadForUpdate(c)
  <2>1. call[c].op = "update"
    BY <1>9 DEF LoadForUpdate, Received
  <2>2. Refuse(c, 404) \/ Goto(c, "loaded")
    BY <1>9 DEF LoadForUpdate
  <2>3. QED BY <1>1, <1>3, <1>4, <2>1, <2>2
<1>10. CASE CommitUpdate(c)
  <2>1. call[c].op = "update" /\ Goto(c, "committed")
    BY <1>10 DEF CommitUpdate, CommitAsset
  <2>2. QED BY <1>3, <2>1
<1>11. CASE PublishAsset(c)
  <2>1. at[c] = "committed" /\ call[c].op \in Writers /\ UNCHANGED assets
        /\ \E status : Answer(c, status)
    BY <1>11 DEF PublishAsset, Writers, dbVars
  <2>2. assets[call[c].asset] # Missing
    BY <2>1 DEF ServerTypes, HeldTypes
  <2>3. call[c].op = "activate" => assets[call[c].asset].state = "active"
    BY <1>0, <2>1 DEF TruthOf
  <2>4. Established(call[c])'
    BY <1>0, <2>1, <2>2, <2>3 DEF Established, Writers
  <2>5. QED BY <1>2, <2>1, <2>4
<1>12. CASE SeedSource(c) \/ CommitDirect(c) \/ WriteOwnDagFile(c) \/ LookUpPipeline(c)
  <2>1. call[c].op \in {"seed", "direct", "file", "look"}
    BY <1>12 DEF SeedSource, CommitDirect, WriteOwnDagFile, LookUpPipeline, Received,
         Requests, OpAt
  <2>2. \E status : Answer(c, status)
    BY <1>12 DEF SeedSource, CommitDirect, WriteOwnDagFile, LookUpPipeline, Refuse
  <2>3. Established(call[c])'
    BY <1>0, <2>1 DEF Established
  <2>4. QED BY <1>2, <2>2, <2>3
<1>13. CASE StartDiscovery(c)
  <2>1. call[c].op = "discover"
    BY <1>13 DEF StartDiscovery, Received
  <2>2. \/ Refuse(c, 404)
        \/ assets[call[c].asset] # Missing /\ Refuse(c, 422)
        \/ assets[call[c].asset].endpoint # None /\ Goto(c, "extracted") /\ UNCHANGED assets
    BY <1>13 DEF StartDiscovery, dbVars
  <2>3. Missing.endpoint = None
    BY RowFacts
  <2>4. QED BY <1>1, <1>3, <1>4, <2>1, <2>2, <2>3 DEF Established, a
<1>14. CASE CommitDiscovery(c)
  <2>1. /\ at[c] = "extracted" /\ call[c].op = "discover" /\ UNCHANGED assets /\ Answer(c, 201)
    BY <1>14 DEF CommitDiscovery, Requests, OpAt
  <2>2. Established(call[c])'
    BY <1>0, <2>1 DEF Established, TruthOf
  <2>3. QED BY <1>2, <2>1, <2>2
<1>15. CASE FindPipeline(c) \/ InsertPipeline(c)
  <2>1. call[c].op = "pipeline"
    BY <1>15 DEF FindPipeline, InsertPipeline, Received, Requests, OpAt
  <2>2. \/ \E status : /\ Refuse(c, status)
                       /\ call[c].unmarked \/ call[c].pipeline \in Registered
        \/ Goto(c, "unnamed") \/ Goto(c, "inserted")
    BY <1>15 DEF FindPipeline, InsertPipeline
  <2>3. QED BY <1>1, <1>3, <2>1, <2>2 DEF Established
<1>16. CASE ProvisionPipeline(c) \/ CommitPipeline(c)
  <2>1. Goto(c, "provisioned") \/ Goto(c, "registered")
    BY <1>16 DEF ProvisionPipeline, CommitPipeline
  <2>2. QED BY <1>3, <2>1
<1>17. CASE WriteDagFile(c)
  <2>1. at[c] = "registered" /\ call[c].op = "pipeline" /\ Answer(c, 201) /\ UNCHANGED pipelines
    BY <1>17 DEF WriteDagFile, Requests, OpAt, dbVars
  <2>2. call[c].pipeline \in Registered'
    BY <2>1 DEF Committed, Registered
  <2>3. QED BY <1>0, <1>2, <2>1, <2>2 DEF Established
<1>18. CASE FindDirect(c)
  <2>1. Goto(c, "checked")
    BY <1>18 DEF FindDirect
  <2>2. QED BY <1>3, <2>1
<1>19. CASE TriggerRun(c)
  <2>1. /\ call[c].op = "trigger"
        /\ \/ Refuse(c, 404)
           \/ Answer(c, 201) /\ call[c].pipeline \in Registered /\ UNCHANGED pipelines
    BY <1>19 DEF TriggerRun, Received, dbVars
  <2>2. call[c].pipeline \in Registered /\ UNCHANGED pipelines => call[c].pipeline \in Registered'
    BY DEF Registered
  <2>3. QED BY <1>0, <1>1, <1>2, <1>4, <2>1, <2>2 DEF Established
<1>20. QED
  BY <1>5, <1>6, <1>7, <1>8, <1>9, <1>10, <1>11, <1>12, <1>13, <1>14, <1>15, <1>16, <1>17,
     <1>18, <1>19 DEF Serve

(* So does every step: cutting a request gives no such status, but to an   *)
(* update.                                                                 *)
LEMMA StepTruthful ==
  ASSUME Shape, Requests, ServerTypes, Committed, Truthful, [Next]_vars
  PROVE  Truthful'
<1>0. NothingIsLost
  BY StepNothingIsLost
<1>1. ASSUME NEW c \in Client, Send(c) \/ HandleAnswer(c) PROVE Truthful'
  <2>1. OthersStay(c) /\ at'[c] \in {"received", "idle"}
    <3>1. CASE Send(c)
      BY <3>1 DEF Send, Request, Shape, IsFunction, OthersStay
    <3>2. CASE HandleAnswer(c)
      BY <3>2 DEF HandleAnswer, Shape, IsFunction, OthersStay
    <3>3. QED BY <1>1, <3>1, <3>2
  <2>2. TruthOf(c)'
    BY <2>1 DEF TruthOf
  <2>3. QED BY <1>0, <2>1, <2>2, TruthAfter
<1>2. ASSUME NEW c \in Client, NoRoute(c) PROVE Truthful'
  <2>1. Refuse(c, 404) /\ 404 \notin Taken
    BY <1>2 DEF NoRoute, Taken
  <2>2. QED BY <1>0, <2>1, TruthOfRefusal
<1>3. ASSUME NEW c \in Client, Cut(c) PROVE Truthful'
  <2>1. PICK status \in {Lost, 500, 422} :
          Answer(c, status) /\ (status = 422 => call[c].op = "update")
    <3>1. CASE Answer(c, Lost)
      BY <3>1 DEF Lost
    <3>2. CASE Answer(c, IF call[c].op = "update" THEN 422 ELSE 500)
      <4>1. CASE call[c].op = "update"
        BY <3>2, <4>1
      <4>2. CASE call[c].op # "update"
        BY <3>2, <4>2
      <4>3. QED BY <4>1, <4>2
    <3>3. QED BY <1>3, <3>1, <3>2 DEF Cut
  <2>2. UNCHANGED call
    BY <2>1 DEF Answer
  <2>3. status \in Taken => Established(call[c])'
    BY <2>1, <2>2 DEF Established, Taken, Lost
  <2>4. QED BY <1>0, <2>1, <2>3, TruthOfAnswer
<1>4. ASSUME NEW c \in Client, Serve(c) PROVE Truthful'
  BY <1>0, <1>4, ServeTruthful
<1>5. ASSUME UNCHANGED vars PROVE Truthful'
  BY <1>5 DEF vars, serverVars, dbVars, requestVars, Truthful, TruthOf, Established, Registered
<1>6. QED BY <1>1, <1>2, <1>3, <1>4, <1>5 DEF Next, Step, Done

(* A script that counts a step as succeeded has established what the step  *)
(* asked for.                                                              *)
LEMMA StepPast ==
  ASSUME Shape, Requests, ServerTypes, Counted, Committed, Truthful, PastEstablished, [Next]_vars
  PROVE  PastEstablished'
<1>0. NothingIsLost
  BY StepNothingIsLost
<1>1. ASSUME NEW d \in Client, NEW i \in DOMAIN Program(script[d])
      PROVE  /\ Program(script[d])[i].request \in Asked
             /\ Established(Program(script[d])[i].request)
                  => Established(Program(script[d])[i].request)' \/ script' # script
  <2>1. Program(script[d])[i].request \in Asked
    <3>1. Program(script[d]) \in Seq(ScriptStep)
      BY ProgramsAreSteps
    <3>2. Program(script[d])[i] \in ScriptStep
      BY <3>1, ElementOfSeq, LenProperties
    <3>3. QED BY <3>2 DEF ScriptStep
  <2>2. QED BY <1>0, <2>1, EstablishedStays DEF Established
<1>2. ASSUME UNCHANGED <<script, step, failed>> PROVE PastEstablished'
  BY <1>1, <1>2 DEF PastEstablished
<1>3. ASSUME NEW c \in Client, HandleAnswer(c) PROVE PastEstablished'
  <2>1. /\ at[c] = "answered" /\ UNCHANGED script
        /\ \A d \in Client \ {c} : step'[d] = step[d] /\ failed'[d] = failed[d]
    BY <1>3 DEF HandleAnswer, Proceed, Requests, Counted
  <2>2. \/ step'[c] = step[c] /\ failed'[c] = failed[c]
        \/ failed'[c]
        \/ /\ reply[c] \in Current(c).ok /\ step'[c] = step[c] + 1 /\ failed'[c] = failed[c]
    <3> DEFINE succeeded == reply[c] \in Current(c).ok
               next == IF ~succeeded /\ Policy(c) = "stop" THEN Len(Program(script[c])) + 1
                       ELSE step[c] + 1
    <3>1. \/ UNCHANGED <<step, failed>>
          \/ Proceed(c, step[c], tries[c] + 1, TRUE)
          \/ Proceed(c, next, 0, succeeded)
      BY <1>3 DEF HandleAnswer
    <3>2. CASE Proceed(c, step[c], tries[c] + 1, TRUE)
      BY <3>2 DEF Proceed, Requests, Counted
    <3>3. CASE Proceed(c, next, 0, succeeded) /\ ~succeeded
      BY <3>3 DEF Proceed, Requests, Counted
    <3>4. CASE Proceed(c, next, 0, succeeded) /\ succeeded
      BY <3>4 DEF Proceed, Requests, Counted
    <3>5. QED BY <3>1, <3>2, <3>3, <3>4
  <2>3. CASE reply[c] \in Current(c).ok
    <3>1. /\ step[c] \in Nat \ {0} /\ step[c] <= Len(Program(script[c]))
          /\ call[c] = Current(c).request
      BY <2>1 DEF Requests
    <3>2. Current(c) \in ScriptStep
      BY <3>1, CurrentStep
    <3>3. reply[c] \in Taken
      BY <2>3, <3>2 DEF ScriptStep
    <3>4. Established(Program(script[c])[step[c]].request)
      BY <2>1, <3>1, <3>3 DEF Truthful, TruthOf, Current
    <3>5. ASSUME ~failed[c], NEW i \in DOMAIN Program(script[c]), i < step[c] + 1
          PROVE Established(Program(script[c])[i].request)
      <4>1. i \in Nat
        <5>1. Program(script[c]) \in Seq(ScriptStep)
          BY ProgramsAreSteps
        <5>2. QED BY <5>1, LenProperties
      <4>2. i < step[c] \/ i = step[c]
        BY <3>1, <3>5, <4>1
      <4>3. QED BY <3>4, <3>5, <4>2 DEF PastEstablished
    <3>6. QED BY <1>1, <2>1, <2>2, <3>5 DEF PastEstablished
  <2>4. CASE reply[c] \notin Current(c).ok
    BY <1>1, <2>1, <2>2, <2>4 DEF PastEstablished
  <2>5. QED BY <2>3, <2>4
<1>4. ASSUME NEW c \in Client, \/ Send(c) \/ NoRoute(c) \/ (Serve(c) /\ UNCHANGED scriptVars)
                               \/ (Cut(c) /\ UNCHANGED scriptVars)
      PROVE UNCHANGED <<script, step, failed>>
  BY <1>4 DEF Send, NoRoute, scriptVars
<1>5. ASSUME UNCHANGED vars PROVE UNCHANGED <<script, step, failed>>
  BY <1>5 DEF vars, scriptVars
<1>6. QED BY <1>2, <1>3, <1>4, <1>5 DEF Next, Step, Done

(* CleanPassSetsUp: a script that has ended without a failed step has set  *)
(* up what it names, also where it took "exists already" for success.  The *)
(* statuses the scripts take are statuses that are only answered when what *)
(* was asked for is there, and nothing that is there is ever taken back.   *)
THEOREM CleanPasses == Spec => []CleanPassSetsUp
<1>1. Init => ServerTypes /\ Counted /\ Committed /\ Truthful /\ PastEstablished
  <2>1. Init => Truthful
    BY DEF Init, ServerInit, Truthful, TruthOf
  <2>2. Init => PastEstablished
    <3> SUFFICES ASSUME Init, NEW c \in Client, NEW i \in DOMAIN Program(script[c]), i < step[c]
                 PROVE FALSE
      BY DEF PastEstablished
    <3>1. Program(script[c]) \in Seq(ScriptStep)
      BY ProgramsAreSteps
    <3>2. i \in Nat \ {0}
      BY <3>1, LenProperties
    <3>3. QED BY <3>2 DEF Init
  <2>3. QED BY <2>1, <2>2, InitTypes DEF Init, ServerInit, Committed
<1>2. Requests /\ PastEstablished => CleanPassSetsUp
  <2> SUFFICES ASSUME Requests, PastEstablished, NEW c \in Client, Ended(c), ~failed[c],
                      NEW i \in DOMAIN Program(script[c])
               PROVE Established(Program(script[c])[i].request)
    BY DEF CleanPassSetsUp, Established
  <2>1. Program(script[c]) \in Seq(ScriptStep)
    BY ProgramsAreSteps
  <2>2. i \in Nat /\ Len(Program(script[c])) \in Nat /\ i <= Len(Program(script[c]))
    BY <2>1, LenProperties
  <2>3. i < step[c]
    BY <2>2 DEF Ended, Requests
  <2>4. QED BY <2>3 DEF PastEstablished
<1>3. Shape /\ Requests /\ Committed /\ [Next]_vars => Committed'
  BY StepRegistered
<1>4. QED BY <1>1, <1>2, <1>3, Shapes, RequestsAreKnown, StepServerTypes, StepCounted,
             StepTruthful, StepPast, PTL DEF Spec
=============================================================================
