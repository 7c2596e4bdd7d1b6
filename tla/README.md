# Verification of the clean data platform

The platform (FastAPI service, the Airflow DAGs it generates, compute engines, a
warehouse, PostgreSQL) registers data assets and pipelines, discovers the
schemas of sources, generates one DAG per pipeline and keeps the record of every
run. This directory holds TLA+ models of its core, the TLC configurations that
check them and proofs checked by TLAPS.

    tlc -config TriggerKeys.cfg MCRunTrigger.tla      # one run; see section 3
    tlapm RunTriggerProofs.tla                        # the proofs of one module

`PROJECT.json` lists the components, the runs with their properties, for each
property a plausible bug of the code that breaks it (the operators commented
`Mutant:` in the modules), the source lines of every definition, the findings,
the hazards and the theorems. Paths below are relative to `src/`, and to
`src/app/infrastructure/` where they start with a name of that directory.

## 1. Inventory

| Component | State | Operations | Who it talks to | What is hard | What makes it correct |
|---|---|---|---|---|---|
| Trigger API (`app/application/pipelines/trigger_pipeline_run.py`) | rows of `pipeline_runs` | look an Idempotency-Key up, insert and commit a running row, write the DAG file, trigger Airflow | database, shared volume, orchestrator adapter | requests interleave at every await; a worker dies between commit and trigger | nothing runs without a row; one DAG run per row; a repeated key creates no second run |
| Airflow adapter (`adapters/orchestration/`) | none; two nested retry loops | `trigger_dag` | Airflow REST | lost and late answers, 404 until the scheduler has parsed the file, 409 | loops end; one `dag_run_id` whatever is repeated; a success is only reported when the DAG run exists (not kept for a 2xx other than 200 and 201) |
| Circuit breaker (`resilience/circuit_breaker.py`) | state, failure count, time of opening | `call` | any coroutine | outcomes arrive in another state than their call began in; cancellation | opens on evidence, fields agree with the state |
| Ingestion DAG (`dag_generator/templates/ingestion_dag.py.j2`, `airflow_callbacks/`) | XComs, job directory, warehouse table, run rows | 12 tasks from pre-flight to the final record | compute adapters, loaders, platform API | retries of non-idempotent steps, skipped tasks, lost or late records, a job in another process | no data loss below the watermark, no bad data loaded, no duplicates unless something was lost, runs end |
| etl, export and transformation DAGs (the other templates, Cosmos group, their callbacks) | XComs, dbt target directory, catalogue elements, run rows, dataset events | the tasks of four kinds of DAG | compute adapters, dbt, platform API | results of an earlier run on disk, trigger rules, errors swallowed by the API client | what a run reports is true; runs end |
| REST, OmniBeam, dbt, Dataform adapters (`adapters/compute/`) | job directory, the adapter instance's job table | submit, poll | REST source, container, dbt process | poll from another process than the submitter's; the source changes between pages | every poll agrees with the job; a success read everything that was there throughout (section 3 names where the code gives this up) |
| DuckDB adapter | job directory, thread | submit, poll, cancel | extraction thread | as above, and the thread dies with its process | a job is reported ended only when it has |
| OmniBeam manifest and engine sources (`adapters/omnibeam/`, `source_dtos.py`, `source_translators.py`, `watermark_binding.py`) | none | build what an engine reads | secret manager | two places for every text, defaults that fill gaps | the job reads what was declared, above the stored watermark (section 3 names what OmniBeam is not told) |
| Pipeline definition (`pipeline_normalizer.py`, `domain/pipelines/`, generators) | pipeline row, YAML, DAG file | normalise, store, reload, render | database, volume | six forms of one declaration, two writers of the DAG file | only what section 3 names is lost or replaced on the way; both writers write the same DAG |
| DWH loaders (`dwh_loaders/`) | warehouse table | append load | BigQuery | the load took effect and the attempt failed | rows loaded once |
| Run records (`record_pipeline_run_use_case.py`, `sql_pipeline_run_repository.py`) | rows, file hashes | record, latest watermark, processed hashes | platform API client | rows arrive late or not at all | watermark of the latest success; hashes of what was loaded |
| Quality gate (`domain/pipelines/quality_gate_evaluator.py`) | none | evaluate | metrics | missing metrics | a missing metric is a violation (its caller's docstring says otherwise, section 3) |
| Discovery (`application/discovery/`) | discovery runs, objects, elements, approvals | run, provision, diff, heal | source runner, database | overlapping runs without locks, refused overrides, rollback | the catalogue agrees with the latest discovery or an approval says where not |
| Discovery runners (`discovery/`) | none | list, reflect, sample | databases, MongoDB, REST APIs, files | samples differ from scan to scan, the source changes during a scan, requests fail | two snapshots differ only for a reason in the source |
| Drift approval (`approve_drift_use_case.py`) | approvals | approve, reject | discovery runs, elements | two deciders, decisions older than the baseline | a decision is final; a critical change waits for it |
| Schema differ, drift classifier | none | diff, classify | discovery; pre-flight of the DAG | which changes are critical | see discovery |
| Assets (`application/assets/`, `domain/assets/`) | asset row with a life cycle | register, activate, update | external catalog | whole-row updates, publication after the commit | only forward transitions; catalog and database agree |
| Pipeline registration, endpoints | pipeline rows, links, warehouse tables, DAG files | register, trigger | generators, database, warehouse, volume | tables before the commit, files after it | a committed pipeline is complete; files follow rows |
| Setup scripts (`scripts/`) | none of their own | some thirty requests each, with a reaction to every status | the API, the volume, the database | two scripts at a time, "exists already" taken for success, retries | a pass without failures has set up what it names; scripts end |
| Unit of work (`sql_unit_of_work.py`) | session, nesting depth | enter, commit, rollback | every use case | nested use shares one session | a request's writes commit together or not at all |
| Lineage, backfill, catalogs, secrets, authentication, rate limits, notifications, parsers, command line | see section 6 | | | | |

How the parts meet: the trigger API and the DAG share only `pipeline_runs` and
the DAG file; the DAG reads watermarks and hashes that earlier runs recorded
through the HTTP API, whose client swallows most errors; a pipeline's
declaration reaches the engine through the DAG file only; discovery feeds the
catalogue and approvals are made by discovery and decided over HTTP. Every use
case is one database transaction at read committed level and takes no lock
beyond those of its writes; the warehouse, the external catalog and the DAG
file take no part in it.

## 2. Modules

| Module | Models | State and actions in the code |
|---|---|---|
| `RunLedger` | abstract promise of triggering: record, then launch at most once | `recorded`, `launched` |
| `RunTrigger` | a request from its arrival to its answer, both retry loops, the network, Airflow | `rows` is `pipeline_runs`, `inflight` the POSTs under way, `dagRuns` Airflow's runs; one action per await |
| `IngestionDag` | DAG runs one after another, their tasks, attempts and XComs, the DuckDB job, the warehouse, the rows | one action per task of the template; `Fail` is Airflow's retry; `JobStep` the extraction thread; `rows`/`late` the records |
| `ComputeJobs` | one job of the engines that wait for its end: the REST adapter's pages, the OmniBeam container, dbt and Dataform processes | `job` is what the submitting adapter instance holds, `dir` the files of the job's directory; `DiskStatus` the order in which a poll looks at them |
| `PipelineDags` | the etl (two engines), export and transformation DAGs on top of `ComputeJobs` | `Chain` is the wiring of each template, one action per task; `target` is dbt's `run_results.json`, `events` the dataset events |
| `EngineManifest` | what each engine is told to read, and why a job is refused | functions of the job's configuration: `Target` is `PipelineExecutionTargetDTO`, one operator per source translator and engine |
| `PipelineDefinition` | a declaration's way from the request to the job | `request`, `stored` (row), `dag` (file), `state` (recorded watermark), `built` (job); `RegisterDefinition`, `Scheduled`, `Triggered`, `Succeeds` |
| `Discovery` | discoveries and decisions on one asset as overlapping transactions | `elements`, `objects`, `approvals` are the committed tables; `writes` what a transaction has flushed; `seen` is history |
| `SourceSchemas` | the four discovery runners | `held` is the source, `listing` and `now` the scan's, `last` the recorded snapshots; `List`, `Reflect`, `RecordSnapshots` |
| `Registration` | the API's write routes for endpoints, assets, discovery of names, pipelines, with requests that overlap or are cut | `call`, `at` are the request of a client and how far the API is with it; an action ends at each await at which another session's commit can come between |
| `SetupScripts` | the scripts as clients of `Registration` | `Program(script)` is the list of requests, `HandleAnswer` the reaction to a status |
| `CircuitBreaker` | the breaker and overlapping calls | the three private fields |
| `MCRunTrigger`, `MCTriggerBreaker`, `MCDiscovery`, `MCDiscoveryRunners`, `MCPipelineDags`, `MCDefinitions`, `MCSetup` | instances for TLC | |
| `RunTriggerProofs`, `IngestionDagProofs`, `IngestionOrderProofs`, `CircuitBreakerProofs`, `RegistrationProofs`, `PipelineDagsProofs`, `DiscoveryProofs`, `PipelineDefinitionProofs` | theorems | |

Conventions. A committed unit of work is one step, and reads and commit are
separate steps where another actor can come between. An id is named by what
created it. External systems (Airflow, the network, the source, the clock) are
modelled from how the code uses them and marked `external` in the map. History
variables are marked `(history)` and no guard reads them.

Composition. `RunTrigger` implements `RunLedger`: the property `LedgerSpec` maps
`rows` to `recorded` and the ids of `dagRuns` to `launched`; TLC checks it and
`ImplementsLedger` proves it. `PipelineDags` extends `ComputeJobs`, whose
submission and polls are the middle of its tasks. `PipelineDefinition` extends
`EngineManifest`, whose jobs are what its runs build. `SetupScripts` drives
`Registration`. `MCDefinitions`, `MCDiscoveryRunners` and `MCTriggerBreaker` each put
two machines that share no variable into one state space: one moves only while the
other rests in an initial state, so that the states are the union of the two and not
their product, and each machine's behaviours are its own.

### Abstractions a reader should know

- Trigger: an answer is one of five: 200 or 201, another 2xx, 404, 409, an error. A
  2xx other than 200 and 201 says nothing of the DAG run, which may exist or not.
  `logical_date` has a resolution of one second in the code and Airflow
  refuses a second run of the same date; the refusal is among the errors Airflow
  may answer. The circuit breaker is not part of the trigger, because
  `dependencies.py` builds the adapter without one.
- Ingestion: items reach the source in the order of their watermark value (rows
  that arrive late below it are not modelled: the code states no contract for
  them); a job writes one parquet file, loaded all or nothing; `pre_flight` is a
  step without effect, since the drift classification there is never given a
  previous snapshot.
- Compute jobs: a row is a number, a page a sequence of rows, and the source is
  sorted as the API sorts it. A row counts for completeness if it was there
  during the whole extraction; `shifted` records that rows before others left or
  came meanwhile, for which offset pages promise nothing. A REST answer may hide
  its rows under a key that is not looked for (`job.missed`), and an OmniBeam
  container may leave a parquet file that cannot be read (`dir.readable`). dbt's and
  Dataform's results files are only
  left by executors that download them, hence `results`.
- Definitions: the texts of a declaration are the few values that the code tells
  apart (empty, plain, with a placeholder, malformed, unknown). Quality rules,
  sensors and Airflow settings go through unchanged and are left out.
- Discovery: one table; policy tags, indexes and descriptions are left out, as
  are edits of elements by hand. A shape is a pair of a known type and a
  nullability. A healed transaction's row locks are not modelled, except those on
  the decided approval; a deadlock the database resolves is an `Abort`.
- Runners: an object is followed through one of its columns, with at most two
  kinds of values in reach of a sample.
- Registration: a request is cut at any await (worker killed, database, catalog or
  volume out of reach), which rolls back what is uncommitted and keeps the rest.
  Of the items a script handles alike one of each kind is kept. In discovery
  only the names of new objects are inserted here; their columns are
  `Discovery`'s.

## 3. Runs

All runs use two workers and take from seconds to about three minutes.

| Run | Bounds | Shows |
|---|---|---|
| `TriggerKeys` | 3 requests, 1 key or none, 1 attempt in each loop; a breaker with 3 calls, threshold 2, time for two recoveries | `DagRunsHaveRows`, `SuccessIsAnswered`, `NoDuplicateAfterCommit`: three requests are what it takes for a lookup to meet two rows of one key. `OpenedAtMatchesState`, `OpensOnEvidence`: a late outcome of each kind meets each state of the breaker |
| `TriggerRetries` | 1 request, 3 inner and 2 outer attempts (10 and 3 in the code) | `OneDagRunPerRow`, `RequestsEnd`, `MovesAreUsedUp`, `LedgerSpec`: first, middle and last attempt of the inner loop, first and last of the outer |
| `TriggerKeyRace` (violated) | 2 requests, 1 key | the key is not unique under concurrency |
| `TriggerAccepted` (violated) | 1 request, 2 inner attempts | a request is a success without a DAG run |
| `IngestionWatermark` | 2 items, 2 runs, 2 attempts per task, overrides, background engine, fair | `NoDataLoss`, `ExactlyOnceUndisturbed`, `StoredWatermarkNeverRegresses`, `RunsEnd`: two runs are needed for a late record to be overtaken, two items for a mark to lie between them |
| `IngestionFiles` | 2 files (one breaks the rule), 3 runs | `SuccessfulFilesAreLoaded`, `NoBadDataLoaded`: the third run sees hashes of a success and of a failure |
| `IngestionFilesLost` (violated) | 1 bad file | a file that was never loaded counts as processed |
| `PipelineDags` | 6 kinds of DAG and engine, 2 runs, 2 attempts per task, 4 rows in pages of 2, 2 attempts per page, fair; every declaration of `MCDefinitions` (4 kinds of source, their engines, each text in either place or missing, 7 shapes of object list), 2 jobs, 3 watermark values | `PollsAgree`, `SuccessIsComplete`, `ReportsAreEarned`, `RunsEnd`; `JobReadsDeclaration`, `RegeneratedDagsAgree`. A second run meets the files, rows and events of the first; a row can be added or removed behind, on and before a page boundary, and the last page can be full; the second job of a definition runs from a stored watermark, or from a file written by the trigger |
| `OmniBeamContract` (violated) | the same declarations | a first incremental run asks OmniBeam for no watermark |
| `DiscoverySafety` | 2 columns of 2 shapes, 3 discoveries, 2 changes of the source, 2 decisions; runners: 2 objects, 1 change, 2 scans | `DriftAccounted`, `OverlapMakesDuplicates`, `DecisionsAreFinal`: the third discovery meets what the first two left (a rejected change, a rolled back run, a dropped table). `DriftHasAReason`: two scans are what there is to compare, and a change between listing and reflection is enough to mix them |
| `DiscoveryWithheld` (violated) | 2 discoveries | a critical change reaches the catalogue before its approval |
| `PlatformSetup` | 10 pairs of scripts or users, 1 cut request, 2 of the 5 attempts of a retried trigger | `UndisturbedAssetsAgree`, `CatalogNeverAhead`, `RegistrationIsComplete`, `FilesFollowPipelines`, `CleanPassSetsUp`, `StateOnlyAdvances`, `ScriptsEnd`: the pairs share assets, pipelines, endpoints or DAG files, or are one script twice; one cut can fall on each await of each request |

Deadlock is checked in the discovery runs and in `PlatformSetup`, whose
specifications say when everything is used up. In the others a terminal state is
normal: all requests ended, all DAG runs over, the clock at its bound.

What some of the properties say, beyond their comments:

- `SuccessIsAnswered`: a request reported as a success has its DAG run, or the last
  attempt of the inner loop was answered with a 2xx other than 200 and 201. In the
  second case the adapter falls out of its loop and returns: `TriggerAccepted` is
  the counterexample to the statement without it.
- `NoBadDataLoaded`: when metrics are missing it holds because every rule then fails
  the gate, not because the data is known to be good. The docstring of the gate says
  the opposite of that case (see the further divergences below).
- `SuccessIsComplete`: the output of a job that succeeded has every row that
  stayed in the source while it was read. Left out, and named in the module
  (`WholeOutput`), is what the code gives up: offset and page-number pages of a
  source that shifted, servers with shorter pages than the pipeline declares (a
  short page ends the loop), answers whose rows are under a key that is not looked
  for (an empty page, hence the last), and OmniBeam jobs that leave a second parquet
  file, which nobody reads, or a first one that cannot be read, which costs a
  warning only.
- `JobReadsDeclaration`: object, credential, query and watermark of a declaration
  reach the job, from a request of any form. It does *not* say so of
  what the code drops or replaces, each a conjunct's exception in the module:
  the query of a job that OmniBeam runs (`source_dtos.py:197` looks for one in the
  compute section only); the watermark of a MongoDB collection
  (`source_translators.py:160`); the object's own credential where OmniBeam takes
  the compute section's, which may have none; the watermark of a query of one's own
  without a placeholder; and a text the portal leaves out, which has become `"None"`.
- `PollsAgree`: a poll through another adapter instance, which knows the files
  only, agrees with the submitter's answer, and a poll changes no later one. The
  exceptions are a REST extraction of no rows, a success to its submitter only,
  and an OmniBeam run without its watermark, which only a poll notices.
- `ReportsAreEarned`: a success row and a dataset event are backed by what the
  engine left. It has exceptions that are the code's behaviour and are named in
  the module: the gate of an etl run and the verdict of a transformation's job.
- `CleanPassSetsUp`: of a pipeline the API refuses, the scripts think it exists
  already; the property is about everything else.

### Fairness

`TriggerRetries` assumes that a worker that has not crashed takes its next step
(`WF` of `WorkerStep` per request): its awaits are database calls, sleeps and
HTTP calls with a timeout. Nothing is assumed of the client, the network or
Airflow, so `RequestsEnd` holds against an Airflow that never answers.
`IngestionWatermark` assumes that Airflow goes on scheduling the attempts of a
run (`WF` of `Progress`). Nothing is assumed of the extraction thread, which
dies with its process; the sensor's timeout is what ends such a run, and the
mutant that removes it is caught. `PipelineDags` assumes the same of its tasks
(`WF` of `Work`, which includes the engine's answers: they have timeouts or are
local processes); no fairness is assumed of the source, whose changes are
bounded. `PlatformSetup` assumes that each client and the API go on with its
request (`WF` of `Step` per client); cuts are never forced. `ScriptsEnd` leaves
out `register_transformation_pipeline.py`, which polls a route that does not
exist for ever. The other runs check safety and assume nothing.

### What the violated runs show

Each is a statement of the repository that the code does not keep, quoted in
`PROJECT.json`:

1. `docs/business_rules.md:90` promises a unique index on the idempotency key;
   the index is not unique and two concurrent requests both create a run. After
   that, `scalar_one_or_none` fails every later request with the key.
2. The repository port says "successfully processed files", but files are marked
   PROCESSED before anything has run and a failed run's files are stored too: a
   file that failed the gate is never read again.
3. `docs/glossary.md:37` says a drift approval withholds a critical change; one
   informative event beside it applies the whole snapshot at once.
4. `docs/contracts/omnibeam-watermark.md:11` has every incremental run put a
   watermark block into the manifest; without an initial value the first run puts
   none, so no watermark is ever measured and every run is a first run.
5. `docs/c4_model/flows/trigger_pipeline.md:35` ends the retry loop in success on 200
   and 201; a 202 or 204 is no error for `raise_for_status`
   (`airflow_orchestrator_adapter.py:131`), the loop goes on, and after its last
   attempt `trigger_dag` returns: the request succeeds without a DAG run.

Further divergences, which the models have too but no run of their own:

- `shared_callbacks.py:71-73` says that rules which need metrics "are skipped with a
  warning" when the metrics are empty. The evaluator does the opposite: every
  strategy answers a metric that is not there with a violation (only the column rules
  of an extraction of zero rows pass), so the gate raises and the run fails.
  `RulesHold` is what the code does, and `NoBadDataLoaded` depends on it.
- `extraction_config.py:17` says that a given `extraction_query` replaces the
  generated one. For OmniBeam `DatabaseSourceDTO.from_inputs` (`source_dtos.py:197`)
  looks for a query in the compute section, which has none, and never at the
  object's: the job reads the object's table with the generated query. DuckDB and
  REST keep the declared one.
- `docs/contracts/omnibeam-watermark.md:5` promises incremental extraction of MongoDB
  too; `MongoManifestTranslator` passes no watermark (`source_translators.py:160`),
  so that every run of an incremental collection reads all of it.
- `pipeline_normalizer.py:18-20` promises canonical defaults for a partial payload;
  the portal's route passes `None` for each compute text that is left out, and the
  stored pipeline and its DAG have the text `"None"` in its place.

- "Sensor advances when status is terminal": polled from another worker, the
  DuckDB adapter takes any parquet file for success. `NoDataLoss` and
  `NoBadDataLoaded` hold all the same, since a partial file is refused by the
  loader and missing metrics fail the gate.
- `docs/business_rules.md:102` says the run is updated to its final status; the
  DAG records its result under a new id and the triggered row stays running.
- The orchestrator port says a conflict (409) is no error while the adapter raises
  (`orchestrator_port.py:11`); the breaker's class comment promises one probe call
  in half open and `call` admits any number (`circuit_breaker.py:26`); the final
  status in the ingestion template ignores whether the mandatory post-load
  validation succeeded (`ingestion_dag.py.j2:342`); a quality violation is never
  recorded as `quality_failed`, because the gate raises before it can report
  (`docs/business_rules.md:103`); a critical drift never blocks a pipeline, since
  the classifier is given no previous snapshot (`docs/business_rules.md:54`).
- An etl run that its gate stopped is recorded as a success, and its `docs` task
  fails on every run, so that its success notification and dataset event never
  happen. A transformation emits its dataset event whatever its job's verdict.
- A MongoDB extraction by DuckDB fails on a variable that is never bound.
- The demonstration, bronze and validation scripts declare incremental objects
  without a watermark column. The API refuses them with 422, which the first two
  show as "exists already".
- `Ingest Customers Table` and `Ingest_Customers_Table` have one DAG file: the
  second registration replaces the first's DAG.
- A dropped table raises no `object_removed` event, since the loop runs over the
  current snapshots; a discovery whose healing is refused leaves no row, because
  `fail` refuses a completed run.

## 4. Proofs

Every invariant and every action property of the passing runs is a theorem, for
every value of the constants its assumptions allow. What is left to TLC is
liveness (at the end of this section).

`RunTriggerProofs`, for every set of requests and keys and every number of
retries (assumptions: `NoKey` is no key, both retry bounds are positive):

- `TypeCorrect`, `DagRunsAreRecorded`, `OneDagRun`, `SuccessIsExplained`,
  `SequentialIdempotency`: the invariants of the runs;
- `ImplementsLedger`: the refinement of `RunLedger`.

None of the four safety invariants is inductive. `IInv` adds to them what a
request's place says about the tables (`Progress`: a row exists from the insert
on, a 201 stands for an existing DAG run, a success for a 201 or for a 2xx on the
last attempt), what is under way (`Recorded`: every POST and DAG run has a row, and every DAG run carries the id made with the row)
and what a lookup saw (`Snapshot`: committed rows only, none of the request's
key if it goes on to insert). `TypeStep` proves types separately, action by
action; `InvStep` does the same for the rest; each theorem is then one line of
temporal reasoning. The refinement needs only that the ledger's step for an
insert or an accepted POST is enabled, which is `Progress` and `Recorded` again.
`MovesAreBounded` is the part of `RequestsEnd` that needs no fairness, for every
pair of retry bounds: `MovesLeft` numbers the POSTs through both loops
(`PostNoRange`, `RetryIsNextPost`: when the outer loop starts the inner one again,
the numbers go on), every move of a request lowers it and no other step touches it,
so a request makes at most `2 * MaxAttempts * MaxOuter + 4` moves.

`CircuitBreakerProofs`, for every set of calls, threshold and recovery time:
`BreakerTypes`, `OpenedAtIsKnown` and `OpensWithReason`. The last one needs the
link between the breaker's count and the history counter: the count never exceeds
the failures that have come since the last success (`CountIsWitnessed`).

`IngestionDagProofs` and `IngestionOrderProofs`, for every number of items, runs
and attempts, both kinds of source, every engine, rule and override (assumptions:
the three bounds are positive; a bad item is an item; only incremental pipelines
have a background engine or overrides). Every safety property of the ingestion
runs is a theorem:

- `IngestionTypes`, `WatermarkLosesNothing`, `GateHolds`, `SuccessMeansLoaded`.
  `NoDataLoss` speaks of the row with the latest run only, and a step may bring
  in an older or a late one. `DataInv` therefore claims coverage of *every*
  recorded or late success (`RecordsAreCovered`) and of the mark the current run
  began with (`MarkIsCovered`), and bridges the gap between the two by what the
  job read: everything from that mark on without a gap (`ReadIsContiguous`),
  all of it in the table once the load's XCom is set (`LoadedIsInWarehouse`).
  The gate needs that metrics come from a job that has ended (`MetricsAreFinal`):
  one polled too early has no metrics, so its run never reaches the load when
  there are rules.
- `WatermarkIsMonotonic`. Records arrive in any order, so `OrderInv` compares any
  two recorded successes by their runs (`RecordsInOrder`): the later has the
  greater mark, or the earlier mark was an operator's, beyond the source. The
  reason is that a run ends at or above what the source had published when it
  read (`ReadReachesRecords`), and any mark above that is an operator's
  (`AheadIsSkipped`). Rows of one run are equal (`RecordsOfThisRun`).
- `LoadedExactlyOnce`. While nothing was disturbed, what is loaded is what the
  queries know or what the current run is about to record (`LoadedIsKnown`), and
  what a run will load is what they do not know (`MarkIsFresh`, `ReadIsAbove`,
  `PendingIsFresh`).

`RegistrationProofs`, for every set of clients, assets, objects and pipelines,
every naming of DAG files, every set of scripts beside each other and every
number of cut requests (assumptions: the constants hold the names the scripts use,
an endpoint's source holds objects considered, and no endpoint is called what
stands for none):

- `ActiveAssetsStay` (`StateOnlyAdvances`): each action's effect on the rows, with
  no further invariant than that the variables are functions (`Shape`). An update
  takes the state from the row it reads again, not from the one it loaded.
- `CatalogFollows` (`CatalogNeverAhead`): what a request publishes is what it
  loaded or committed; `LoadedIsBehind` says that where this is active, so is the
  database, and `ActiveAssetsStay` that it remains so until the publication.
- `PipelinesAreComplete` (`RegistrationIsComplete`): `Provisioned` says what a
  registration has made when it is about to commit: its tables, and for each
  object a row that is committed or its own. `LinksCover` shows that any choice of
  one row per name links every object; rows and tables are never removed.
- `FilesFollow` (`FilesFollowPipelines`): a registration past its commit is of a
  registered pipeline (`Committed`, `StepRegistered`); every step leaves the files
  alone or overwrites one, so no name disappears (`Writes`); and only the step
  that writes a registration's file answers it with 201 (`NoneAnswered`), which
  needs to know the request behind each place of the API (`Requests`).
- `SetupTypeCorrect` (`TypeOK`): the requests of every script are of their types,
  script by script, and what the API makes of a well-formed request is too.
- `UndisturbedAgree` (`UndisturbedAssetsAgree`): two requests about one asset
  disturb it, so that an undisturbed asset has one request at a time
  (`Exclusive`), with rows of that asset only (`OwnRows`). What it has loaded is
  then what the database has (`Holds`), and database and catalog differ only by
  what it has yet to publish (`Agreed`).
- `CleanPasses` (`CleanPassSetsUp`): an answer that a script takes for success is
  only given when what was asked for is there (`Truthful`), no route takes it away
  again (`NothingIsLost`, `EstablishedStays`), and so everything that a script
  without a failure has gone past is there (`PastEstablished`).

`PipelineDagsProofs`, for every set of kinds of DAG and engines, every number of
rows, runs and attempts:

- `PollsAlwaysAgree` (`PollsAgree`): `OnItsWay` says what the directory may hold
  before the job's end (no `error.txt` while it extracts, one after a
  transformation only with exit code 1), and `PollIsIdempotent` that reading the
  directory does not change what the next reader finds.
- `ReportsAreAlwaysEarned` (`ReportsAreEarned`): the invariant `RunInv` follows
  the verdict from the engine's files through the XComs (`ComputeKnown`,
  `TestsRan`) to the row and the event. It needs that a run has reported nothing
  before its job is submitted (`Fresh`), where each kind of run can be
  (`OnChain`: the tasks after `docs` are never reached by an etl run, and `emit`
  only with a failure, `EtlFails`), and which tasks are behind an export's
  notification (`ExportSteps`). `EtlChain` and its three companions unfold the
  wiring into the successor of each task.
- `SuccessIsAlwaysComplete` (`SuccessIsComplete`): the hard case is a source that
  changes between two pages. Its rows stay consecutive (`SourceInv`), and the
  pages read so far hold every row that stayed up to the cursor, or up to the
  offset while nothing shifted (`Progress`); a page that is short, or the last
  cursor, then leaves nothing behind it. The theorem has the exceptions of its
  property (section 3): it claims nothing of offsets and page numbers once rows have
  left or come before others, of servers with shorter pages, of answers with an
  unknown key and of OmniBeam jobs with a second or an unreadable file.
- `DagsTypeCorrect` (`TypeOK`).

`DiscoveryProofs`, for every set of columns, shapes and deciders and every number
of discoveries and changes of the source (assumptions: the shapes are of known
types; a decider is no number):

- `OnlyOverlapsDuplicate` (`OverlapMakesDuplicates`): the property speaks of what
  has been committed, but a duplicate is made long before, when a transaction
  decides to add an object or an element. `TableInv` therefore speaks of pending
  writes: each overrides an element that is there, or is new and no transaction
  its writer has seen made another of the column (`WritesAreJustified`); and a
  run that found no object has seen none of those there are now (`SawNoObject`).
  `HealingWrites` says what a healing writes, whichever of the rows of a name it
  keeps.
- `DecisionsStayFinal` (`DecisionsAreFinal`): a decided approval was decided by
  someone whom no decider still under way had seen (`DecidedBySomeone`), since it
  would not have found the approval pending; approvals have no duplicates
  (`OneApproval`).
- `DiscoveryTypeCorrect` (`TypeOK`): the stamps that order the comparisons are
  never above the number of runs that have one (`OrderInv`); that a set of stamps
  has a greatest one comes from the well-founded order of the natural numbers
  (`LeastOf`, `GreatestOf`).
- `DriftIsAccounted` (`DriftAccounted`): the property is about commits that do not
  overlap, so `AccountInv` says of each transaction what holds for as long as
  nothing has committed since it began (`Alone`): the run it compared with is still
  the latest (`ComparedWithLatest`), and what it has written is what the elements
  of now ask for (`HealedAsCompared`, `DeciderAccount`). Another's commit makes
  both vacuous, and if the transaction then commits the two have overlapped
  (`OthersAfterCommit`). `HealedColumns` says what such a commit makes of each
  column. A discovery that heals nothing has only critical events: a column has
  one, which is stored (`CriticalIsStored`), or is as the run before saw it, which
  had accounted for it (`CommitAccountsFor`). A decision that is not outdated
  applies the latest snapshot, because stamps differ (`StampsDiffer`).

And for every set of objects and every number of scans and changes, of the runners:

- `DriftAlwaysHasAReason` (`DriftHasAReason`): every snapshot is a reading of
  contents that were possible for its object (`ScanInv`), so that two which differ
  were read from different contents, by different methods, or from a sample of
  several kinds of value.

`PipelineDefinitionProofs`, for every set of requests and secrets and every bound
(assumptions: a request and a secret are of their types, a request without a body
has no texts, and an extraction query has a placeholder or none):

- `RegenerationAgrees` (`RegeneratedDagsAgree`): normalising is idempotent
  (`ComputeAgain`, `ObjectAgain`), so a row reloaded is the pipeline stored
  (`ReloadedIsStored`), and a trigger's DAG file is the registration's.
- `JobsReadTheDeclaration` (`JobReadsDeclaration`): `DefInv` ties DAG, watermark and
  job to the request; for each engine a lemma follows its target from the two
  sections of the declaration to what the job reads and above which watermark, or
  to the cause it is refused for (`OmniBeamKeeps`, `DuckDBKeeps`, `RestKeeps`).
  What the property leaves open (section 3) is open here too: OmniBeam's query, a
  collection's watermark, OmniBeam's choice of credential, the watermark of a plain
  query, and `"None"` for what the portal leaves out.

Each conjunct has a lemma of its own. In the ingestion proofs `Changes` and
`TaskStep` say once which action changes which variable and which task follows
which. The strengthened invariants of the ingestion and of `DriftIsAccounted` were
model-checked before they were proved, `DataInv` and `OrderInv` also with three
items and three runs of a blocking engine; for the other proofs the runs check the
properties themselves.

Out of the prover's reach and left to TLC: the liveness properties `RequestsEnd`,
both `RunsEnd` and `ScriptsEnd`, which need fairness; of the first, `MovesAreBounded`
is the part that needs none. `EngineManifest` has no state
of its own: what is proved of it is in `JobsReadTheDeclaration`.

## 5. What is left

1. A composition of discovery, decision, trigger and ingestion over shared
   tables, for the claims that span them: a critical drift and the pipelines that
   should stop for it, triggered rows and recorded results.
2. Late rows below the stored watermark, for which the code would first have to
   state what it promises.
3. Reachability in the lineage graph against a reference definition.

## 6. Not modelled

- Clients of external services, without state of their own: catalog adapters,
  secret managers, DWH provisioners, notifications and telemetry, the command
  line. Where a modelled component depends on one, its effect is a variable or a
  constant there (`catalog` and `tables` of `Registration`, `Secret` of
  `EngineManifest`).
- Stateless checks and parsing, for which a test says as much as a model:
  authentication and permissions, the validators of configuration files outside
  the API, the parsers of dbt's and Dataform's files.
- Delegated to a library: rate limits (slowapi), migrations (Alembic).
- The lineage graph and the backfill: sequential computations whose results
  nothing else in the modelled system reads.
- The file watermark resolver, which only the validation script uses.
- The mock store API, a stand-in for demonstrations.
- Parts of modelled components, named in `PROJECT.json` with their component:
  cancelling a job (no DAG passes one), splitting a load into shards, paging and
  monitoring queries, the thresholds of single quality rules, profiling
  statistics, and a unit of work nested in another, which no route of the API does.
