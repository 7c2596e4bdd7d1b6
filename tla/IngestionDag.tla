---------------------------- MODULE IngestionDag ----------------------------
(***************************************************************************)
(* The generated ingestion DAG (ingestion_dag.py.j2), its Airflow          *)
(* callbacks, the compute job it starts, the warehouse it loads, and the   *)
(* platform's pipeline_runs rows from which the next run takes its         *)
(* watermark or its set of already processed files.                        *)
(*                                                                         *)
(* DAG runs are sequential (max_active_runs=1); inside a run the tasks are *)
(* a chain.  Every attempt of a task may fail, Airflow retries it, and     *)
(* when the retries are used up the tasks after it are skipped, except     *)
(* 03_emit_monitoring_and_sla (trigger_rule all_done).                     *)
(*                                                                         *)
(* Items 1, 2, ... appear in the source in this order.  With Incremental   *)
(* an item is a database or API row and its number is its watermark value; *)
(* otherwise an item is a landing file and its number is its MD5 hash.     *)
(***************************************************************************)
EXTENDS Naturals, FiniteSets

CONSTANTS MaxItem,      \* items the source ever publishes
          MaxRuns,      \* DAG runs explored
          MaxTries,     \* attempts per task: retries + 1
          Incremental,  \* watermark extraction, else file ingestion
          Background,   \* the job runs on after submit (DuckDB), else submit waits
          HasRules,     \* a quality rule is configured (each type judges a metric)
          Bad,          \* items that break it
          Overrides     \* operators may start a run with a watermark_override

Item == 1 .. MaxItem
Mark == 0 .. MaxItem    \* watermark values; 0 is None

ASSUME BoundAssumption ==
  MaxItem \in Nat \ {0} /\ MaxRuns \in Nat \ {0} /\ MaxTries \in Nat \ {0}
ASSUME ModeAssumption ==
  /\ {Incremental, Background, HasRules, Overrides} \subseteq BOOLEAN
  /\ Bad \subseteq Item
  /\ Background => Incremental
  /\ Overrides => Incremental

VARIABLES published,  \* items 1 .. published are in the source
          run,        \* number of the current DAG run, 0 before the first
          task,       \* the task that is running or about to
          tries,      \* its attempt number
          override,   \* dag_run.conf["watermark_override"], 0 if absent
          wmIn,       \* XCom of 00_resolve_watermark_context
          pending,    \* XCom of 01_resolve_source_files
          job,        \* the compute job, its parquet file, the items it read
          xcom,       \* XComs of the tasks after submit
          dwh,        \* how often each item is in the warehouse table
          rows,       \* committed rows of pipeline_runs with their files
          late,       \* rows in record requests whose client timed out
          skipped,    \* items an operator's override passed over (history)
          validated,  \* runs whose post_load_validation succeeded (history)
          disturbed   \* an answer was lost or an operator rewound (history)

runVars == <<run, override, wmIn, pending>>
platformVars == <<rows, late>>
historyVars == <<skipped, validated, disturbed>>
vars == <<published, runVars, task, tries, job, xcom, dwh, platformVars, historyVars>>

(* The tasks that change state, in the order the DAG wires them.  preFlight *)
(* stands for the pre_flight group (and the optional readiness sensor).    *)
Chain == <<"preFlight", "resolveWatermark", "resolveFiles", "submit", "monitor",
           "validateCompute", "readMetrics", "qualityGate", "load", "postLoad",
           "lineage", "emit", "end">>
Task == {Chain[k] : k \in 1 .. 13}
After == [t \in Task \ {"end"} |->
            Chain[1 + CHOOSE k \in 1 .. 12 : Chain[k] = t]]

Row == [run : 1 .. MaxRuns, status : {"running", "success", "failed"},
        wm : Mark, files : SUBSET Item]
NoJob == [state |-> "none", file |-> "absent", read |-> {}]
NoXCom == [result |-> "none", computed |-> FALSE, metrics |-> "none",
           gated |-> FALSE, loaded |-> FALSE]

TypeOK ==
  /\ published \in Mark
  /\ run \in 0 .. MaxRuns
  /\ task \in Task
  /\ tries \in 1 .. MaxTries
  /\ override \in Mark
  /\ wmIn \in Mark
  /\ pending \subseteq Item
  /\ job \in [state : {"none", "running", "finished", "error"},
             file : {"absent", "partial", "complete"}, read : SUBSET Item]
  /\ xcom \in [result : {"none", "failed", "noMetrics", "complete"},
               computed : BOOLEAN, metrics : {"none", "missing", "read"},
               gated : BOOLEAN, loaded : BOOLEAN]
  /\ dwh \in [Item -> Nat]
  /\ rows \subseteq Row
  /\ late \subseteq Row
  /\ skipped \subseteq Item
  /\ validated \subseteq 1 .. MaxRuns
  /\ disturbed \in BOOLEAN

Init ==
  /\ published = 0
  /\ run = 0
  /\ task = "end"
  /\ tries = 1
  /\ override = 0
  /\ wmIn = 0
  /\ pending = {}
  /\ job = NoJob
  /\ xcom = NoXCom
  /\ dwh = [i \in Item |-> 0]
  /\ rows = {}
  /\ late = {}
  /\ skipped = {}
  /\ validated = {}
  /\ disturbed = FALSE

-----------------------------------------------------------------------------
(* The platform's queries on pipeline_runs.                                *)

(* find_latest_watermark_by_pipeline_id: the successful row with a         *)
(* watermark that started last, however late it was inserted.              *)
WithWatermark == {r \in rows : r.status = "success" /\ r.wm # 0}
(* Mutant: ascending order.                                                *)
StoredWatermarkAscending ==
  IF WithWatermark = {} THEN 0
  ELSE (CHOOSE r \in WithWatermark : \A s \in WithWatermark : r.run <= s.run).wm

StoredWatermark ==
  IF WithWatermark = {} THEN 0
  ELSE (CHOOSE r \in WithWatermark : \A s \in WithWatermark : s.run <= r.run).wm

(* find_processed_hashes_by_pipeline: the files of every row, whatever the *)
(* status of its run.                                                      *)
ProcessedHashes == UNION {r.files : r \in rows}

-----------------------------------------------------------------------------
(* Airflow's treatment of a task attempt.                                  *)

Running(t) == run > 0 /\ task = t

Succeed(t) == task' = After[t] /\ tries' = 1

(* Mutant: one attempt too many.                                           *)
FailOffByOne(t) ==
  IF tries <= MaxTries
  THEN tries' = tries + 1 /\ UNCHANGED task
  ELSE tries' = 1 /\ task' = (IF t = "emit" THEN "end" ELSE "emit")

(* A failed attempt is retried; after the last one the chain jumps to the  *)
(* all_done task, or the run is over when that one fails.                  *)
Fail(t) ==
  IF tries < MaxTries
  THEN tries' = tries + 1 /\ UNCHANGED task
  ELSE tries' = 1 /\ task' = (IF t = "emit" THEN "end" ELSE "emit")

(* The worker is lost, or the task raises before it changes anything.      *)
AttemptFails(t) ==
  /\ Running(t) /\ t # "end"
  /\ Fail(t)
  /\ disturbed' = (disturbed \/ (t = "emit" /\ tries = MaxTries))
  /\ UNCHANGED <<published, runVars, job, xcom, dwh, platformVars, skipped, validated>>

-----------------------------------------------------------------------------
(* The environment.                                                        *)

Publish ==
  /\ published < MaxItem
  /\ published' = published + 1
  /\ UNCHANGED <<runVars, task, tries, job, xcom, dwh, platformVars, historyVars>>

(* The scheduler starts a run, or the trigger API does: the API has then   *)
(* inserted a RUNNING row.  0 (as None or "") is no override.              *)
StartRun(triggered, v) ==
  /\ task = "end" /\ run < MaxRuns
  /\ v # 0 => Overrides
  /\ run' = run + 1
  /\ task' = "preFlight" /\ tries' = 1
  /\ override' = v
  /\ wmIn' = 0 /\ pending' = {}
  /\ job' = NoJob /\ xcom' = NoXCom
  /\ rows' = IF triggered
             THEN rows \union {[run |-> run + 1, status |-> "running",
                                wm |-> 0, files |-> {}]}
             ELSE rows
  /\ UNCHANGED <<published, dwh, late, historyVars>>

-----------------------------------------------------------------------------
(* pre_flight and compute_engine.                                          *)

(* Dependencies, discovery snapshot and drift classification.              *)
PreFlight ==
  /\ Running("preFlight")
  /\ Succeed("preFlight")
  /\ UNCHANGED <<published, runVars, job, xcom, dwh, platformVars, historyVars>>

(* Override, else the stored watermark, else the initial value.  An error  *)
(* of the platform API is not caught: the attempt fails.                   *)
ResolveWatermark ==
  /\ Running("resolveWatermark")
  /\ Succeed("resolveWatermark")
  /\ wmIn' = IF ~Incremental THEN 0
             ELSE IF override # 0 THEN override ELSE StoredWatermark
  /\ skipped' = skipped \union
       (IF Incremental /\ override > StoredWatermark
        THEN {i \in Item : StoredWatermark < i /\ i <= override} ELSE {})
  /\ disturbed' = (disturbed \/ (override # 0 /\ override < StoredWatermark))
  /\ UNCHANGED <<published, run, override, pending, job, xcom, dwh,
                 platformVars, validated>>

(* Landing files whose hash is not processed yet.  The client swallows an  *)
(* error of the platform API and returns no hashes at all.                 *)
ResolveFiles ==
  /\ Running("resolveFiles")
  /\ Succeed("resolveFiles")
  /\ \/ /\ pending' = IF Incremental THEN {} ELSE (1 .. published) \ ProcessedHashes
        /\ UNCHANGED disturbed
     \/ /\ ~Incremental
        /\ pending' = 1 .. published
        /\ disturbed' = TRUE
  /\ UNCHANGED <<published, run, override, wmIn, job, xcom, dwh, platformVars,
                 skipped, validated>>

(* Mutant: column >= watermark.                                            *)
ToExtractInclusive == IF Incremental
                      THEN {i \in 1 .. published : i >= wmIn}
                      ELSE pending

(* column > watermark, or the pending files.                               *)
ToExtract == IF Incremental
             THEN {i \in 1 .. published : i > wmIn}
             ELSE pending

(* A new job with a new directory.  The DuckDB adapter returns at once and *)
(* extracts in a thread; the others return when the job has ended.         *)
Submit ==
  /\ Running("submit")
  /\ Succeed("submit")
  /\ \/ Background /\ job' = [NoJob EXCEPT !.state = "running"]
     \/ ~Background /\ job' = [state |-> "finished", file |-> "complete", read |-> ToExtract]
     \/ ~Background /\ job' = [NoJob EXCEPT !.state = "error"]
  /\ UNCHANGED <<published, runVars, xcom, dwh, platformVars, historyVars>>

(* The extraction thread: COPY creates the parquet file and fills it, then *)
(* metrics.json is written; any error writes error.txt.                    *)
JobStep ==
  /\ job.state = "running"
  /\ \/ job.file = "absent" /\ job' = [job EXCEPT !.file = "partial", !.read = ToExtract]
     \/ job.file = "partial" /\ job' = [job EXCEPT !.file = "complete"]
     \/ job.file = "complete" /\ job' = [job EXCEPT !.state = "finished"]
     \/ job' = [job EXCEPT !.state = "error"]
  /\ UNCHANGED <<published, runVars, task, tries, xcom, dwh, platformVars, historyVars>>

(* poll_job_status from another worker process looks at the directory:     *)
(* error.txt is a failure, any parquet file is a success, with the metrics *)
(* only if their file exists already; otherwise the sensor pokes again.    *)
Poll ==
  /\ Running("monitor")
  /\ \/ job.state = "error" /\ xcom' = [xcom EXCEPT !.result = "failed"]
     \/ /\ job.state = "running" /\ job.file # "absent"
        /\ xcom' = [xcom EXCEPT !.result = "noMetrics"]
     \/ job.state = "finished" /\ xcom' = [xcom EXCEPT !.result = "complete"]
  /\ Succeed("monitor")
  /\ disturbed' = (disturbed \/ xcom'.result = "noMetrics")
  /\ UNCHANGED <<published, runVars, job, dwh, platformVars, skipped, validated>>

(* Mutant: a sensor without a timeout.                                     *)
SensorNeverTimesOut == FALSE /\ UNCHANGED vars

(* The sensor's own timeout fails it for good, without a retry.            *)
SensorTimeout ==
  /\ Running("monitor")
  /\ job.state = "running" /\ job.file = "absent"
  /\ task' = "emit" /\ tries' = 1
  /\ UNCHANGED <<published, runVars, job, xcom, dwh, platformVars, historyVars>>

JobSucceeded == xcom.result # "failed"

ValidateCompute ==
  /\ Running("validateCompute")
  /\ JobSucceeded
  /\ Succeed("validateCompute")
  /\ xcom' = [xcom EXCEPT !.computed = TRUE]
  /\ UNCHANGED <<published, runVars, job, dwh, platformVars, historyVars>>

-----------------------------------------------------------------------------
(* validation_and_metrics, data_load.                                      *)

(* StorageReader never raises: no path, no metrics.                        *)
ReadMetrics ==
  /\ Running("readMetrics")
  /\ Succeed("readMetrics")
  /\ xcom' = [xcom EXCEPT !.metrics =
                IF xcom.result = "complete" THEN "read" ELSE "missing"]
  /\ UNCHANGED <<published, runVars, job, dwh, platformVars, historyVars>>

(* Mutant: rules whose metric is missing are the only ones that fail.      *)
OnlyMissingMetricsFail == HasRules => xcom.metrics = "read"

(* A missing metric violates the rule, whatever its type, and so does a    *)
(* bad item.                                                               *)
RulesHold == HasRules => xcom.metrics = "read" /\ job.read \intersect Bad = {}

QualityGate ==
  /\ Running("qualityGate")
  /\ RulesHold
  /\ Succeed("qualityGate")
  /\ xcom' = [xcom EXCEPT !.gated = TRUE]
  /\ UNCHANGED <<published, runVars, job, dwh, platformVars, historyVars>>

(* One BigQuery load job with WRITE_APPEND: all of the file or nothing, so *)
(* a file still being written is refused.  The rows may be in the table    *)
(* and the attempt fail all the same.                                      *)
FileReadable == job.file = "complete"

Load ==
  /\ Running("load")
  /\ FileReadable
  /\ dwh' = [i \in Item |-> dwh[i] + (IF i \in job.read THEN 1 ELSE 0)]
  /\ \/ /\ Succeed("load")
        /\ xcom' = [xcom EXCEPT !.loaded = TRUE]
        /\ UNCHANGED disturbed
     \/ /\ Fail("load")
        /\ disturbed' = TRUE
        /\ UNCHANGED xcom
  /\ UNCHANGED <<published, runVars, job, platformVars, skipped, validated>>

(* The metrics and the load job counted the same file, so the comparison   *)
(* of their row counts holds; the attempt may still fail.                  *)
PostLoad ==
  /\ Running("postLoad")
  /\ Succeed("postLoad")
  /\ validated' = validated \union {run}
  /\ UNCHANGED <<published, runVars, job, xcom, dwh, platformVars, skipped, disturbed>>

-----------------------------------------------------------------------------
(* observability.                                                          *)

Lineage ==
  /\ Running("lineage")
  /\ Succeed("lineage")
  /\ UNCHANGED <<published, runVars, job, xcom, dwh, platformVars, historyVars>>

(* Mutant: the load's XCom is not consulted.                               *)
FinalStatusWithoutLoad == IF xcom.computed THEN "success" ELSE "failed"

(* The quality gate raises instead of reporting, so its XCom never says    *)
(* quality_ok = False and its branch of the template is never taken.       *)
FinalStatus == IF xcom.computed /\ xcom.loaded THEN "success" ELSE "failed"

(* metrics["watermark"]: MAX(column), or the incoming value of an empty    *)
(* extraction.                                                             *)
MetricsWatermark ==
  IF job.read = {} THEN wmIn
  ELSE CHOOSE i \in job.read : \A k \in job.read : k <= i

(* RecordPipelineRunUseCase keeps the watermark of a success only.         *)
FinalRow ==
  [run |-> run, status |-> FinalStatus,
   wm |-> IF Incremental /\ FinalStatus = "success" /\ xcom.metrics = "read"
          THEN MetricsWatermark ELSE 0,
   files |-> pending]

(* The client swallows every error.  The row is committed, or lost, or     *)
(* committed after the client gave up; or it is committed and the worker   *)
(* dies, so that the task runs again with a new uuid.                      *)
Emit ==
  /\ Running("emit")
  /\ \/ /\ rows' = rows \union {FinalRow}
        /\ Succeed("emit")
        /\ UNCHANGED <<late, disturbed>>
     \/ /\ Succeed("emit")
        /\ disturbed' = TRUE
        /\ UNCHANGED platformVars
     \/ /\ late' = late \union {FinalRow}
        /\ Succeed("emit")
        /\ disturbed' = TRUE
        /\ UNCHANGED rows
     \/ /\ rows' = rows \union {FinalRow}
        /\ Fail("emit")
        /\ UNCHANGED <<late, disturbed>>
  /\ UNCHANGED <<published, runVars, job, xcom, dwh, skipped, validated>>

Deliver(r) ==
  /\ r \in late
  /\ rows' = rows \union {r}
  /\ late' = late \ {r}
  /\ UNCHANGED <<published, runVars, task, tries, job, xcom, dwh, historyVars>>

-----------------------------------------------------------------------------
(* What a task attempt does when no worker is lost: its work, or the       *)
(* exception its input calls for.                                          *)
Progress ==
  \/ PreFlight
  \/ ResolveWatermark
  \/ ResolveFiles
  \/ Submit
  \/ Poll
  \/ SensorTimeout
  \/ ValidateCompute
  \/ ReadMetrics
  \/ QualityGate
  \/ Load
  \/ PostLoad
  \/ Lineage
  \/ Emit
  \/ ~JobSucceeded /\ AttemptFails("validateCompute")
  \/ ~RulesHold /\ AttemptFails("qualityGate")
  \/ ~FileReadable /\ AttemptFails("load")

Next ==
  \/ Publish
  \/ \E triggered \in BOOLEAN : \E v \in Mark : StartRun(triggered, v)
  \/ Progress
  \/ \E t \in Task : AttemptFails(t)
  \/ JobStep
  \/ \E r \in late : Deliver(r)

Spec == Init /\ [][Next]_vars

(* Airflow keeps scheduling the attempts of a run.  Nothing is assumed of  *)
(* the extraction thread, which dies with its process.                     *)
FairSpec == Spec /\ WF_vars(Progress)

-----------------------------------------------------------------------------
(* Properties.                                                             *)

(* No data loss in incremental mode: every item up to the stored           *)
(* watermark, which no later run will ever read again, is in the warehouse *)
(* unless an operator's override passed over it.                           *)
NoDataLoss ==
  Incremental => \A i \in Item :
    i <= StoredWatermark => dwh[i] > 0 \/ i \in skipped

(* The stored watermark never goes back, not even when the record of an    *)
(* earlier run arrives after that of a later one.  Only a mark an operator *)
(* had set ahead of the source can be taken back.                          *)
StoredWatermarkNeverRegresses ==
  [][StoredWatermark' < StoredWatermark => StoredWatermark \in skipped]_vars

(* A row that says success stands for data that is in the warehouse: the   *)
(* files it lists have been loaded.                                        *)
SuccessfulFilesAreLoaded ==
  \A r \in rows : r.status = "success" => \A f \in r.files : dwh[f] > 0

(* Data that breaks a quality rule never reaches the warehouse, whatever   *)
(* the job had written when the metrics were read.  When they are missing  *)
(* this is due to the gate failing then, although the docstring at         *)
(* shared_callbacks.py:71-73 says that it skips the rules it cannot judge. *)
NoBadDataLoaded == HasRules => \A i \in Bad : dwh[i] = 0

(* Exactly once, as long as no answer is lost, no job is polled before it  *)
(* has ended and no operator rewinds: task failures and retries alone do   *)
(* not duplicate data.                                                     *)
ExactlyOnceUndisturbed == ~disturbed => \A i \in Item : dwh[i] <= 1

(* Every DAG run ends, also when its compute job never does: a run starts  *)
(* only after the one before it, so the DAG is at its end again and again. *)
RunsEnd == []<>(task = "end")

(* pipeline_run_repository.py:46 calls the recorded hashes those of        *)
(* "successfully processed files".                                         *)
ProcessedFilesWereLoaded == \A f \in ProcessedHashes : dwh[f] > 0
=============================================================================
