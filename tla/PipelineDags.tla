---------------------------- MODULE PipelineDags ----------------------------
(***************************************************************************)
(* The generated DAGs of etl, export and transformation pipelines          *)
(* (etl_dag.py.j2 with its two compute engines, export_dag.py.j2,          *)
(* transformation_dag.py.j2), their Airflow callbacks, and the compute job *)
(* they submit.  The ingestion DAG is in IngestionDag.                     *)
(*                                                                         *)
(* Tasks are a chain.  An attempt may fail and is retried; after the last  *)
(* attempt the rest of the chain is skipped, but for the recording of the  *)
(* run (trigger_rule all_done).                                            *)
(***************************************************************************)
EXTENDS ComputeJobs

CONSTANTS MaxRuns,   \* DAG runs explored
          MaxTries,  \* attempts per task: retries + 1
          Cases      \* the kinds of DAG with the engines they run

Kinds == {"etl", "cosmos", "export", "transformation"}

ASSUME DagBounds ==
  {MaxRuns, MaxTries} \subseteq Nat \ {0} /\ Cases \subseteq Kinds \X Engines

VARIABLES kind,      \* pipeline.type, "cosmos" for an etl pipeline with dbt
          run,       \* number of the current DAG run
          task,      \* the task that is running or about to
          tries,     \* its attempt number
          failedAt,  \* the task whose last attempt failed
          xcom,      \* XComs of poll, validate and gate
          target,    \* run_results.json of the dbt project: its run, its verdict
          catalog,   \* the run whose columns the catalogue's elements are, or 0
          rows,      \* status of the runs recorded on the platform
          events     \* runs whose dataset events downstream DAGs have seen

dagVars == <<kind, run, task, tries, failedAt, xcom, target, catalog, rows, events>>
vars == <<jobVars, dagVars>>

(* The tasks in the order the templates wire them.                         *)
Chain == [etl |-> <<"preFlight", "submit", "monitor", "validate", "metrics", "gate",
                    "docs", "lineage", "emit", "notify", "end">>,
          cosmos |-> <<"preFlight", "dbtGroup", "collect", "metrics", "gate",
                       "docs", "lineage", "emit", "notify", "end">>,
          export |-> <<"preFlight", "submit", "monitor", "validate", "metrics", "gate",
                       "deliver", "lineage", "emit", "notify", "end">>,
          transformation |-> <<"submit", "gate", "sync", "emit", "end">>]
Tasks == UNION {RowsOf(Chain[k]) : k \in Kinds}
Next1(t) == LET c == Chain[kind]
            IN  c[1 + CHOOSE i \in 1 .. Len(c) - 1 : c[i] = t]

NoXCom == [polled |-> "none", validated |-> FALSE, gated |-> FALSE]

TypeOK ==
  /\ JobTypeOK
  /\ <<kind, engine>> \in Cases
  /\ run \in 0 .. MaxRuns
  /\ task \in RowsOf(Chain[kind])
  /\ tries \in 1 .. MaxTries
  /\ failedAt \in Tasks \cup {"none"}
  /\ xcom \in [polled : {"none", "success", "failed"}, validated : BOOLEAN, gated : BOOLEAN]
  /\ target \in [run : 0 .. MaxRuns, verdict : {"none", "passed", "failed"}]
  /\ catalog \in 0 .. MaxRuns
  /\ rows \in [1 .. MaxRuns -> {"none", "success", "failed", "quality_failed"}]
  /\ events \subseteq 1 .. MaxRuns

Init ==
  /\ \E c \in Cases : kind = c[1] /\ engine = c[2]
  /\ api \in IF engine = "rest_api" THEN [strategy : Strategies, limit : 1 .. PageSize + 1]
             ELSE {[strategy |-> "none", limit |-> 1]}
  /\ JobInit
  /\ run = 0 /\ task = "end" /\ tries = 1 /\ failedAt = "none"
  /\ xcom = NoXCom
  /\ target = [run |-> 0, verdict |-> "none"]
  /\ catalog = 0
  /\ rows = [n \in 1 .. MaxRuns |-> "none"]
  /\ events = {}

-----------------------------------------------------------------------------
(* Airflow's treatment of a task attempt.                                  *)

Succeed == task' = Next1(task) /\ tries' = 1 /\ UNCHANGED failedAt

(* Once a task has failed for good those after it are upstream_failed, and *)
(* only the recording of the run is left.                                  *)
GiveUp == CASE task = "emit" -> IF failedAt = "none" THEN Next1("emit") ELSE "end"
            [] task = "notify" -> "end"
            [] OTHER -> "emit"
(* Mutant: one attempt too many.                                           *)
FailOffByOne ==
  IF tries <= MaxTries
  THEN tries' = tries + 1 /\ UNCHANGED <<task, failedAt>>
  ELSE /\ tries' = 1
       /\ task' = GiveUp
       /\ failedAt' = IF failedAt = "none" /\ task # "emit" THEN task ELSE failedAt

(* Mutant: a failed attempt is not counted.                                *)
FailUncounted ==
  IF tries < MaxTries
  THEN UNCHANGED <<task, tries, failedAt>>
  ELSE /\ tries' = 1
       /\ task' = GiveUp
       /\ failedAt' = IF failedAt = "none" /\ task # "emit" THEN task ELSE failedAt

Fail ==
  IF tries < MaxTries
  THEN tries' = tries + 1 /\ UNCHANGED <<task, failedAt>>
  ELSE /\ tries' = 1
       /\ task' = GiveUp
       /\ failedAt' = IF failedAt = "none" /\ task # "emit" THEN task ELSE failedAt

(* The worker is lost or the task raises before it has changed anything;   *)
(* a submit may be lost at any point of its job.                           *)
AttemptFails ==
  /\ task # "end"
  /\ Fail
  /\ job' = IF task = "submit" THEN NoJob ELSE job
  /\ dir' = IF task = "submit" THEN EmptyDir ELSE dir
  /\ UNCHANGED <<engine, api, source, present, shifted, kind, run, xcom, target,
                 catalog, rows, events>>

StartRun ==
  /\ task = "end" /\ run < MaxRuns
  /\ run' = run + 1
  /\ task' = Chain[kind][1] /\ tries' = 1 /\ failedAt' = "none"
  /\ xcom' = NoXCom
  /\ job' = NoJob /\ dir' = EmptyDir
  /\ UNCHANGED <<engine, api, source, present, shifted, kind, target, catalog, rows, events>>

-----------------------------------------------------------------------------
(* The tasks.  An exception a task's input calls for is an AttemptFails.   *)

(* check_dependencies, and with the etl and export callbacks' checks, which *)
(* are constant (validate_source_models sends no previous snapshot).       *)
PreFlight ==
  /\ task = "preFlight"
  /\ Succeed
  /\ UNCHANGED <<jobVars, kind, run, xcom, target, catalog, rows, events>>

(* A transformation polls its own adapter at once and passes any status    *)
(* on; the task's success is the dataset event of the DAG's outlets.       *)
Submit ==
  /\ task = "submit"
  /\ IF job.pc = "none" THEN StartJob /\ UNCHANGED dagVars
     ELSE IF job.pc = "returned"
     THEN /\ Succeed
          /\ IF kind = "transformation"
             THEN /\ xcom' = [xcom EXCEPT !.polled = job.held]
                  /\ events' = events \cup {run}
             ELSE UNCHANGED <<xcom, events>>
          /\ UNCHANGED <<jobVars, kind, run, target, catalog, rows>>
     ELSE IF job.pc = "raised" THEN AttemptFails
     ELSE SubmitSteps /\ UNCHANGED dagVars

(* A fresh adapter at every poke.  As submit has waited for the job's end, *)
(* the first poke finds a terminal status.                                 *)
Poll ==
  /\ task = "monitor"
  /\ xcom' = [xcom EXCEPT !.polled = DiskStatus(dir)]
  /\ dir' = PolledDir(dir)
  /\ Succeed
  /\ UNCHANGED <<engine, api, source, present, shifted, job,
                 kind, run, target, catalog, rows, events>>

(* validate_compute_execution raises unless the status is success.         *)
ComputeSucceeded == xcom.polled = "success"

Validate ==
  /\ task = "validate"
  /\ IF ComputeSucceeded
     THEN xcom' = [xcom EXCEPT !.validated = TRUE] /\ Succeed
     ELSE Fail /\ UNCHANGED xcom
  /\ UNCHANGED <<jobVars, kind, run, target, catalog, rows, events>>

(* Cosmos runs the project's nodes as tasks.  Whether their results reach  *)
(* the project's target directory is up to its execution mode.             *)
DbtGroup ==
  /\ task = "dbtGroup"
  /\ \E verdict \in {"passed", "failed"}, written \in BOOLEAN :
       /\ target' = IF written THEN [run |-> run, verdict |-> verdict] ELSE target
       /\ IF verdict = "passed" THEN Succeed ELSE Fail
  /\ UNCHANGED <<jobVars, kind, run, xcom, catalog, rows, events>>

(* collect_dbt_execution_metrics: the results that lie there, of whichever *)
(* run, decide; none is an exception.                                      *)
Collect ==
  /\ task = "collect"
  /\ IF target.verdict = "passed"
     THEN xcom' = [xcom EXCEPT !.polled = "success", !.validated = TRUE] /\ Succeed
     ELSE Fail /\ UNCHANGED xcom
  /\ UNCHANGED <<jobVars, kind, run, target, catalog, rows, events>>

(* StorageReader never raises.                                             *)
ReadMetrics ==
  /\ task = "metrics"
  /\ Succeed
  /\ UNCHANGED <<jobVars, kind, run, xcom, target, catalog, rows, events>>

(* evaluate_transformation_quality_gates: failed tests and a missing key   *)
(* raise; neither the job's status nor its exit code is looked at.         *)
TransformationPasses == dir.metrics.failed = 0

(* quality_gate raises for a violated rule of an etl pipeline; an export   *)
(* has no rules.                                                           *)
Gate ==
  /\ task = "gate"
  /\ \/ /\ (kind = "transformation" => TransformationPasses)
        /\ xcom' = [xcom EXCEPT !.gated = TRUE] /\ Succeed
     \/ /\ kind \in {"etl", "cosmos"} \/ (kind = "transformation" /\ ~TransformationPasses)
        /\ Fail /\ UNCHANGED xcom
  /\ UNCHANGED <<jobVars, kind, run, target, catalog, rows, events>>

(* publish_documentation raises NotImplementedError, always.               *)
Docs ==
  /\ task = "docs"
  /\ Fail
  /\ UNCHANGED <<jobVars, kind, run, xcom, target, catalog, rows, events>>

(* publish_export_artifacts and validate_delivery deliver nothing yet; the *)
(* lineage client swallows errors.                                         *)
DeliverOrLineage ==
  /\ task \in {"deliver", "lineage"}
  /\ Succeed
  /\ UNCHANGED <<jobVars, kind, run, xcom, target, catalog, rows, events>>

(* The columns of the manifest are this run's.  dbt replaces the elements  *)
(* of an object it finds; dataform leaves such an object as it is.         *)
SyncedByDbt == run
SyncedByDataform == IF catalog = 0 THEN run ELSE catalog

(* One transaction over every model.  A missing manifest or an unknown     *)
(* asset raises before it.                                                 *)
Sync ==
  /\ task = "sync"
  /\ \/ /\ catalog' = IF engine = "dbt" THEN SyncedByDbt ELSE SyncedByDataform
        /\ Succeed
     \/ Fail /\ UNCHANGED catalog
  /\ UNCHANGED <<jobVars, kind, run, xcom, target, rows, events>>

(* A transformation succeeded when its gate passed.  The others look for   *)
(* quality_ok = False, which the gate raises instead of returning, and     *)
(* then only at the compute job.                                           *)
FinalStatus ==
  CASE kind = "transformation" -> IF xcom.gated THEN "success" ELSE "quality_failed"
    [] OTHER -> IF xcom.validated THEN "success" ELSE "failed"

(* Mutant: the notification waits for the recording, whatever failed.      *)
EmitThenNotify ==
  /\ task = "emit"
  /\ \/ rows' = [rows EXCEPT ![run] = FinalStatus]
     \/ UNCHANGED rows
  /\ Succeed
  /\ UNCHANGED <<jobVars, kind, run, xcom, target, catalog, events>>

(* The client swallows errors: the row is stored or lost, and stored again *)
(* when the worker dies after it.                                          *)
Emit ==
  /\ task = "emit"
  /\ \/ rows' = [rows EXCEPT ![run] = FinalStatus]
     \/ UNCHANGED rows
  /\ \/ /\ IF failedAt = "none" THEN Succeed
           ELSE task' = "end" /\ tries' = 1 /\ UNCHANGED failedAt
     \/ rows' # rows /\ Fail
  /\ UNCHANGED <<jobVars, kind, run, xcom, target, catalog, events>>

(* success_notification, with the pipeline's asset as its outlet.          *)
Notify ==
  /\ task = "notify"
  /\ Succeed
  /\ events' = events \cup {run}
  /\ UNCHANGED <<jobVars, kind, run, xcom, target, catalog, rows>>

Work ==
  \/ PreFlight \/ Submit \/ Poll \/ Validate \/ DbtGroup \/ Collect \/ ReadMetrics
  \/ Gate \/ Docs \/ DeliverOrLineage \/ Sync \/ Emit \/ Notify

Next ==
  \/ StartRun
  \/ Work
  \/ AttemptFails
  \/ SourceChanges /\ UNCHANGED dagVars

(* Airflow keeps scheduling the tasks of a run; the engines answer.        *)
Spec == Init /\ [][Next]_vars /\ WF_vars(Work)

-----------------------------------------------------------------------------
(* Properties.                                                             *)

(* The row that records a run as a success is backed by the engine: its    *)
(* job ended well by what it left behind, and a transformation's tests     *)
(* passed, with an exit code of 0 unless the results of another executor   *)
(* say so in its place.  The quality gate of an etl run is not part of it: *)
(* a run it stopped is recorded as a success all the same.                 *)
RowEarned ==
  rows[run] = "success" =>
    CASE kind = "transformation" ->
           dir.metrics.failed = 0 /\ (job.exit = 0 \/ dir.results = "passed")
      [] kind = "cosmos" -> target.verdict = "passed"
      [] OTHER -> DiskStatus(dir) = "success"

(* The dataset event that starts downstream DAGs: of an export pipeline    *)
(* only when everything before the notification has succeeded, of an etl   *)
(* pipeline never, since docs always fails, and of a transformation when   *)
(* its job has ended, however it did.                                      *)
EventEarned ==
  run \in events =>
    CASE kind = "transformation" -> job.pc = "returned"
      [] kind = "export" -> xcom.gated /\ xcom.validated /\ failedAt \in {"none", "notify"}
      [] OTHER -> FALSE

(* What a run tells the platform and the DAGs downstream of it is true.    *)
ReportsAreEarned == run > 0 => RowEarned /\ EventEarned

(* Every DAG run ends.                                                     *)
RunsEnd == []<>(task = "end")
=============================================================================
