-------------------------- MODULE PipelineDagsProofs --------------------------
(***************************************************************************)
(* Theorems about PipelineDags and the jobs it submits, for every kind of  *)
(* DAG with every engine and every number of rows, runs and attempts.      *)
(***************************************************************************)
EXTENDS PipelineDags, SequenceTheorems, FiniteSetTheorems, TLAPS

(* Jobs and directories are records.                                       *)
JobShape == job = [pc |-> job.pc, at |-> job.at, fetches |-> job.fetches,
                   exit |-> job.exit, held |-> job.held, missed |-> job.missed]
DirShape == dir = [made |-> dir.made, manifest |-> dir.manifest, parts |-> dir.parts,
                   readable |-> dir.readable, error |-> dir.error, results |-> dir.results,
                   metrics |-> dir.metrics]
MetricsShape ==
  /\ dir.metrics = [there |-> dir.metrics.there, watermark |-> dir.metrics.watermark,
                    exit |-> dir.metrics.exit, failed |-> dir.metrics.failed]
  /\ dir.metrics.watermark \in BOOLEAN
Shape == /\ JobShape /\ DirShape /\ MetricsShape
         /\ engine \in Engines /\ dir.error \in BOOLEAN

(* What the directory says of a job on its way, and when it has returned.  *)
OnItsWay ==
  /\ job.pc \in {"made", "ready", "paging"} => ~dir.error
  /\ job.pc = "made" => dir.manifest = "none" /\ job.exit = 0
  /\ job.pc = "executed" => engine \in Transformers /\ (dir.error => job.exit = 1)
Agrees == job.pc = "returned" /\ ~EmptyRest /\ ~LostWatermark => job.held = DiskStatus(dir)
JobInv == Shape /\ OnItsWay /\ Agrees

(* A poll of the directory finds what the poll before it found.            *)
LEMMA PollIsIdempotent == Shape => DiskStatus(PolledDir(dir)) = DiskStatus(dir)
BY DEF Shape, DirShape, MetricsShape, DiskStatus, PolledDir, Measured, OmniBeamSucceeded, NoMetrics,
       RestApiSucceeded, TransformationSucceeded, NoneFailed

(* What a new job and its directory look like.                             *)
LEMMA FreshShapes ==
  /\ NoJob.pc = "none"
  /\ NoJob = [pc |-> NoJob.pc, at |-> NoJob.at, fetches |-> NoJob.fetches,
              exit |-> NoJob.exit, held |-> NoJob.held, missed |-> NoJob.missed]
  /\ NoJob.exit = 0
  /\ EmptyDir = [made |-> EmptyDir.made, manifest |-> EmptyDir.manifest, parts |-> EmptyDir.parts,
                 readable |-> EmptyDir.readable, error |-> EmptyDir.error,
                 results |-> EmptyDir.results, metrics |-> EmptyDir.metrics]
  /\ EmptyDir.manifest = "none" /\ EmptyDir.error = FALSE /\ EmptyDir.metrics = NoMetrics
  /\ NoMetrics = [there |-> NoMetrics.there, watermark |-> NoMetrics.watermark,
                  exit |-> NoMetrics.exit, failed |-> NoMetrics.failed]
  /\ NoMetrics.watermark = FALSE
BY DEF NoJob, EmptyDir, NoMetrics

(* No job has been submitted.                                              *)
LEMMA InitJob == Init => JobInv
<1> SUFFICES ASSUME Init PROVE JobInv
  OBVIOUS
<1>1. engine \in Engines
  BY DagBounds DEF Init
<1>2. job = NoJob /\ dir = EmptyDir
  BY DEF Init, JobInit
<1> QED BY <1>1, <1>2, FreshShapes DEF JobInv, Shape, JobShape, DirShape, MetricsShape,
                                       OnItsWay, Agrees

(* A job that is dropped or begun says nothing yet.                        *)
LEMMA FreshJob ==
  ASSUME engine \in Engines, UNCHANGED engine,
         job' = NoJob \/ job' = [NoJob EXCEPT !.pc = "made"],
         dir' = EmptyDir \/ dir' = [EmptyDir EXCEPT !.made = TRUE]
  PROVE  JobInv'
<1>1. JobShape' /\ job'.pc \in {"none", "made"} /\ job'.exit = 0
  BY FreshShapes DEF JobShape
<1>2. /\ DirShape' /\ dir'.manifest = "none" /\ dir'.error = FALSE
      /\ dir'.metrics = NoMetrics
  BY FreshShapes DEF DirShape
<1>3. MetricsShape'
  BY <1>2, FreshShapes DEF MetricsShape
<1> QED BY <1>1, <1>2, <1>3 DEF JobInv, Shape, OnItsWay, Agrees

(* What a submission does to the directory agrees with what it returns.    *)
LEMMA SubmitKeeps == JobInv /\ SubmitSteps => JobInv'
<1> SUFFICES ASSUME JobInv, SubmitSteps PROVE JobInv'
  OBVIOUS
<1> USE DEF JobInv, Shape, JobShape, DirShape, MetricsShape, OnItsWay, Agrees, Keep
<1>a. engine \in Engines /\ UNCHANGED engine
  BY DEF SubmitSteps, EmptyBatch, WriteManifest, RunCli, Prepare, FetchPage, MissPage, FetchFails,
         Execute, ProcessResults, Abort
<1>1. CASE EmptyBatch
  BY <1>1 DEF EmptyBatch, Return, NoMetrics, DiskStatus, OmniBeamSucceeded, Measured
<1>2. CASE WriteManifest
  BY <1>2 DEF WriteManifest
<1>3. CASE RunCli
  <2>1. /\ engine = "omnibeam" /\ UNCHANGED engine
        /\ JobShape' /\ job'.pc = "returned"
    BY <1>3 DEF RunCli, Return
  <2>2. CASE /\ dir'.error = TRUE /\ job'.held = "failed"
             /\ DirShape' /\ MetricsShape'
    BY <2>1, <2>2 DEF DiskStatus
  <2>3. ASSUME NEW p, NEW m \in BOOLEAN, NEW w \in BOOLEAN, NEW readable \in BOOLEAN,
               dir' = [dir EXCEPT !.parts = p, !.readable = readable,
                         !.metrics = [NoMetrics EXCEPT !.there = m, !.watermark = m /\ w]],
               job'.held = "success"
        PROVE  JobInv'
    <3>1. /\ DirShape' /\ dir'.error = dir.error /\ dir'.manifest = dir.manifest
          /\ dir'.metrics = [NoMetrics EXCEPT !.there = m, !.watermark = m /\ w]
      BY <2>3
    <3>2. MetricsShape'
      BY <3>1 DEF NoMetrics
    <3>3. ~dir.error /\ ~dir'.error
      BY <1>3, <3>1 DEF RunCli
    <3>4. ~LostWatermark' => OmniBeamSucceeded(dir)'
      BY <2>1, <3>1, <3>2 DEF LostWatermark, OmniBeamSucceeded, Measured, NoMetrics
    <3> QED BY <2>1, <2>3, <3>1, <3>2, <3>3, <3>4 DEF DiskStatus
  <2>4. ASSUME NEW p, dir' = [dir EXCEPT !.parts = p, !.error = TRUE]
        PROVE  dir'.error = TRUE /\ DirShape' /\ MetricsShape'
    BY <2>4
  <2>5. Return("success") => job'.held = "success"
    BY DEF Return
  <2>6. Return("failed") => job'.held = "failed"
    BY DEF Return
  <2>7. CASE \E p \in Shards, m, w, readable \in BOOLEAN :
               /\ dir' = [dir EXCEPT !.parts = p, !.readable = readable,
                            !.metrics = [NoMetrics EXCEPT !.there = m, !.watermark = m /\ w]]
               /\ Return("success")
    <3>1. PICK p \in Shards, m \in BOOLEAN, w \in BOOLEAN, readable \in BOOLEAN :
            dir' = [dir EXCEPT !.parts = p, !.readable = readable,
                      !.metrics = [NoMetrics EXCEPT !.there = m, !.watermark = m /\ w]]
      BY ONLY <2>7
    <3>2. job'.held = "success"
      BY ONLY <2>5, <2>7
    <3> QED BY ONLY <2>3, <3>1, <3>2
  <2>8. CASE \E p \in Shards \cup {<<>>} :
               dir' = [dir EXCEPT !.parts = p, !.error = TRUE] /\ Return("failed")
    BY <2>2, <2>4, <2>6, <2>8
  <2>9. \/ \E p \in Shards, m, w, readable \in BOOLEAN :
             /\ dir' = [dir EXCEPT !.parts = p, !.readable = readable,
                          !.metrics = [NoMetrics EXCEPT !.there = m, !.watermark = m /\ w]]
             /\ Return("success")
        \/ \E p \in Shards \cup {<<>>} :
             dir' = [dir EXCEPT !.parts = p, !.error = TRUE] /\ Return("failed")
    BY ONLY <1>3, Zenon DEF RunCli
  <2> QED BY ONLY <2>7, <2>8, <2>9
<1>4. ASSUME Abort PROVE JobInv'
  BY <1>4 DEF Abort, Return, DiskStatus
<1>5. CASE Prepare
  BY <1>4, <1>5 DEF Prepare
<1>6. CASE FetchPage
  <2> DEFINE ps == Flushed
             last == LastPage
             next == [job EXCEPT !.fetches = 0,
                        !.at = IF api.strategy = "cursor" THEN Page[Len(Page)]
                               ELSE Smaller(@ + PageSize, MaxRow)]
  <2>1. ASSUME dir' = [dir EXCEPT !.parts = ps, !.metrics.there = last],
               IF last THEN job' = [job EXCEPT !.pc = "returned", !.held = "success"]
               ELSE job' = next
        PROVE  JobInv'
    <3>1. engine = "rest_api" /\ job.pc = "paging" /\ ~dir.error
      BY <1>6 DEF FetchPage
    <3> HIDE DEF ps, last
    <3>2. /\ DirShape' /\ dir'.error = dir.error
          /\ dir'.metrics = [dir.metrics EXCEPT !.there = last]
      BY <2>1
    <3>3. MetricsShape'
      BY <3>2
    <3>4. CASE last
      <4>1. JobShape' /\ job'.pc = "returned" /\ job'.held = "success"
        BY <2>1, <3>4
      <4> QED BY <1>a, <3>1, <3>2, <3>3, <4>1 DEF DiskStatus, RestApiSucceeded, EmptyRest
    <3>5. CASE ~last
      <4>1. JobShape' /\ job'.pc = "paging"
        BY <2>1, <3>1, <3>5
      <4> QED BY <1>a, <3>1, <3>2, <3>3, <4>1
    <3> QED BY <3>4, <3>5
  <2>2. ASSUME dir' = [dir EXCEPT !.metrics.there = TRUE],
               job' = [job EXCEPT !.pc = "returned", !.held = "success", !.missed = TRUE]
        PROVE  JobInv'
    <3>1. engine = "rest_api" /\ job.pc = "paging" /\ ~dir.error
      BY <1>6 DEF FetchPage
    <3>2. /\ DirShape' /\ dir'.error = dir.error
          /\ dir'.metrics = [dir.metrics EXCEPT !.there = TRUE]
      BY <2>2
    <3>3. MetricsShape'
      BY <3>2
    <3>4. JobShape' /\ job'.pc = "returned" /\ job'.held = "success"
      BY <2>2
    <3> QED BY <1>a, <3>1, <3>2, <3>3, <3>4 DEF DiskStatus, RestApiSucceeded, EmptyRest
  <2> QED BY <1>4, <1>6, <2>1, <2>2 DEF FetchPage, MissPage, Return
<1>7. CASE FetchFails
  BY <1>4, <1>7 DEF FetchFails
<1>8. CASE Execute
  BY <1>8 DEF Execute
<1>9. CASE ProcessResults
  <2> DEFINE m == ExtractedMetrics
             ok == job.exit = 0 /\ NoneFailed(m)
  <2>1. /\ engine \in Transformers /\ job.pc = "executed"
        /\ m.exit = job.exit
        /\ m = [there |-> m.there, watermark |-> m.watermark, exit |-> m.exit, failed |-> m.failed]
        /\ m.watermark = FALSE
    BY <1>9 DEF ProcessResults, ExtractedMetrics
  <2>2. /\ dir' = [dir EXCEPT !.metrics = m]
        /\ job' = [job EXCEPT !.pc = "returned", !.held = IF ok THEN "success" ELSE "failed"]
    BY <1>9 DEF ProcessResults, Return
  <2>3. ok <=> TransformationSucceeded([dir EXCEPT !.metrics = m])
    BY <2>1 DEF TransformationSucceeded
  <2>4. dir.error => ~ok
    BY <2>1
  <2> HIDE DEF m, ok
  <2>5. /\ JobShape' /\ job'.pc = "returned"
        /\ job'.held = IF ok THEN "success" ELSE "failed"
    BY <2>2
  <2>6. DirShape' /\ dir'.error = dir.error /\ dir'.metrics = m
    BY <2>2
  <2>7. MetricsShape'
    BY <2>1, <2>6
  <2>8. engine \notin {"omnibeam", "rest_api"}
    BY <2>1 DEF Transformers
  <2>9. DiskStatus(dir') = IF ok THEN "success" ELSE "failed"
    BY <2>2, <2>3, <2>4, <2>6, <2>8 DEF DiskStatus
  <2>10. DiskStatus(dir)' = DiskStatus(dir')
    BY <1>a DEF DiskStatus, OmniBeamSucceeded, Measured, RestApiSucceeded,
         TransformationSucceeded, NoneFailed
  <2> QED BY <1>a, <2>5, <2>6, <2>7, <2>9, <2>10
<1> QED BY <1>1, <1>2, <1>3, <1>5, <1>6, <1>7, <1>8, <1>9 DEF SubmitSteps

(* Every step.                                                             *)
LEMMA JobStep == JobInv /\ [Next]_vars => JobInv'
<1> SUFFICES ASSUME JobInv, [Next]_vars PROVE JobInv'
  OBVIOUS
<1>1. ASSUME UNCHANGED <<engine, job, dir>> PROVE JobInv'
  BY <1>1 DEF JobInv, Shape, JobShape, DirShape, MetricsShape, OnItsWay, Agrees, EmptyRest,
       LostWatermark, DiskStatus, OmniBeamSucceeded, Measured, RestApiSucceeded,
       TransformationSucceeded, NoneFailed
<1>2. CASE StartRun
  BY <1>2, FreshJob DEF StartRun, JobInv, Shape
<1>3. CASE AttemptFails
  BY <1>1, <1>3, FreshJob DEF AttemptFails, JobInv, Shape
<1>4. CASE Submit
  <2>1. CASE StartJob
    BY <2>1, FreshJob DEF StartJob, JobInv, Shape
  <2>2. CASE UNCHANGED jobVars
    BY <1>1, <2>2 DEF jobVars
  <2> QED BY <1>3, <1>4, <2>1, <2>2, SubmitKeeps DEF Submit
<1>5. CASE Poll
  <2>1. dir' = PolledDir(dir) /\ UNCHANGED <<engine, job>>
    BY <1>5 DEF Poll
  <2>2. Shape'
    BY <2>1 DEF JobInv, Shape, JobShape, DirShape, MetricsShape, PolledDir, Measured, NoMetrics
  <2>3. DiskStatus(dir)' = DiskStatus(dir)
    BY <2>1, PollIsIdempotent DEF JobInv, DiskStatus, OmniBeamSucceeded, Measured,
         RestApiSucceeded, TransformationSucceeded, NoneFailed
  <2>4. /\ dir'.error = dir.error /\ dir'.manifest = dir.manifest /\ dir'.parts = dir.parts
        /\ dir'.metrics.watermark = dir.metrics.watermark
    BY <2>1 DEF JobInv, Shape, DirShape, MetricsShape, PolledDir, Measured, NoMetrics
  <2> QED BY <2>1, <2>2, <2>3, <2>4 DEF JobInv, OnItsWay, Agrees, EmptyRest, LostWatermark
<1>6. CASE SourceChanges
  BY <1>1, <1>6 DEF SourceChanges
<1>7. ASSUME Work, ~Submit, ~Poll PROVE UNCHANGED <<engine, job, dir>>
  BY <1>7 DEF Work, PreFlight, Validate, DbtGroup, Collect, ReadMetrics, Gate, Docs,
       DeliverOrLineage, Sync, Emit, Notify, jobVars
<1>8. ASSUME UNCHANGED vars PROVE JobInv'
  BY <1>1, <1>8 DEF vars, jobVars
<1> QED BY <1>1, <1>2, <1>3, <1>4, <1>5, <1>6, <1>7, <1>8 DEF Next

(* PollsAgree: whoever asks about a job gets the submitter's answer, and   *)
(* asking changes nothing.                                                 *)
THEOREM PollsAlwaysAgree == Spec => []PollsAgree
<1>1. JobInv => PollsAgree
  BY PollIsIdempotent DEF JobInv, Agrees, PollsAgree
<1> QED BY <1>1, InitJob, JobStep, PTL DEF Spec
-----------------------------------------------------------------------------
(* The wiring of the chains, task by task, as far as the reports need it.  *)

(* The task after one that occurs once before the end of the chain.        *)
LEMMA NextTask ==
  ASSUME NEW i \in 1 .. Len(Chain[kind]) - 1,
         \A j \in 1 .. Len(Chain[kind]) - 1 : Chain[kind][j] = Chain[kind][i] => j = i
  PROVE  Next1(Chain[kind][i]) = Chain[kind][i + 1]
<1> DEFINE n == CHOOSE j \in 1 .. Len(Chain[kind]) - 1 : Chain[kind][j] = Chain[kind][i]
<1>1. n \in 1 .. Len(Chain[kind]) - 1 /\ Chain[kind][n] = Chain[kind][i]
  OBVIOUS
<1>2. n = i
  BY <1>1
<1>3. Next1(Chain[kind][i]) = Chain[kind][1 + n]
  BY DEF Next1
<1> HIDE DEF n
<1> QED BY <1>2, <1>3

EtlNext == /\ Next1("preFlight") = "submit" /\ Next1("submit") = "monitor"
           /\ Next1("monitor") = "validate" /\ Next1("validate") = "metrics"
           /\ Next1("metrics") = "gate" /\ Next1("gate") = "docs"

(* The chain of an etl DAG, task by task.                                  *)
LEMMA EtlChain == kind = "etl" => Chain[kind][1] = "preFlight" /\ EtlNext
<1> SUFFICES ASSUME kind = "etl" PROVE Chain[kind][1] = "preFlight" /\ EtlNext
  OBVIOUS
<1> DEFINE c == Chain[kind]
<1>1. /\ Len(c) = 11 /\ c[1] = "preFlight" /\ c[2] = "submit" /\ c[3] = "monitor"
      /\ c[4] = "validate" /\ c[5] = "metrics" /\ c[6] = "gate" /\ c[7] = "docs"
      /\ c[8] = "lineage" /\ c[9] = "emit" /\ c[10] = "notify" /\ c[11] = "end"
  BY DEF Chain
<1>2. \A i, j \in 1 .. 10 : c[j] = c[i] => j = i
  BY <1>1
<1> HIDE DEF c
<1>3. \A i \in 1 .. 10 : Next1(c[i]) = c[i + 1]
  BY <1>1, <1>2, NextTask DEF c
<1> QED BY <1>1, <1>3 DEF c, EtlNext

CosmosNext == /\ Next1("preFlight") = "dbtGroup" /\ Next1("dbtGroup") = "collect"
              /\ Next1("collect") = "metrics" /\ Next1("metrics") = "gate"
              /\ Next1("gate") = "docs"

(* The chain of an etl DAG with a dbt project.                             *)
LEMMA CosmosChain == kind = "cosmos" => Chain[kind][1] = "preFlight" /\ CosmosNext
<1> SUFFICES ASSUME kind = "cosmos" PROVE Chain[kind][1] = "preFlight" /\ CosmosNext
  OBVIOUS
<1> DEFINE c == Chain[kind]
<1>1. /\ Len(c) = 10 /\ c[1] = "preFlight" /\ c[2] = "dbtGroup" /\ c[3] = "collect"
      /\ c[4] = "metrics" /\ c[5] = "gate" /\ c[6] = "docs" /\ c[7] = "lineage"
      /\ c[8] = "emit" /\ c[9] = "notify" /\ c[10] = "end"
  BY DEF Chain
<1>2. \A i, j \in 1 .. 9 : c[j] = c[i] => j = i
  BY <1>1
<1> HIDE DEF c
<1>3. \A i \in 1 .. 9 : Next1(c[i]) = c[i + 1]
  BY <1>1, <1>2, NextTask DEF c
<1> QED BY <1>1, <1>3 DEF c, CosmosNext

ExportNext == /\ Next1("preFlight") = "submit" /\ Next1("submit") = "monitor"
              /\ Next1("monitor") = "validate" /\ Next1("validate") = "metrics"
              /\ Next1("metrics") = "gate" /\ Next1("gate") = "deliver"
              /\ Next1("deliver") = "lineage" /\ Next1("lineage") = "emit"
              /\ Next1("emit") = "notify" /\ Next1("notify") = "end"

(* The chain of an export DAG.                                             *)
LEMMA ExportChain == kind = "export" => Chain[kind][1] = "preFlight" /\ ExportNext
<1> SUFFICES ASSUME kind = "export" PROVE Chain[kind][1] = "preFlight" /\ ExportNext
  OBVIOUS
<1> DEFINE c == Chain[kind]
<1>1. /\ Len(c) = 11 /\ c[1] = "preFlight" /\ c[2] = "submit" /\ c[3] = "monitor"
      /\ c[4] = "validate" /\ c[5] = "metrics" /\ c[6] = "gate" /\ c[7] = "deliver"
      /\ c[8] = "lineage" /\ c[9] = "emit" /\ c[10] = "notify" /\ c[11] = "end"
  BY DEF Chain
<1>2. \A i, j \in 1 .. 10 : c[j] = c[i] => j = i
  BY <1>1
<1> HIDE DEF c
<1>3. \A i \in 1 .. 10 : Next1(c[i]) = c[i + 1]
  BY <1>1, <1>2, NextTask DEF c
<1> QED BY <1>1, <1>3 DEF c, ExportNext

TransformationNext == /\ Next1("submit") = "gate" /\ Next1("gate") = "sync"
                      /\ Next1("sync") = "emit" /\ Next1("emit") = "end"

(* The chain of a transformation DAG, which submits first.                 *)
LEMMA TransformationChain ==
  kind = "transformation" => Chain[kind][1] = "submit" /\ TransformationNext
<1> SUFFICES ASSUME kind = "transformation"
             PROVE  Chain[kind][1] = "submit" /\ TransformationNext
  OBVIOUS
<1> DEFINE c == Chain[kind]
<1>1. /\ Len(c) = 5 /\ c[1] = "submit" /\ c[2] = "gate" /\ c[3] = "sync"
      /\ c[4] = "emit" /\ c[5] = "end"
  BY DEF Chain
<1>2. \A i, j \in 1 .. 4 : c[j] = c[i] => j = i
  BY <1>1
<1> HIDE DEF c
<1>3. \A i \in 1 .. 4 : Next1(c[i]) = c[i + 1]
  BY <1>1, <1>2, NextTask DEF c
<1> QED BY <1>1, <1>3 DEF c, TransformationNext

-----------------------------------------------------------------------------
(* The tasks a run of each kind can be at: docs always fails, so an etl    *)
(* run gets to emit with a failure and no further.                         *)
OnChain ==
  /\ kind \in Kinds
  /\ kind = "etl" => task \in {"preFlight", "submit", "monitor", "validate", "metrics",
                               "gate", "docs", "emit", "end"}
  /\ kind = "cosmos" => task \in {"preFlight", "dbtGroup", "collect", "metrics",
                                  "gate", "docs", "emit", "end"}
  /\ kind = "export" => task \in {"preFlight", "submit", "monitor", "validate", "metrics",
                                  "gate", "deliver", "lineage", "emit", "notify", "end"}
  /\ kind = "transformation" => task \in {"submit", "gate", "sync", "emit", "end"}

(* The runs so far, and what the current one has reported before it has    *)
(* computed anything: nothing.                                             *)
Recorded ==
  /\ run \in 0 .. MaxRuns /\ (task # "end" => run > 0)
  /\ rows = [n \in 1 .. MaxRuns |-> rows[n]]
  /\ \A n \in 1 .. MaxRuns : n > run => rows[n] = "none"
  /\ events \subseteq 1 .. run
  /\ xcom = [polled |-> xcom.polled, validated |-> xcom.validated, gated |-> xcom.gated]
  /\ xcom.validated \in BOOLEAN /\ xcom.gated \in BOOLEAN
Fresh == task \in {"preFlight", "submit", "dbtGroup"} =>
           /\ xcom = NoXCom /\ rows[run] # "success" /\ run \notin events

(* What the engine's verdict has become by the time each task runs.        *)
ComputeKnown ==
  /\ kind \in {"etl", "export"} =>
       /\ xcom.polled = "success" => DiskStatus(dir) = "success"
       /\ xcom.validated => xcom.polled = "success"
  /\ kind = "cosmos" => (xcom.validated => target.verdict = "passed")
  /\ kind = "transformation" =>
       /\ task = "gate" => job.pc = "returned"
       /\ xcom.gated => dir.metrics.failed = 0 /\ job.pc = "returned"
TestsRan ==
  /\ engine \in Extractors => job.exit = 0
  /\ job.pc = "returned" /\ dir.metrics.failed = 0 => job.exit = 0 \/ dir.results = "passed"
EtlFails == kind \in {"etl", "cosmos"} => (task = "emit" => failedAt # "none")
ExportSteps ==
  kind = "export" =>
    /\ failedAt # "none" => task \in {"emit", "end"}
    /\ run \in events => task = "end"
    /\ task \in {"metrics", "gate", "deliver", "lineage"} => xcom.validated
    /\ task \in {"deliver", "lineage"} => xcom.gated
    /\ task \in {"emit", "notify"} /\ failedAt = "none" => xcom.validated /\ xcom.gated
RunInv == /\ OnChain /\ Recorded /\ Fresh /\ ComputeKnown /\ TestsRan
          /\ EtlFails /\ ExportSteps /\ ReportsAreEarned

(* Every DAG but a transformation's checks first.                          *)
LEMMA FirstTask ==
  kind \in Kinds => Chain[kind][1] = IF kind = "transformation" THEN "submit" ELSE "preFlight"
BY EtlChain, CosmosChain, ExportChain, TransformationChain DEF Kinds

(* A failure leaves the task to be retried or ends the run's way to it.    *)
LEMMA FailGoes ==
  ASSUME Fail, OnChain
  PROVE  \/ UNCHANGED <<task, failedAt>>
         \/ /\ task \notin {"emit", "notify"} /\ task' = "emit"
            /\ failedAt' = IF failedAt = "none" THEN task ELSE failedAt
         \/ /\ task = "emit" /\ UNCHANGED failedAt
            /\ task' = IF failedAt = "none" THEN Next1("emit") ELSE "end"
         \/ /\ task = "notify" /\ task' = "end"
            /\ failedAt' = IF failedAt = "none" THEN task ELSE failedAt
BY DEF Fail, GiveUp

(* A task that succeeds hands over to the next one.                        *)
LEMMA SuccessGoes == Succeed => task' = Next1(task) /\ UNCHANGED failedAt
BY DEF Succeed

(* Nothing has been reported.                                              *)
LEMMA InitReports == Init => RunInv
<1> SUFFICES ASSUME Init PROVE RunInv
  OBVIOUS
<1>1. kind \in Kinds
  BY DagBounds DEF Init
<1>2. /\ run = 0 /\ task = "end" /\ failedAt = "none" /\ xcom = NoXCom /\ events = {}
      /\ rows = [n \in 1 .. MaxRuns |-> "none"] /\ job = NoJob
  BY DEF Init, JobInit
<1>3. OnChain
  BY <1>1, <1>2 DEF OnChain, Kinds
<1>4. Recorded
  BY <1>2, DagBounds DEF Recorded, NoXCom
<1>5. Fresh /\ ComputeKnown /\ TestsRan
  BY <1>2, FreshShapes DEF Fresh, ComputeKnown, TestsRan, NoXCom
<1> QED BY <1>2, <1>3, <1>4, <1>5 DEF RunInv, EtlFails, ExportSteps, ReportsAreEarned

(* The status depends on the engine and the directory only.                *)
LEMMA StatusStays == UNCHANGED <<engine, dir>> => DiskStatus(dir)' = DiskStatus(dir)
BY DEF DiskStatus, OmniBeamSucceeded, Measured, RestApiSucceeded, TransformationSucceeded,
       NoneFailed

(* The job's own steps: what its tests said when it returns.               *)
LEMMA SubmitTests == JobInv /\ TestsRan /\ SubmitSteps => TestsRan'
<1> SUFFICES ASSUME JobInv, TestsRan, SubmitSteps PROVE TestsRan'
  OBVIOUS
<1> USE DEF TestsRan, Keep
<1>a. Shape
  BY DEF JobInv
<1>b. "rest_api" \in Extractors /\ "omnibeam" \in Extractors
      /\ Extractors \cap Transformers = {}
  BY DEF Extractors, Transformers
<1>1. CASE EmptyBatch
  BY <1>1, <1>a, <1>b DEF EmptyBatch, Return, Shape, JobShape
<1>2. CASE WriteManifest
  BY <1>2, <1>a, <1>b DEF WriteManifest, Shape, JobShape
<1>3. CASE RunCli
  BY <1>3, <1>a, <1>b DEF RunCli, Return, Shape, JobShape
<1>4. ASSUME Abort, engine = "rest_api" PROVE TestsRan'
  BY <1>4, <1>a, <1>b DEF Abort, Return, Shape, JobShape
<1>5. CASE Prepare
  BY <1>4, <1>5, <1>a, <1>b DEF Prepare, Shape, JobShape
<1>6. CASE FetchPage
  <2>1. UNCHANGED engine /\ job'.exit = job.exit
    BY <1>6, <1>a DEF FetchPage, MissPage, Return, Abort, Shape, JobShape
  <2> QED BY <1>6, <1>b, <2>1 DEF FetchPage
<1>7. CASE FetchFails
  BY <1>4, <1>7, <1>a, <1>b DEF FetchFails, Shape, JobShape
<1>8. CASE Execute
  BY <1>8, <1>a, <1>b DEF Execute, Shape, JobShape
<1>9. CASE ProcessResults
  <2>1. /\ engine \in Transformers /\ UNCHANGED engine
        /\ job'.exit = job.exit /\ dir'.results = dir.results
        /\ dir'.metrics = ExtractedMetrics
    BY <1>9, <1>a DEF ProcessResults, Return, Shape, JobShape, DirShape
  <2>2. ExtractedMetrics.failed = IF engine = "dbt" THEN DbtFailures ELSE DataformFailures
    BY DEF ExtractedMetrics
  <2>3. ExtractedMetrics.failed = 0 => job.exit = 0 \/ dir.results = "passed"
    BY <2>2 DEF DbtFailures, DataformFailures, Counted, Missing
  <2> QED BY <1>b, <2>1, <2>3
<1> QED BY <1>1, <1>2, <1>3, <1>5, <1>6, <1>7, <1>8, <1>9 DEF SubmitSteps

ChainNext == /\ kind = "etl" => EtlNext
             /\ kind = "cosmos" => CosmosNext
             /\ kind = "export" => ExportNext
             /\ kind = "transformation" => TransformationNext

(* All the chains.                                                         *)
LEMMA Chains == ChainNext
BY EtlChain, CosmosChain, ExportChain, TransformationChain DEF ChainNext

(* Wherever the run goes from its task, it is to a task of its chain.      *)
LEMMA StaysOnChain ==
  ASSUME OnChain, EtlFails, UNCHANGED kind, Succeed \/ Fail, task # "end",
         kind \in {"etl", "cosmos"} /\ task \in {"docs", "emit"} => Fail
  PROVE  OnChain'
<1> USE Chains DEF ChainNext
<1>1. CASE Succeed /\ kind = "etl"
  BY <1>1, SuccessGoes, FailGoes DEF EtlNext, OnChain, EtlFails
<1>2. CASE Succeed /\ kind = "cosmos"
  BY <1>2, SuccessGoes, FailGoes DEF CosmosNext, OnChain, EtlFails
<1>3. CASE Succeed /\ kind = "export"
  BY <1>3, SuccessGoes DEF ExportNext, OnChain
<1>4. CASE Succeed /\ kind = "transformation"
  BY <1>4, SuccessGoes DEF TransformationNext, OnChain
<1>5. CASE Fail
  BY <1>5, FailGoes DEF ExportNext, TransformationNext, OnChain, EtlFails, Kinds
<1> QED BY <1>1, <1>2, <1>3, <1>4, <1>5 DEF OnChain, Kinds

(* A task that changes nothing the reports are made of.                    *)
LEMMA QuietTask ==
  ASSUME RunInv, task # "end", Succeed \/ Fail,
         UNCHANGED <<engine, job, dir, kind, run, xcom, target, rows, events>>,
         Succeed /\ ~Fail => task \in {"preFlight", "metrics", "deliver", "lineage", "sync"}
  PROVE  RunInv'
<1> DEFINE quiet == {"preFlight", "metrics", "deliver", "lineage", "sync"}
<1>1. OnChain'
  BY StaysOnChain DEF RunInv
<1>2. Recorded'
  BY DEF RunInv, Recorded
<1>3. CASE Fail
  <2>1. Fresh'
    BY <1>3, FailGoes, Chains DEF RunInv, Fresh, OnChain, EtlFails, ChainNext, ExportNext,
         TransformationNext, Kinds
  <2>2. ComputeKnown'
    BY <1>3, FailGoes, Chains, StatusStays DEF RunInv, ComputeKnown, ChainNext, TransformationNext
  <2>3. EtlFails'
    BY <1>3, FailGoes DEF RunInv, EtlFails, OnChain
  <2>4. ExportSteps'
    BY <1>3, FailGoes, Chains DEF RunInv, ExportSteps, OnChain, ChainNext, ExportNext
  <2>5. ReportsAreEarned'
    BY <1>3, FailGoes, StatusStays DEF RunInv, ReportsAreEarned, RowEarned, EventEarned,
         ExportSteps
  <2> QED BY <1>1, <1>2, <2>1, <2>2, <2>3, <2>4, <2>5 DEF RunInv, TestsRan
<1>4. CASE Succeed /\ ~Fail
  <2>0. task \in quiet /\ task' = Next1(task) /\ UNCHANGED failedAt
    BY <1>4, SuccessGoes
  <2>1. Fresh'
    BY <2>0, Chains DEF RunInv, Fresh, OnChain, ChainNext, EtlNext, CosmosNext, ExportNext,
         TransformationNext, Kinds
  <2>2. ComputeKnown'
    BY <2>0, Chains, StatusStays DEF RunInv, ComputeKnown, OnChain, ChainNext, TransformationNext
  <2>3. EtlFails'
    BY <2>0, Chains DEF RunInv, EtlFails, OnChain, ChainNext, EtlNext, CosmosNext
  <2>4. ExportSteps'
    BY <2>0, Chains DEF RunInv, ExportSteps, OnChain, ChainNext, ExportNext
  <2>5. ReportsAreEarned'
    BY <2>0, StatusStays DEF RunInv, ReportsAreEarned, RowEarned, EventEarned
  <2> QED BY <1>1, <1>2, <2>1, <2>2, <2>3, <2>4, <2>5 DEF RunInv, TestsRan
<1> QED BY <1>3, <1>4

(* A new run has reported nothing.                                         *)
LEMMA StartRunReports == RunInv /\ JobInv' /\ StartRun => RunInv'
<1> SUFFICES ASSUME RunInv, JobInv', StartRun PROVE RunInv'
  OBVIOUS
<1>1. /\ run' = run + 1 /\ run < MaxRuns /\ failedAt' = "none" /\ xcom' = NoXCom
      /\ job' = NoJob /\ dir' = EmptyDir
      /\ task' = IF kind = "transformation" THEN "submit" ELSE "preFlight"
      /\ UNCHANGED <<engine, kind, target, rows, events>>
  BY FirstTask DEF StartRun, RunInv, OnChain
<1>2. run \in Nat /\ run' \in 1 .. MaxRuns /\ rows[run'] = "none" /\ run' \notin events
  BY <1>1, DagBounds DEF RunInv, Recorded
<1>3. OnChain'
  BY <1>1 DEF RunInv, OnChain, Kinds
<1>4. Recorded'
  BY <1>1, <1>2, DagBounds DEF RunInv, Recorded, NoXCom
<1>5. Fresh' /\ ComputeKnown' /\ TestsRan' /\ EtlFails'
  BY <1>1, <1>2, FreshShapes DEF Fresh, ComputeKnown, TestsRan, EtlFails, NoXCom
<1>6. ExportSteps' /\ ReportsAreEarned'
  BY <1>1, <1>2 DEF ExportSteps, ReportsAreEarned, RowEarned, EventEarned
<1> QED BY <1>3, <1>4, <1>5, <1>6 DEF RunInv

(* A failed attempt reports nothing.                                       *)
LEMMA AttemptReports == RunInv /\ AttemptFails => RunInv'
<1> SUFFICES ASSUME RunInv, AttemptFails PROVE RunInv'
  OBVIOUS
<1>1. /\ task # "end" /\ Fail
      /\ UNCHANGED <<engine, kind, run, xcom, target, rows, events>>
  BY DEF AttemptFails
<1>2. CASE task # "submit"
  BY <1>1, <1>2, QuietTask DEF AttemptFails
<1>3. CASE task = "submit"
  <2>1. job' = NoJob /\ dir' = EmptyDir
    BY <1>3 DEF AttemptFails
  <2>2. OnChain'
    BY <1>1, <1>3, StaysOnChain DEF RunInv
  <2>3. /\ xcom = NoXCom /\ rows[run] # "success" /\ run \notin events /\ run > 0
    BY <1>1, <1>3 DEF RunInv, Fresh, Recorded
  <2>4. \/ task' = "submit" /\ UNCHANGED failedAt
        \/ task' = "emit" /\ failedAt' # "none"
    BY <1>1, <1>3, FailGoes DEF RunInv
  <2>5. Recorded' /\ Fresh'
    BY <1>1, <2>3, <2>4 DEF RunInv, Recorded, Fresh
  <2>6. ComputeKnown' /\ TestsRan'
    BY <1>1, <2>1, <2>3, <2>4, FreshShapes DEF ComputeKnown, TestsRan, NoXCom
  <2>7. EtlFails' /\ ExportSteps'
    BY <1>1, <1>3, <2>3, <2>4 DEF RunInv, EtlFails, ExportSteps
  <2>8. ReportsAreEarned'
    BY <1>1, <2>3 DEF ReportsAreEarned, RowEarned, EventEarned
  <2> QED BY <2>2, <2>5, <2>6, <2>7, <2>8 DEF RunInv
<1> QED BY <1>2, <1>3

(* Of the submissions only a transformation's reports, and what it held.   *)
LEMMA SubmitReports == JobInv /\ RunInv /\ JobInv' /\ Submit => RunInv'
<1> SUFFICES ASSUME JobInv, RunInv, JobInv', Submit PROVE RunInv'
  OBVIOUS
<1>1. /\ task = "submit" /\ run > 0 /\ xcom = NoXCom
      /\ rows[run] # "success" /\ run \notin events
  BY DEF Submit, RunInv, Recorded, Fresh
<1>2. ASSUME UNCHANGED dagVars, UNCHANGED engine, TestsRan' PROVE RunInv'
  <2>1. UNCHANGED <<kind, run, task, failedAt, xcom, target, rows, events>>
    BY <1>2 DEF dagVars
  <2>2. OnChain' /\ Recorded' /\ Fresh' /\ EtlFails' /\ ExportSteps'
    BY <2>1 DEF RunInv, OnChain, Recorded, Fresh, EtlFails, ExportSteps
  <2>3. ComputeKnown'
    BY <1>1, <2>1 DEF ComputeKnown, NoXCom
  <2>4. ReportsAreEarned'
    BY <1>1, <2>1 DEF ReportsAreEarned, RowEarned, EventEarned
  <2> QED BY <1>2, <2>2, <2>3, <2>4 DEF RunInv
<1>3. CASE job.pc = "none"
  <2>1. StartJob /\ UNCHANGED dagVars
    BY <1>3 DEF Submit
  <2>2. job'.exit = 0 /\ job'.pc = "made" /\ UNCHANGED engine
    BY <2>1 DEF StartJob, NoJob
  <2> QED BY <1>2, <2>1, <2>2 DEF TestsRan
<1>4. CASE job.pc = "returned"
  <2>1. /\ Succeed /\ UNCHANGED <<engine, job, dir, kind, run, target, rows>>
        /\ IF kind = "transformation"
           THEN /\ xcom' = [xcom EXCEPT !.polled = job.held]
                /\ events' = events \cup {run}
           ELSE UNCHANGED <<xcom, events>>
    BY <1>4 DEF Submit, jobVars
  <2>2. OnChain'
    BY <1>1, <2>1, StaysOnChain DEF RunInv
  <2>3. CASE kind = "transformation"
    <3>1. task' = "gate" /\ UNCHANGED failedAt
      BY <1>1, <2>1, <2>3, SuccessGoes, Chains DEF ChainNext, TransformationNext
    <3>2. /\ events' = events \cup {run}
          /\ xcom' = [polled |-> job.held, validated |-> FALSE, gated |-> FALSE]
      BY <1>1, <2>1, <2>3 DEF NoXCom
    <3>3. Recorded' /\ Fresh'
      BY <1>1, <2>1, <3>1, <3>2, DagBounds DEF RunInv, Recorded, Fresh
    <3>4. ComputeKnown' /\ TestsRan' /\ EtlFails' /\ ExportSteps'
      BY <1>4, <2>1, <2>3, <3>1, <3>2 DEF RunInv, ComputeKnown, TestsRan, EtlFails, ExportSteps
    <3>5. ReportsAreEarned'
      BY <1>1, <1>4, <2>1, <2>3 DEF ReportsAreEarned, RowEarned, EventEarned
    <3> QED BY <2>2, <3>3, <3>4, <3>5 DEF RunInv
  <2>4. CASE kind # "transformation"
    <3>1. kind \in {"etl", "export"} /\ task' = "monitor" /\ UNCHANGED failedAt
      BY <1>1, <2>1, <2>4, SuccessGoes, Chains DEF RunInv, OnChain, Kinds, ChainNext,
           EtlNext, ExportNext
    <3>2. Recorded' /\ Fresh'
      BY <1>1, <2>1, <2>4, <3>1 DEF RunInv, Recorded, Fresh
    <3>3. ComputeKnown' /\ TestsRan' /\ EtlFails' /\ ExportSteps'
      BY <1>1, <2>1, <3>1 DEF RunInv, ComputeKnown, TestsRan, EtlFails, ExportSteps, NoXCom
    <3>4. ReportsAreEarned'
      BY <1>1, <2>1, <2>4 DEF ReportsAreEarned, RowEarned, EventEarned
    <3> QED BY <2>2, <3>2, <3>3, <3>4 DEF RunInv
  <2> QED BY <2>3, <2>4
<1>5. CASE job.pc = "raised"
  BY <1>5, AttemptReports DEF Submit
<1>6. CASE job.pc \notin {"none", "returned", "raised"}
  <2>1. SubmitSteps /\ UNCHANGED dagVars
    BY <1>6 DEF Submit
  <2>2. UNCHANGED engine
    BY <2>1 DEF SubmitSteps, EmptyBatch, WriteManifest, RunCli, Prepare, FetchPage, MissPage,
         FetchFails, Execute, ProcessResults, Abort, Keep
  <2> QED BY <1>2, <2>1, <2>2, SubmitTests DEF RunInv
<1> QED BY <1>3, <1>4, <1>5, <1>6

(* A poll passes on what the directory says.                               *)
LEMMA PollReports == JobInv /\ RunInv /\ Poll => RunInv'
<1> SUFFICES ASSUME JobInv, RunInv, Poll PROVE RunInv'
  OBVIOUS
<1>1. /\ task = "monitor" /\ kind \in {"etl", "export"} /\ task' = "validate"
      /\ dir' = PolledDir(dir) /\ xcom' = [xcom EXCEPT !.polled = DiskStatus(dir)]
      /\ UNCHANGED <<engine, job, kind, run, failedAt, target, rows, events>>
  BY SuccessGoes, Chains DEF Poll, RunInv, OnChain, Kinds, ChainNext, EtlNext, ExportNext
<1>2. DiskStatus(dir)' = DiskStatus(dir)
  <2>1. DiskStatus(dir') = DiskStatus(dir)
    BY <1>1, PollIsIdempotent DEF JobInv
  <2> QED BY <1>1, <2>1 DEF DiskStatus, OmniBeamSucceeded, Measured, RestApiSucceeded,
       TransformationSucceeded, NoneFailed
<1>3. /\ xcom'.polled = DiskStatus(dir) /\ UNCHANGED <<xcom.validated, xcom.gated>>
      /\ xcom' = [polled |-> xcom'.polled, validated |-> xcom'.validated, gated |-> xcom'.gated]
  BY <1>1 DEF RunInv, Recorded
<1>4. OnChain'
  BY <1>1 DEF OnChain, Kinds
<1>5. Recorded' /\ Fresh'
  BY <1>1, <1>3 DEF RunInv, Recorded, Fresh
<1>6. ComputeKnown'
  BY <1>1, <1>2, <1>3 DEF RunInv, ComputeKnown
<1>7. TestsRan'
  <2>1. dir'.results = dir.results
    BY <1>1 DEF JobInv, Shape, DirShape, PolledDir
  <2>2. CASE engine = "omnibeam"
    BY <1>1, <2>2 DEF RunInv, TestsRan, Extractors
  <2>3. CASE engine # "omnibeam"
    BY <1>1, <2>3 DEF RunInv, TestsRan, PolledDir
  <2> QED BY <2>2, <2>3
<1>8. EtlFails' /\ ExportSteps'
  BY <1>1 DEF RunInv, EtlFails, ExportSteps
<1>9. ReportsAreEarned'
  BY <1>1, <1>2, <1>3 DEF RunInv, ReportsAreEarned, RowEarned, EventEarned
<1> QED BY <1>4, <1>5, <1>6, <1>7, <1>8, <1>9 DEF RunInv

(* The tasks that turn the engine's verdict into an XCom: a success is one *)
(* the engine's own files show.                                            *)
LEMMA VerdictReports == RunInv /\ (Validate \/ Collect \/ Gate) => RunInv'
<1> SUFFICES ASSUME RunInv, Validate \/ Collect \/ Gate PROVE RunInv'
  OBVIOUS
<1>1. UNCHANGED <<engine, job, dir, kind, run, target, rows, events>> /\ task # "end"
  BY DEF Validate, Collect, Gate, jobVars
<1>2. ASSUME Fail, UNCHANGED xcom PROVE RunInv'
  BY <1>1, <1>2, QuietTask
<1>3. ASSUME Succeed,
             \/ /\ task = "validate" /\ kind \in {"etl", "export"} /\ task' = "metrics"
                /\ xcom.polled = "success" /\ xcom' = [xcom EXCEPT !.validated = TRUE]
             \/ /\ task = "collect" /\ kind = "cosmos" /\ task' = "metrics"
                /\ target.verdict = "passed"
                /\ xcom' = [xcom EXCEPT !.polled = "success", !.validated = TRUE]
             \/ /\ task = "gate" /\ task' = IF kind = "transformation" THEN "sync"
                                            ELSE IF kind = "export" THEN "deliver" ELSE "docs"
                /\ kind = "transformation" => dir.metrics.failed = 0
                /\ xcom' = [xcom EXCEPT !.gated = TRUE]
      PROVE  RunInv'
  <2>0. UNCHANGED failedAt
    BY <1>3, SuccessGoes
  <2>1. /\ xcom' = [polled |-> xcom'.polled, validated |-> xcom'.validated,
                    gated |-> xcom'.gated]
        /\ xcom'.validated \in BOOLEAN /\ xcom'.gated \in BOOLEAN
    BY <1>3 DEF RunInv, Recorded
  <2>2. /\ task \in {"validate", "collect"} => UNCHANGED xcom.gated
        /\ task = "gate" => UNCHANGED <<xcom.polled, xcom.validated>>
        /\ task = "validate" => UNCHANGED xcom.polled
    BY <1>3 DEF RunInv, Recorded
  <2>3. OnChain'
    BY <1>1, <1>3 DEF RunInv, OnChain, Kinds
  <2>4. Recorded' /\ Fresh'
    BY <1>1, <1>3, <2>1 DEF RunInv, Recorded, Fresh
  <2>5. ComputeKnown'
    <3>1. CASE kind \in {"etl", "export"}
      <4>1. xcom'.validated => xcom'.polled = "success"
        BY <1>3, <2>2, <3>1 DEF RunInv, ComputeKnown
      <4>2. xcom'.polled = "success" => DiskStatus(dir) = "success"
        BY <1>3, <2>2, <3>1 DEF RunInv, ComputeKnown
      <4> QED BY <1>1, <3>1, <4>1, <4>2, StatusStays DEF ComputeKnown
    <3>2. CASE kind = "cosmos"
      BY <1>1, <1>3, <2>2, <3>2 DEF RunInv, ComputeKnown
    <3>3. CASE kind = "transformation"
      BY <1>1, <1>3, <2>2, <3>3 DEF RunInv, ComputeKnown
    <3> QED BY <3>1, <3>2, <3>3 DEF RunInv, OnChain, Kinds
  <2>6. TestsRan' /\ EtlFails'
    BY <1>1, <1>3 DEF RunInv, TestsRan, EtlFails
  <2>7. ExportSteps'
    <3>1. xcom.validated => xcom'.validated
      BY <1>3, <2>2 DEF RunInv, Recorded
    <3>2. /\ task' = "metrics" => xcom'.validated
          /\ task' = "deliver" => xcom'.gated
      BY <1>3 DEF RunInv, Recorded
    <3> QED BY <1>1, <1>3, <2>0, <3>1, <3>2 DEF RunInv, ExportSteps
  <2>8. ReportsAreEarned'
    BY <1>1, StatusStays DEF RunInv, ReportsAreEarned, RowEarned, EventEarned, ExportSteps
  <2> QED BY <2>3, <2>4, <2>5, <2>6, <2>7, <2>8 DEF RunInv
<1>4. ASSUME Succeed PROVE task' = Next1(task)
  BY <1>4, SuccessGoes
<1>5. CASE Validate
  <2>1. /\ task = "validate" /\ kind \in {"etl", "export"} /\ Next1("validate") = "metrics"
    BY <1>5, Chains DEF Validate, RunInv, OnChain, Kinds, ChainNext, EtlNext, ExportNext
  <2> QED BY <1>2, <1>3, <1>4, <1>5, <2>1 DEF Validate, ComputeSucceeded
<1>6. CASE Collect
  <2>1. /\ task = "collect" /\ kind = "cosmos" /\ Next1("collect") = "metrics"
    BY <1>6, Chains DEF Collect, RunInv, OnChain, Kinds, ChainNext, CosmosNext
  <2> QED BY <1>2, <1>3, <1>4, <1>6, <2>1 DEF Collect
<1>7. CASE Gate
  <2>1. /\ task = "gate"
        /\ Next1("gate") = IF kind = "transformation" THEN "sync"
                           ELSE IF kind = "export" THEN "deliver" ELSE "docs"
    BY <1>7, Chains DEF Gate, RunInv, OnChain, Kinds, ChainNext, EtlNext, CosmosNext,
         ExportNext, TransformationNext
  <2> QED BY <1>2, <1>3, <1>4, <1>7, <2>1 DEF Gate, TransformationPasses
<1> QED BY <1>5, <1>6, <1>7

(* The dbt tasks report nothing themselves.                                *)
LEMMA DbtGroupReports == RunInv /\ DbtGroup => RunInv'
<1> SUFFICES ASSUME RunInv, DbtGroup PROVE RunInv'
  OBVIOUS
<1>1. /\ task = "dbtGroup" /\ kind = "cosmos" /\ (Succeed \/ Fail)
      /\ UNCHANGED <<engine, job, dir, kind, run, xcom, rows, events>>
  BY DEF DbtGroup, jobVars, RunInv, OnChain, Kinds
<1>2. xcom = NoXCom /\ rows[run] # "success" /\ run \notin events /\ run > 0
  BY <1>1 DEF RunInv, Fresh, Recorded
<1>3. OnChain'
  BY <1>1, StaysOnChain DEF RunInv
<1>4. \/ task' = "dbtGroup" \/ task' = "collect"
      \/ task' = "emit" /\ failedAt' # "none"
  BY <1>1, FailGoes, SuccessGoes, Chains DEF RunInv, ChainNext, CosmosNext
<1>5. Recorded' /\ Fresh'
  BY <1>1, <1>2, <1>4 DEF RunInv, Recorded, Fresh
<1>6. ComputeKnown' /\ TestsRan' /\ EtlFails' /\ ExportSteps'
  BY <1>1, <1>2, <1>4 DEF RunInv, ComputeKnown, TestsRan, EtlFails, ExportSteps, NoXCom
<1>7. ReportsAreEarned'
  BY <1>1, <1>2 DEF ReportsAreEarned, RowEarned, EventEarned
<1> QED BY <1>3, <1>5, <1>6, <1>7 DEF RunInv

(* The recorded status is what the XComs say, and they are known to be     *)
(* right.                                                                  *)
LEMMA EmitReports == RunInv /\ Emit => RunInv'
<1> SUFFICES ASSUME RunInv, Emit PROVE RunInv'
  OBVIOUS
<1>1. /\ task = "emit" /\ run \in 1 .. MaxRuns
      /\ UNCHANGED <<engine, job, dir, kind, run, xcom, target, events>>
      /\ rows' = [rows EXCEPT ![run] = FinalStatus] \/ UNCHANGED rows
  BY DagBounds DEF Emit, jobVars, RunInv, Recorded
<1>a. OnChain /\ EtlFails /\ task = "emit"
  BY <1>1 DEF RunInv
<1>2. /\ UNCHANGED failedAt
      /\ \/ task' \in {"emit", "end"}
         \/ kind = "export" /\ failedAt = "none" /\ task' = "notify"
  <2>1. CASE failedAt = "none"
    <3>1. \/ kind = "export" /\ Next1("emit") = "notify"
          \/ kind = "transformation" /\ Next1("emit") = "end"
      <4>1. kind \in {"export", "transformation"}
        BY <1>a, <2>1 DEF OnChain, EtlFails, Kinds
      <4> QED BY <4>1, Chains DEF ChainNext, ExportNext, TransformationNext
    <3>2. Succeed \/ Fail
      BY <2>1 DEF Emit
    <3> QED BY <1>a, <2>1, <3>1, <3>2, FailGoes, SuccessGoes
  <2>2. CASE failedAt # "none"
    <3>1. (task' = "end" /\ UNCHANGED failedAt) \/ Fail
      BY <2>2 DEF Emit
    <3> QED BY <1>a, <2>2, <3>1, FailGoes
  <2> QED BY <2>1, <2>2
<1>3. OnChain'
  BY <1>1, <1>2 DEF RunInv, OnChain, Kinds
<1>4. /\ rows' = [n \in 1 .. MaxRuns |-> rows'[n]]
      /\ \A n \in 1 .. MaxRuns : n # run => rows'[n] = rows[n]
      /\ rows'[run] \in {rows[run], FinalStatus}
  BY <1>1 DEF RunInv, Recorded
<1>5. Recorded' /\ Fresh'
  <2>1. \A n \in 1 .. MaxRuns : n > run => n # run
    BY <1>1
  <2> QED BY <1>1, <1>2, <1>4, <2>1 DEF RunInv, Recorded, Fresh
<1>6. ComputeKnown' /\ TestsRan'
  BY <1>1, <1>2, StatusStays DEF RunInv, ComputeKnown, TestsRan
<1>7. EtlFails' /\ ExportSteps'
  BY <1>1, <1>2 DEF RunInv, EtlFails, ExportSteps
<1>8. FinalStatus = "success" =>
        CASE kind = "transformation" ->
               dir.metrics.failed = 0 /\ (job.exit = 0 \/ dir.results = "passed")
          [] kind = "cosmos" -> target.verdict = "passed"
          [] OTHER -> DiskStatus(dir) = "success"
  BY DEF FinalStatus, RunInv, ComputeKnown, TestsRan, OnChain, Kinds
<1>9. RowEarned'
  BY <1>1, <1>4, <1>8, StatusStays DEF RunInv, ReportsAreEarned, RowEarned
<1>10. EventEarned'
  BY <1>1, <1>2 DEF RunInv, ReportsAreEarned, EventEarned
<1> QED BY <1>3, <1>5, <1>6, <1>7, <1>9, <1>10 DEF RunInv, ReportsAreEarned

(* A notification reports the run that reached it.                         *)
LEMMA NotifyReports == RunInv /\ Notify => RunInv'
<1> SUFFICES ASSUME RunInv, Notify PROVE RunInv'
  OBVIOUS
<1>1. /\ task = "notify" /\ kind = "export" /\ task' = "end" /\ UNCHANGED failedAt
      /\ events' = events \cup {run} /\ run \in 1 .. MaxRuns
      /\ UNCHANGED <<engine, job, dir, kind, run, xcom, target, rows>>
  BY SuccessGoes, Chains, DagBounds DEF Notify, jobVars, RunInv, Recorded, OnChain, Kinds,
       ChainNext, ExportNext
<1>2. OnChain' /\ Fresh'
  BY <1>1 DEF OnChain, Fresh, Kinds
<1>3. Recorded'
  BY <1>1 DEF RunInv, Recorded
<1>4. ComputeKnown' /\ TestsRan' /\ EtlFails' /\ ExportSteps'
  BY <1>1, StatusStays DEF RunInv, ComputeKnown, TestsRan, EtlFails, ExportSteps
<1>5. xcom.gated /\ xcom.validated /\ failedAt = "none"
  BY <1>1 DEF RunInv, ExportSteps
<1>6. ReportsAreEarned'
  BY <1>1, <1>5, StatusStays DEF RunInv, ReportsAreEarned, RowEarned, EventEarned
<1> QED BY <1>2, <1>3, <1>4, <1>6 DEF RunInv

(* Every step.                                                             *)
LEMMA ReportStep == JobInv /\ RunInv /\ [Next]_vars => RunInv'
<1> SUFFICES ASSUME JobInv, RunInv, [Next]_vars PROVE RunInv'
  OBVIOUS
<1>0. JobInv'
  BY JobStep
<1>1. ASSUME UNCHANGED <<engine, job, dir, dagVars>> PROVE RunInv'
  BY <1>1, StatusStays DEF dagVars, RunInv, OnChain, Recorded, Fresh, ComputeKnown, TestsRan,
       EtlFails, ExportSteps, ReportsAreEarned, RowEarned, EventEarned
<1>2. CASE PreFlight \/ ReadMetrics \/ DeliverOrLineage \/ Docs \/ Sync
  BY <1>2, QuietTask DEF PreFlight, ReadMetrics, DeliverOrLineage, Docs, Sync, jobVars
<1>3. CASE SourceChanges /\ UNCHANGED dagVars
  BY <1>1, <1>3 DEF SourceChanges
<1>4. CASE UNCHANGED vars
  BY <1>1, <1>4 DEF vars, jobVars
<1> QED BY <1>0, <1>2, <1>3, <1>4, StartRunReports, AttemptReports, SubmitReports, PollReports,
           VerdictReports, DbtGroupReports, EmitReports, NotifyReports DEF Next, Work

(* ReportsAreEarned: a row of success is backed by the engine's files, and *)
(* a dataset event by the tasks before it.                                 *)
THEOREM ReportsAreAlwaysEarned == Spec => []ReportsAreEarned
<1>1. RunInv => ReportsAreEarned
  BY DEF RunInv
<1> QED BY <1>1, InitJob, JobStep, InitReports, ReportStep, PTL DEF Spec

-----------------------------------------------------------------------------
(* A slice of a sequence.                                                  *)
LEMMA Slice ==
  ASSUME NEW S, NEW s \in Seq(S), NEW m \in Nat \ {0}, NEW n \in Int, n <= Len(s)
  PROVE  /\ SubSeq(s, m, n) \in Seq(S)
         /\ Len(SubSeq(s, m, n)) = IF m <= n THEN n - m + 1 ELSE 0
         /\ \A i \in 1 .. n - m + 1 : SubSeq(s, m, n)[i] = s[m + i - 1]
<1>1. m \in Int /\ \A i \in m .. n : s[i] \in S
  <2>1. Len(s) \in Nat
    BY LenProperties
  <2>2. \A i \in m .. n : i \in 1 .. Len(s)
    BY <2>1
  <2>3. QED BY <2>2, ElementOfSeq
<1>2. QED BY <1>1, SubSeqProperties

(* The source holds consecutive rows.                                      *)
SourceInv ==
  /\ source \in Seq(Row)
  /\ \A i \in 1 .. Len(source) : source[i] = source[1] + i - 1
  /\ present \subseteq RowsOf(source) /\ shifted \in BOOLEAN

(* Its length and its rows are numbers the bounds allow.                   *)
LEMMA SourceFacts ==
  ASSUME SourceInv
  PROVE  /\ Len(source) \in Nat
         /\ \A i \in 1 .. Len(source) : source[i] \in Row /\ source[i] \in Nat /\ source[i] > 0
         /\ MaxRow \in Nat /\ PageSize \in Nat /\ PageSize > 0
<1>1. Len(source) \in Nat
  BY LenProperties DEF SourceInv
<1>2. \A i \in 1 .. Len(source) : source[i] \in Row
  BY ElementOfSeq DEF SourceInv
<1>3. QED BY <1>1, <1>2, JobBounds DEF Row

(* The rows that a cursor has passed are the first rows of the source.     *)
LEMMA ReachedRows ==
  ASSUME SourceInv, NEW r \in Nat
  PROVE  \E n \in 0 .. Len(source) :
           /\ After(source, r) = SubSeq(source, n + 1, Len(source))
           /\ \A i \in 1 .. Len(source) : source[i] <= r <=> i <= n
<1> DEFINE len == Len(source)
           first == source[1]
<1>1. len \in Nat /\ (len > 0 => first \in Nat)
      /\ \A i \in 1 .. len : source[i] = first + i - 1
  <2>1. len \in Nat /\ (len > 0 => 1 \in 1 .. len)
    BY SourceFacts
  <2>2. QED BY <2>1, SourceFacts DEF SourceInv
<1> HIDE DEF len, first
<1>2. \E n \in 0 .. len : \A i \in 1 .. len : source[i] <= r <=> i <= n
  <2>1. CASE len = 0
    BY <2>1
  <2>2. CASE len > 0 /\ r < first
    <3>1. \A i \in 1 .. len : source[i] <= r <=> i <= 0
      BY <1>1, <2>2
    <3>2. 0 \in 0 .. len
      BY <1>1
    <3>3. QED BY <3>1, <3>2
  <2>3. CASE len > 0 /\ first <= r /\ r - first + 1 <= len
    <3>1. r - first + 1 \in 0 .. len
      BY <1>1, <2>3
    <3>2. \A i \in 1 .. len : source[i] <= r <=> i <= r - first + 1
      BY <1>1, <2>3
    <3>3. QED BY <3>1, <3>2
  <2>4. CASE len > 0 /\ first <= r /\ r - first + 1 > len
    <3>1. \A i \in 1 .. len : source[i] <= r <=> i <= len
      BY <1>1, <2>4
    <3>2. len \in 0 .. len
      BY <1>1
    <3>3. QED BY <3>1, <3>2
  <2>5. QED BY <1>1, <2>1, <2>2, <2>3, <2>4
<1>3. PICK n \in 0 .. len : \A i \in 1 .. len : source[i] <= r <=> i <= n
  BY <1>2
<1>4. {k \in DOMAIN source : source[k] <= r} = 1 .. n
  <2>1. DOMAIN source = 1 .. len
    BY LenProperties DEF SourceInv, len
  <2>2. QED BY <1>1, <1>3, <2>1
<1>5. Cardinality(1 .. n) = n
  <2>1. 1 \in Int /\ n \in Int /\ n \in Nat
    BY <1>1
  <2>2. QED BY <2>1, FS_Interval
<1>6. After(source, r) = SubSeq(source, n + 1, len)
  <2>1. n \in Nat /\ 1 + n = n + 1
    BY <1>1
  <2>2. QED BY <1>4, <1>5, <2>1 DEF After, len
<1>7. QED BY <1>3, <1>6 DEF len

-----------------------------------------------------------------------------
(* What a page holds.                                                      *)

ApiInv == /\ api.strategy \in Strategies /\ api.limit \in Nat /\ api.limit > 0
          /\ job.at \in Nat

PageFrom(n, len) ==
  /\ Page \in Seq(Row) /\ Len(Page) = len
  /\ \A i \in 1 .. len : n + i \in 1 .. Len(source) /\ Page[i] = source[n + i]

(* The smaller of two numbers is one of them.                              *)
LEMMA SmallerIs ==
  ASSUME NEW a \in Nat, NEW b \in Nat
  PROVE  Smaller(a, b) \in Nat /\ Smaller(a, b) <= a /\ Smaller(a, b) <= b
         /\ (Smaller(a, b) = a \/ Smaller(a, b) = b)
BY DEF Smaller

(* A cursor page holds the rows right after those the cursor has passed.   *)
LEMMA CursorPage ==
  ASSUME SourceInv, ApiInv, api.strategy = "cursor"
  PROVE  \E n \in 0 .. Len(source) :
           /\ PageFrom(n, Smaller(api.limit, Len(source) - n))
           /\ \A i \in 1 .. Len(source) : source[i] <= job.at <=> i <= n
<1> DEFINE len == Len(source)
<1>1. PICK n \in 0 .. len :
        /\ After(source, job.at) = SubSeq(source, n + 1, len)
        /\ \A i \in 1 .. len : source[i] <= job.at <=> i <= n
  BY ReachedRows DEF ApiInv
<1>2. len \in Nat /\ source \in Seq(Row) /\ n \in Nat /\ n + 1 \in Nat \ {0}
  BY SourceFacts DEF SourceInv
<1> DEFINE rest == After(source, job.at)
           hi == Smaller(api.limit, Len(rest))
<1>3. /\ rest \in Seq(Row) /\ Len(rest) = len - n
      /\ \A i \in 1 .. len - n : rest[i] = source[n + i]
  <2>1. /\ rest \in Seq(Row) /\ Len(rest) = IF n + 1 <= len THEN len - (n + 1) + 1 ELSE 0
        /\ \A i \in 1 .. len - (n + 1) + 1 : rest[i] = source[n + 1 + i - 1]
    <3> HIDE DEF len
    <3>1. SubSeq(source, n + 1, len) \in Seq(Row)
          /\ Len(SubSeq(source, n + 1, len)) = (IF n + 1 <= len THEN len - (n + 1) + 1 ELSE 0)
          /\ \A i \in 1 .. len - (n + 1) + 1 : SubSeq(source, n + 1, len)[i] = source[n + 1 + i - 1]
      BY <1>2, Slice DEF len
    <3>2. QED BY <1>1, <3>1
  <2> HIDE DEF rest, len
  <2>2. QED BY <1>2, <2>1
<1>4. hi \in Nat /\ hi <= len - n /\ Len(rest) \in Nat /\ hi = Smaller(api.limit, len - n)
  <2>1. len - n \in Nat
    BY <1>2
  <2>2. QED BY <1>3, <2>1, SmallerIs DEF ApiInv
<1>5. Page = SubSeq(rest, 1, hi)
  BY DEF Page
<1> HIDE DEF rest, hi, len
<1>6. /\ Page \in Seq(Row) /\ Len(Page) = IF 1 <= hi THEN hi - 1 + 1 ELSE 0
      /\ \A i \in 1 .. hi - 1 + 1 : Page[i] = rest[1 + i - 1]
  <2>1. hi <= Len(rest) /\ hi \in Int /\ 1 \in Nat \ {0}
    BY <1>3, <1>4
  <2>2. QED BY <1>3, <1>5, <2>1, Slice
<1>7. Len(Page) = hi /\ \A i \in 1 .. hi : Page[i] = source[n + i] /\ n + i \in 1 .. len
  <2>1. Len(Page) = hi /\ hi - 1 + 1 = hi
    BY <1>4, <1>6
  <2>2. ASSUME NEW i \in 1 .. hi PROVE Page[i] = source[n + i] /\ n + i \in 1 .. len
    <3>1. i \in 1 .. len - n /\ n + i \in 1 .. len /\ 1 + i - 1 = i
      BY <1>2, <1>4
    <3>2. Page[i] = rest[i]
      BY <1>6, <2>1, <3>1
    <3>3. rest[i] = source[n + i]
      BY <1>3, <3>1
    <3>4. QED BY <3>1, <3>2, <3>3
  <2>3. QED BY <2>1, <2>2
<1>8. QED BY <1>1, <1>4, <1>6, <1>7 DEF PageFrom, len

(* An offset or a page number leads to the rows after those already asked  *)
(* for.                                                                    *)
LEMMA NumberedPage ==
  ASSUME SourceInv, ApiInv, api.strategy \notin {"none", "cursor"}
  PROVE  LET hi == Smaller(job.at + Smaller(PageSize, api.limit), Len(source))
         IN  PageFrom(job.at, IF job.at + 1 <= hi THEN hi - job.at ELSE 0)
<1> DEFINE len == Len(source)
           hi == Smaller(job.at + Smaller(PageSize, api.limit), len)
           at == job.at
<1>1. len \in Nat /\ source \in Seq(Row) /\ at \in Nat /\ at + 1 \in Nat \ {0}
  BY SourceFacts DEF SourceInv, ApiInv
<1>2. hi \in Nat /\ hi <= len
  <2>1. at + Smaller(PageSize, api.limit) \in Nat
    <3>1. Smaller(PageSize, api.limit) \in Nat
      BY SourceFacts, SmallerIs DEF ApiInv
    <3>2. QED BY <1>1, <3>1
  <2>2. QED BY <1>1, <2>1, SmallerIs
<1>3. Page = SubSeq(source, at + 1, hi)
  BY DEF Page
<1> HIDE DEF len, hi, at
<1>4. /\ Page \in Seq(Row) /\ Len(Page) = IF at + 1 <= hi THEN hi - (at + 1) + 1 ELSE 0
      /\ \A i \in 1 .. hi - (at + 1) + 1 : Page[i] = source[at + 1 + i - 1]
  BY <1>1, <1>2, <1>3, Slice DEF len
<1>5. /\ Len(Page) = IF at + 1 <= hi THEN hi - at ELSE 0
      /\ \A i \in 1 .. Len(Page) : at + i \in 1 .. len /\ Page[i] = source[at + i]
  <2>1. hi - (at + 1) + 1 = hi - at
    BY <1>1, <1>2
  <2>2. Len(Page) = IF at + 1 <= hi THEN hi - at ELSE 0
    BY <1>4, <2>1
  <2>3. ASSUME NEW i \in 1 .. Len(Page)
        PROVE  at + i \in 1 .. len /\ Page[i] = source[at + i]
    <3>1. at + 1 <= hi /\ i \in 1 .. hi - (at + 1) + 1
      BY <1>1, <1>2, <2>1, <2>2
    <3>2. Page[i] = source[at + 1 + i - 1] /\ at + 1 + i - 1 = at + i
      BY <1>1, <1>4, <3>1
    <3>3. QED BY <1>1, <1>2, <3>1, <3>2
  <2>4. QED BY <2>2, <2>3
<1>6. QED BY <1>4, <1>5 DEF PageFrom, hi, at, len

(* Without a strategy the one page is the whole source.                    *)
LEMMA WholePage ==
  ASSUME SourceInv, ApiInv, api.strategy = "none"
  PROVE  PageFrom(0, Len(source))
<1>1. Page = source
  BY DEF Page
<1>2. QED BY <1>1, SourceFacts DEF PageFrom, SourceInv

(* Every page holds rows of the source.                                    *)
LEMMA PageIsRows == ASSUME SourceInv, ApiInv PROVE Page \in Seq(Row)
<1>1. CASE api.strategy = "none"
  BY <1>1, WholePage DEF PageFrom
<1>2. CASE api.strategy = "cursor"
  BY <1>2, CursorPage DEF PageFrom
<1>3. CASE api.strategy \notin {"none", "cursor"}
  BY <1>3, NumberedPage DEF PageFrom
<1>4. QED BY <1>1, <1>2, <1>3

(* A page that is fetched is in the output, with what was there before.    *)
LEMMA PagesAreKept ==
  ASSUME Page \in Seq(Row), dir.parts \in Seq(Seq(Row)), dir.readable,
         dir'.parts = Flushed, dir'.readable = dir.readable
  PROVE  /\ dir'.parts \in Seq(Seq(Row))
         /\ Output \subseteq Output' /\ RowsOf(Page) \subseteq Output'
<1>1. CASE Page = <<>>
  <2>1. RowsOf(Page) = {}
    BY <1>1 DEF RowsOf
  <2>2. QED BY <1>1, <2>1 DEF Flushed, Output
<1>2. CASE Page # <<>> /\ dir.parts = <<>>
  <2>1. dir'.parts = <<Page>> /\ dir'.parts # <<>> /\ dir'.parts[1] = Page
    BY <1>2 DEF Flushed
  <2>2. dir'.parts \in Seq(Seq(Row))
    BY <2>1
  <2>3. QED BY <1>2, <2>1, <2>2 DEF Output
<1>3. CASE Page # <<>> /\ dir.parts # <<>>
  <2>1. dir.parts[1] \in Seq(Row)
    BY <1>3, EmptySeq, ElementOfSeq
  <2> DEFINE first == dir.parts[1]
             all == first \o Page
  <2>2. dir'.parts = <<all>> /\ dir'.parts # <<>> /\ dir'.parts[1] = all
    <3>1. dir'.parts = <<all>>
      BY <1>3 DEF Flushed
    <3> HIDE DEF all
    <3>2. QED BY <3>1
  <2>3. /\ all \in Seq(Row) /\ Len(all) = Len(first) + Len(Page)
        /\ Len(first) \in Nat /\ Len(Page) \in Nat
        /\ \A i \in 1 .. Len(first) + Len(Page) :
             all[i] = IF i <= Len(first) THEN first[i]
                      ELSE Page[i - Len(first)]
    BY <2>1, ConcatProperties, LenProperties
  <2>3a. first \in Seq(Row)
    BY <2>1
  <2> HIDE DEF all, first
  <2>4. RowsOf(first) \subseteq RowsOf(all)
    <3> SUFFICES ASSUME NEW i \in 1 .. Len(first) PROVE first[i] \in RowsOf(all)
      BY DEF RowsOf
    <3>1. i \in 1 .. Len(all) /\ all[i] = first[i]
      BY <2>3
    <3>2. QED BY <3>1 DEF RowsOf
  <2>5. RowsOf(Page) \subseteq RowsOf(all)
    <3> SUFFICES ASSUME NEW i \in 1 .. Len(Page) PROVE Page[i] \in RowsOf(all)
      BY DEF RowsOf
    <3> DEFINE j == Len(first) + i
    <3>1. j \in 1 .. Len(all) /\ j - Len(first) = i /\ ~(j <= Len(first))
      BY <2>3
    <3> HIDE DEF j
    <3>2. all[j] = Page[i]
      BY <2>3, <3>1
    <3>3. QED BY <3>1, <3>2 DEF RowsOf
  <2>6. dir'.parts \in Seq(Seq(Row))
    BY <2>2, <2>3
  <2>7. Output = RowsOf(first) /\ Output' = RowsOf(all)
    BY <1>3, <2>2 DEF Output, RowsOf, first
  <2>8. QED BY <2>4, <2>5, <2>6, <2>7
<1>4. QED BY <1>1, <1>2, <1>3

-----------------------------------------------------------------------------
(* The types of a job, and of what it leaves behind.                       *)

JobFields ==
  /\ api.strategy \in Strategies /\ api.limit \in Nat /\ api.limit > 0
  /\ api = [strategy |-> api.strategy, limit |-> api.limit]
  /\ job.pc \in {"none", "made", "ready", "paging", "executed", "returned", "raised"}
  /\ job.at \in 0 .. MaxRow /\ job.fetches \in 0 .. MaxFetches - 1 /\ job.exit \in 0 .. 1
  /\ job.held \in {"none", "success", "failed"} /\ job.missed \in BOOLEAN
  /\ dir.made \in BOOLEAN
  /\ dir.readable \in BOOLEAN /\ (engine = "rest_api" => dir.readable)
  /\ dir.manifest \in {"none", "plain", "watermark"}
  /\ dir.parts \in Seq(Seq(Row))
  /\ dir.results \in {"none", "malformed", "passed", "failed"}
  /\ dir.metrics.there \in BOOLEAN /\ dir.metrics.exit \in 0 .. 1
  /\ dir.metrics.failed \in {0, 1, Missing}

(* With the shapes, the fields make up the type invariant of a job.        *)
LEMMA FieldsAreTypes == Shape /\ JobFields /\ SourceInv => JobTypeOK
<1> SUFFICES ASSUME Shape, JobFields, SourceInv PROVE JobTypeOK
  OBVIOUS
<1>1. api \in [strategy : Strategies, limit : Nat \ {0}]
  <2>1. api.limit \in Nat \ {0}
    BY DEF JobFields
  <2>2. QED BY <2>1 DEF JobFields
<1>2. job \in [pc : {"none", "made", "ready", "paging", "executed", "returned", "raised"},
              at : 0 .. MaxRow, fetches : 0 .. MaxFetches - 1, exit : 0 .. 1,
              held : {"none", "success", "failed"}, missed : BOOLEAN]
  BY DEF Shape, JobShape, JobFields
<1>3. dir.metrics \in [there : BOOLEAN, watermark : BOOLEAN, exit : 0 .. 1,
                      failed : {0, 1, Missing}]
  BY DEF Shape, MetricsShape, JobFields
<1>4. present \subseteq Row
  BY SourceFacts DEF SourceInv, RowsOf
<1>5. QED BY <1>1, <1>2, <1>3, <1>4 DEF JobTypeOK, SourceInv, JobFields, Shape

(* A job that has not begun, and an empty directory.                       *)
LEMMA FreshFields ==
  /\ NoJob.pc = "none" /\ NoJob.at \in 0 .. MaxRow /\ NoJob.fetches \in 0 .. MaxFetches - 1
  /\ NoJob.exit \in 0 .. 1 /\ NoJob.held = "none" /\ NoJob.at = 0 /\ NoJob.missed = FALSE
  /\ EmptyDir.readable = TRUE
  /\ EmptyDir.made = FALSE /\ EmptyDir.manifest = "none" /\ EmptyDir.parts \in Seq(Seq(Row))
  /\ EmptyDir.results = "none" /\ EmptyDir.metrics.there = FALSE
  /\ EmptyDir.metrics.exit \in 0 .. 1 /\ EmptyDir.metrics.failed \in {0, 1, Missing}
<1>1. MaxRow \in Nat /\ MaxFetches \in Nat /\ MaxFetches > 0
  BY JobBounds
<1>2. NoJob.at = 0 /\ NoJob.fetches = 0 /\ NoJob.exit = 0
  BY DEF NoJob
<1>3. EmptyDir.metrics.exit = 0 /\ EmptyDir.metrics.failed = 0 /\ EmptyDir.metrics.there = FALSE
  BY DEF EmptyDir, NoMetrics
<1>4. EmptyDir.parts = <<>> /\ <<>> \in Seq(Seq(Row))
  BY EmptySeq DEF EmptyDir
<1>5. 0 \in 0 .. MaxRow /\ 0 \in 0 .. MaxFetches - 1
  BY <1>1
<1>6. QED BY <1>2, <1>3, <1>4, <1>5 DEF NoJob, EmptyDir

(* Starting a job, or clearing it away, keeps the types.                   *)
LEMMA FreshTypes ==
  ASSUME JobFields, UNCHANGED api,
         job' = NoJob \/ job' = [NoJob EXCEPT !.pc = "made"],
         dir' = EmptyDir \/ dir' = [EmptyDir EXCEPT !.made = TRUE]
  PROVE  JobFields'
<1>1. /\ job'.pc \in {"none", "made"} /\ job'.at = NoJob.at /\ job'.fetches = NoJob.fetches
      /\ job'.exit = NoJob.exit /\ job'.held = NoJob.held /\ job'.missed = NoJob.missed
  BY FreshShapes
<1>2. /\ dir'.made \in BOOLEAN /\ dir'.manifest = EmptyDir.manifest
      /\ dir'.parts = EmptyDir.parts /\ dir'.results = EmptyDir.results
      /\ dir'.metrics = EmptyDir.metrics /\ dir'.readable = EmptyDir.readable
  BY FreshShapes, FreshFields
<1>3. QED BY <1>1, <1>2, FreshFields DEF JobFields

(* They hold in the beginning, for every source a run may find.            *)
LEMMA InitTypes == Init => JobFields /\ SourceInv
<1> SUFFICES ASSUME Init PROVE JobFields /\ SourceInv
  OBVIOUS
<1>1. JobFields
  <2>1. PageSize \in Nat
    BY JobBounds
  <2>2. api.strategy \in Strategies /\ api.limit \in Nat /\ api.limit > 0
        /\ api = [strategy |-> api.strategy, limit |-> api.limit]
    <3>1. CASE api \in [strategy : Strategies, limit : 1 .. PageSize + 1]
      BY <2>1, <3>1
    <3>2. CASE api = [strategy |-> "none", limit |-> 1]
      BY <3>2 DEF Strategies
    <3>3. QED BY <3>1, <3>2 DEF Init
  <2>3. job = NoJob /\ dir = EmptyDir
    BY DEF Init, JobInit
  <2>4. QED BY <2>2, <2>3, FreshFields DEF JobFields
<1>2. SourceInv
  <2>1. PICK n \in 0 .. MaxRow - 1 : source = [k \in 1 .. n |-> k]
    BY DEF Init, JobInit
  <2>2. MaxRow \in Nat /\ n \in Nat /\ n <= MaxRow
    BY JobBounds
  <2>3. source \in Seq(Row) /\ Len(source) = n
    BY <2>1, <2>2 DEF Row
  <2>4. \A i \in 1 .. n : source[i] = i
    BY <2>1
  <2>5. \A i \in 1 .. n : source[i] = source[1] + i - 1
    BY <2>2, <2>4
  <2>6. present = {} /\ shifted = FALSE
    BY DEF Init, JobInit
  <2>7. QED BY <2>3, <2>5, <2>6 DEF SourceInv
<1>3. QED BY <1>1, <1>2

(* Rows that leave the front and arrive at the end leave the rest in order.*)
LEMMA SourceStays == SourceInv /\ SourceChanges => SourceInv'
<1> SUFFICES ASSUME SourceInv, SourceChanges PROVE SourceInv'
  OBVIOUS
<1>1. Len(source) \in Nat /\ source \in Seq(Row) /\ MaxRow \in Nat
  BY SourceFacts DEF SourceInv
<1>2. present' \subseteq RowsOf(source)' /\ shifted' \in BOOLEAN
  BY DEF SourceChanges, SourceInv, RowsOf
<1>3. CASE source # <<>> /\ source' = Tail(source)
  <2>1. /\ source' \in Seq(Row) /\ Len(source') = Len(source) - 1
        /\ \A i \in 1 .. Len(source') : source'[i] = source[i + 1]
    BY <1>1, <1>3, HeadTailProperties
  <2>2. \A i \in 1 .. Len(source') : source'[i] = source'[1] + i - 1
    <3> SUFFICES ASSUME NEW i \in 1 .. Len(source') PROVE source'[i] = source'[1] + i - 1
      OBVIOUS
    <3>1. 1 \in 1 .. Len(source') /\ i + 1 \in 1 .. Len(source) /\ 2 \in 1 .. Len(source)
      BY <1>1, <2>1
    <3>2. source'[i] = source[i + 1] /\ source'[1] = source[2]
      BY <2>1, <3>1
    <3>3. source[i + 1] = source[1] + (i + 1) - 1 /\ source[2] = source[1] + 2 - 1
      BY <3>1 DEF SourceInv
    <3>4. source[1] \in Nat
      BY <3>1, SourceFacts
    <3>5. QED BY <3>2, <3>3, <3>4
  <2>3. QED BY <1>2, <2>1, <2>2 DEF SourceInv
<1>4. CASE /\ source # <<>> /\ source[Len(source)] < MaxRow
           /\ source' = Append(source, source[Len(source)] + 1)
  <2> DEFINE len == Len(source)
             new == source[len] + 1
  <2>1. len \in 1 .. len /\ 1 \in 1 .. len
    BY <1>1, <1>4, EmptySeq
  <2>2. new \in Row /\ source[len] = source[1] + len - 1 /\ source[1] \in Nat
    BY <1>1, <1>4, <2>1, SourceFacts DEF SourceInv, Row
  <2> HIDE DEF new
  <2>3. /\ source' \in Seq(Row) /\ Len(source') = len + 1
        /\ \A i \in 1 .. len : source'[i] = source[i]
        /\ source'[len + 1] = new
    BY <1>1, <1>4, <2>2, AppendProperties DEF new
  <2>4. \A i \in 1 .. Len(source') : source'[i] = source'[1] + i - 1
    <3> SUFFICES ASSUME NEW i \in 1 .. Len(source') PROVE source'[i] = source'[1] + i - 1
      OBVIOUS
    <3>1. source'[1] = source[1]
      BY <2>1, <2>3
    <3>2. CASE i \in 1 .. len
      BY <2>3, <3>1, <3>2 DEF SourceInv
    <3>3. CASE i = len + 1
      <4>1. new = source[1] + i - 1
        BY <1>1, <2>2, <3>3 DEF new
      <4>2. QED BY <2>3, <3>1, <3>3, <4>1
    <3>4. QED BY <1>1, <2>3, <3>2, <3>3
  <2>5. QED BY <1>2, <2>3, <2>4 DEF SourceInv
<1>5. QED BY <1>3, <1>4 DEF SourceChanges

(* OmniBeam writes the rows as a whole, or in two shards.                  *)
LEMMA ShardsAreRows ==
  ASSUME SourceInv, NEW p \in Shards \cup {<<>>}
  PROVE  /\ p \in Seq(Seq(Row))
         /\ p \in Shards /\ Len(p) < 2 => p = <<source>> \/ (p = <<>> /\ source = <<>>)
<1>0. source \in Seq(Row) /\ Len(source) \in Nat
  BY SourceFacts DEF SourceInv
<1>1. CASE p = <<>>
  <2>1. p \in Seq(Seq(Row))
    BY <1>1, EmptySeq
  <2>2. \A k \in 1 .. Len(source) - 1 :
          <<>> # <<SubSeq(source, 1, k), SubSeq(source, k + 1, Len(source))>>
    OBVIOUS
  <2>3. p \in Shards => source = <<>>
    BY <1>1, <2>2 DEF Shards
  <2>4. QED BY <1>1, <2>1, <2>3
<1>2. CASE p = <<source>>
  BY <1>0, <1>2
<1>3. ASSUME NEW k \in 1 .. Len(source) - 1,
             p = <<SubSeq(source, 1, k), SubSeq(source, k + 1, Len(source))>>
      PROVE  p \in Seq(Seq(Row)) /\ ~(Len(p) < 2)
  <2>1. 1 \in Nat \ {0} /\ k \in Int /\ k <= Len(source) /\ k + 1 \in Nat \ {0}
        /\ Len(source) \in Int
    BY <1>0
  <2>2. SubSeq(source, 1, k) \in Seq(Row) /\ SubSeq(source, k + 1, Len(source)) \in Seq(Row)
    BY <1>0, <2>1, Slice
  <2>3. QED BY <1>3, <2>2
<1>4. QED BY <1>1, <1>2, <1>3 DEF Shards

(* A job never writes to its source.                                       *)
LEMMA SubmitKeepsSource == SubmitSteps => Keep
BY DEF SubmitSteps, EmptyBatch, WriteManifest, RunCli, Prepare, FetchPage, MissPage, FetchFails,
       Execute, ProcessResults, Abort

(* Every step of a job keeps the types.                                    *)
LEMMA SubmitTypes == JobInv /\ JobFields /\ SourceInv /\ SubmitSteps => JobFields'
<1> SUFFICES ASSUME JobInv, JobFields, SourceInv, SubmitSteps PROVE JobFields'
  OBVIOUS
<1> USE DEF JobInv, Shape, JobShape, DirShape, MetricsShape
<1>a. UNCHANGED <<engine, api>> /\ ApiInv
  BY SubmitKeepsSource, JobBounds DEF Keep, JobFields, ApiInv
<1>1. CASE EmptyBatch
  <2>1. /\ NoMetrics.exit \in 0 .. 1 /\ NoMetrics.failed \in {0, 1, Missing}
    BY DEF NoMetrics
  <2>2. dir' = [dir EXCEPT !.metrics = [NoMetrics EXCEPT !.there = TRUE]]
        /\ job' = [job EXCEPT !.pc = "returned", !.held = "success"]
    BY <1>1 DEF EmptyBatch, Return
  <2>3. QED BY <1>a, <2>1, <2>2 DEF JobFields, NoMetrics
<1>2. CASE WriteManifest
  BY <1>a, <1>2 DEF WriteManifest, JobFields
<1>3. CASE RunCli
  <2>1. ASSUME NEW p \in Shards, NEW m \in BOOLEAN, NEW w \in BOOLEAN, NEW readable \in BOOLEAN,
               dir' = [dir EXCEPT !.parts = p, !.readable = readable,
                         !.metrics = [NoMetrics EXCEPT !.there = m, !.watermark = m /\ w]],
               Return("success")
        PROVE  JobFields'
    <3>1. p \in Seq(Seq(Row))
      BY ShardsAreRows
    <3>2. /\ dir'.parts = p /\ dir'.made = dir.made /\ dir'.manifest = dir.manifest
          /\ dir'.results = dir.results /\ dir'.readable = readable
          /\ dir'.metrics = [NoMetrics EXCEPT !.there = m, !.watermark = m /\ w]
      BY <2>1
    <3>3. /\ dir'.metrics.there = m /\ dir'.metrics.exit \in 0 .. 1
          /\ dir'.metrics.failed \in {0, 1, Missing}
      BY <3>2 DEF NoMetrics
    <3>4. /\ job'.pc = "returned" /\ job'.held = "success" /\ job'.at = job.at
          /\ job'.fetches = job.fetches /\ job'.exit = job.exit /\ job'.missed = job.missed
      BY <2>1 DEF Return
    <3>5. engine = "omnibeam"
      BY <1>3 DEF RunCli
    <3>6. QED BY <1>a, <3>5, <3>1, <3>2, <3>3, <3>4 DEF JobFields
  <2>2. ASSUME NEW p \in Shards \cup {<<>>}, dir' = [dir EXCEPT !.parts = p, !.error = TRUE],
               Return("failed")
        PROVE  JobFields'
    <3>1. p \in Seq(Seq(Row))
      BY ShardsAreRows
    <3>2. QED BY <1>a, <2>2, <3>1 DEF Return, JobFields
  <2>3. QED BY <1>3, <2>1, <2>2 DEF RunCli
<1>4. ASSUME Abort PROVE JobFields'
  BY <1>a, <1>4 DEF Abort, Return, JobFields
<1>5. CASE Prepare
  BY <1>a, <1>4, <1>5 DEF Prepare, JobFields
<1>6. CASE FetchPage
  <2> DEFINE ps == Flushed
             last == LastPage
             place == IF api.strategy = "cursor" THEN Page[Len(Page)]
                      ELSE Smaller(job.at + PageSize, MaxRow)
  <2>1. ASSUME dir' = [dir EXCEPT !.parts = ps, !.metrics.there = last],
               IF last THEN job' = [job EXCEPT !.pc = "returned", !.held = "success"]
               ELSE job' = [job EXCEPT !.fetches = 0, !.at = place]
        PROVE  JobFields'
    <3>0. Page \in Seq(Row)
      BY <1>a, PageIsRows
    <3>1. last \in BOOLEAN
      BY DEF LastPage
    <3>2. ~last => place \in 0 .. MaxRow
      <4>1. CASE api.strategy = "cursor" /\ ~last
        <5>1. Page # <<>>
          BY <4>1 DEF LastPage, NextCursor
        <5>2. Len(Page) \in 1 .. Len(Page)
          BY <3>0, <5>1, EmptySeq
        <5>3. Page[Len(Page)] \in Row
          BY <3>0, <5>2, ElementOfSeq
        <5>4. QED BY <4>1, <5>3, JobBounds DEF Row
      <4>2. CASE api.strategy # "cursor"
        <5>1. job.at + PageSize \in Nat /\ MaxRow \in Nat
          BY JobBounds DEF JobFields
        <5>2. QED BY <4>2, <5>1, SmallerIs
      <4>3. QED BY <4>1, <4>2
    <3> HIDE DEF last, place, ps
    <3>3. /\ dir'.made = dir.made /\ dir'.manifest = dir.manifest
          /\ dir'.results = dir.results /\ dir'.parts = ps /\ dir'.readable = dir.readable
          /\ dir'.metrics = [dir.metrics EXCEPT !.there = last]
      BY <2>1
    <3>4. /\ dir'.metrics.there = last /\ dir'.metrics.exit = dir.metrics.exit
          /\ dir'.metrics.failed = dir.metrics.failed
      BY <3>3
    <3>5. dir'.parts \in Seq(Seq(Row))
      BY <1>6, <3>0, <3>3, PagesAreKept DEF FetchPage, JobFields, ps
    <3>6. 0 \in 0 .. MaxFetches - 1
      BY JobBounds
    <3>7. /\ job'.pc \in {job.pc, "returned"} /\ job'.held \in {job.held, "success"}
          /\ job'.exit = job.exit /\ job'.at \in 0 .. MaxRow
          /\ job'.fetches \in 0 .. MaxFetches - 1 /\ job'.missed = job.missed
      BY <2>1, <3>1, <3>2, <3>6 DEF JobFields
    <3>8. QED BY <1>a, <3>1, <3>3, <3>4, <3>5, <3>7 DEF JobFields
  <2>2. ASSUME dir' = [dir EXCEPT !.metrics.there = TRUE],
               job' = [job EXCEPT !.pc = "returned", !.held = "success", !.missed = TRUE]
        PROVE  JobFields'
    <3>1. /\ dir'.made = dir.made /\ dir'.manifest = dir.manifest /\ dir'.parts = dir.parts
          /\ dir'.results = dir.results /\ dir'.readable = dir.readable
          /\ dir'.metrics = [dir.metrics EXCEPT !.there = TRUE]
      BY <2>2
    <3>2. /\ dir'.metrics.there = TRUE /\ dir'.metrics.exit = dir.metrics.exit
          /\ dir'.metrics.failed = dir.metrics.failed
      BY <3>1
    <3>3. /\ job'.pc = "returned" /\ job'.held = "success" /\ job'.missed = TRUE
          /\ job'.at = job.at /\ job'.fetches = job.fetches /\ job'.exit = job.exit
      BY <2>2
    <3>4. QED BY <1>a, <3>1, <3>2, <3>3 DEF JobFields
  <2>3. QED BY <1>4, <1>6, <2>1, <2>2 DEF FetchPage, MissPage, Return
<1>7. CASE FetchFails
  <2>1. CASE Abort
    BY <1>4, <2>1
  <2>2. CASE /\ job.fetches < MaxFetches - 1 /\ job' = [job EXCEPT !.fetches = @ + 1]
             /\ UNCHANGED dir
    <3>1. job.fetches + 1 \in 0 .. MaxFetches - 1
      BY <2>2, JobBounds DEF JobFields
    <3>2. QED BY <1>a, <2>2, <3>1 DEF JobFields
  <2>3. QED BY <1>7, <2>1, <2>2 DEF FetchFails
<1>8. CASE Execute
  BY <1>a, <1>8 DEF Execute, JobFields
<1>9. CASE ProcessResults
  <2> DEFINE m == ExtractedMetrics
  <2>1. m.there = TRUE /\ m.exit \in 0 .. 1 /\ m.failed \in {0, 1, Missing}
    BY DEF ExtractedMetrics, DbtFailures, DataformFailures, Counted, JobFields
  <2>2. /\ dir' = [dir EXCEPT !.metrics = m]
        /\ job'.pc = "returned" /\ job'.held \in {"success", "failed"} /\ job'.at = job.at
        /\ job'.fetches = job.fetches /\ job'.exit = job.exit /\ job'.missed = job.missed
    BY <1>9 DEF ProcessResults, Return
  <2> HIDE DEF m
  <2>3. QED BY <1>a, <2>1, <2>2 DEF JobFields
<1>10. QED BY <1>1, <1>2, <1>3, <1>5, <1>6, <1>7, <1>8, <1>9 DEF SubmitSteps

-----------------------------------------------------------------------------
(* How far a job has come with the rows that stay in the source.           *)

WholePages == api.strategy = "none" \/ api.limit >= PageSize
Tolerated == shifted /\ api.strategy \in {"offset_limit", "page_number"}

Progress ==
  /\ engine = "rest_api" /\ WholePages =>
       /\ job.pc = "made" => job.at = 0
       /\ job.pc = "paging" =>
            /\ api.strategy = "cursor" => \A r \in present : r <= job.at => r \in Output
            /\ api.strategy \in {"offset_limit", "page_number"} /\ ~shifted =>
                 /\ job.at <= Len(source)
                 /\ \A i \in 1 .. Len(source) : i <= job.at => source[i] \in Output
       /\ job.pc = "returned" /\ ~dir.error /\ ~job.missed => Tolerated \/ present \subseteq Output
  /\ engine = "omnibeam" /\ job.pc = "returned" /\ ~dir.error /\ Len(dir.parts) < 2 /\ dir.readable =>
       present \subseteq Output

(* Nothing of it is lost while the job and its rows stay as they are.      *)
LEMMA ProgressStays ==
  ASSUME Progress, UNCHANGED <<engine, api, source, present, shifted>>,
         job'.pc = job.pc, job'.at = job.at, job'.missed = job.missed,
         dir'.error = dir.error, dir'.parts = dir.parts, dir'.readable = dir.readable
  PROVE  Progress'
<1>1. Output' = Output /\ WholePages' = WholePages /\ Tolerated' = Tolerated
  BY DEF Output, WholePages, Tolerated
<1>2. QED BY <1>1 DEF Progress

(* A job that is not reading has nothing to keep,                          *)
LEMMA NoProgress ==
  ASSUME UNCHANGED engine,
         \/ job'.pc \in {"none", "ready", "executed", "raised"}
         \/ job'.pc = "made" /\ job'.at = 0
  PROVE  Progress'
BY DEF Progress

(* and neither has one that ends with an error.                            *)
LEMMA FailsWithoutProgress ==
  ASSUME job'.pc = "returned", dir'.error = TRUE PROVE Progress'
BY DEF Progress

(* A change of the source leaves what a job has read in its output, and a  *)
(* row that goes is no longer one that stays.                              *)
LEMMA SourceProgress ==
  ASSUME SourceInv, JobFields, Progress, SourceChanges PROVE Progress'
<1>1. UNCHANGED <<engine, api, job, dir>> /\ job.pc \in {"made", "ready", "paging"}
      /\ present' \subseteq present
  BY DEF SourceChanges, Extracting
<1>2. Output' = Output /\ WholePages' = WholePages
  BY <1>1 DEF Output, WholePages
<1>3. ASSUME job.pc = "paging", WholePages, engine = "rest_api", ~shifted',
             api.strategy \in {"offset_limit", "page_number"}
      PROVE  /\ job.at <= Len(source')
             /\ \A i \in 1 .. Len(source') : i <= job.at => source'[i] \in Output
  <2> DEFINE len == Len(source)
             new == source[len] + 1
  <2>1. /\ source # <<>> /\ source[len] < MaxRow /\ source' = Append(source, new) /\ ~shifted
    BY <1>3 DEF SourceChanges
  <2>2. len \in Nat /\ source \in Seq(Row) /\ len \in 1 .. len
    BY <2>1, SourceFacts, EmptySeq DEF SourceInv
  <2>3. new \in Row
    BY <2>1, <2>2, SourceFacts DEF Row
  <2> HIDE DEF new
  <2>4. /\ Len(source') = len + 1 /\ \A i \in 1 .. len : source'[i] = source[i]
    BY <2>1, <2>2, <2>3, AppendProperties
  <2>5. job.at \in Nat /\ job.at <= len
        /\ \A i \in 1 .. len : i <= job.at => source[i] \in Output
    BY <1>3, <2>1, JobBounds DEF Progress, JobFields
  <2>6. \A i \in 1 .. len + 1 : i <= job.at => i \in 1 .. len
    BY <2>2, <2>5
  <2>7. QED BY <2>2, <2>4, <2>5, <2>6
<1>4. CASE job.pc # "paging"
  BY <1>1, <1>2, <1>4 DEF Progress
<1>5. CASE job.pc = "paging"
  BY <1>1, <1>2, <1>3, <1>5 DEF Progress
<1>6. QED BY <1>4, <1>5

(* A page brings every row up to the place it goes on to.                  *)
LEMMA PageProgress ==
  ASSUME JobInv, JobFields, SourceInv, Progress,
         engine = "rest_api", job.pc = "paging", Keep,
         dir'.parts = Flushed, dir'.error = dir.error, dir'.readable = dir.readable,
         IF LastPage THEN job'.pc = "returned"
         ELSE job'.pc = "paging"
              /\ job'.at = IF api.strategy = "cursor" THEN Page[Len(Page)]
                           ELSE Smaller(job.at + PageSize, MaxRow)
  PROVE  Progress'
<1> DEFINE len == Len(source)
<1>1. /\ ApiInv /\ UNCHANGED <<engine, api, source, present, shifted>>
      /\ PageSize \in Nat /\ PageSize > 0 /\ MaxRow \in Nat /\ len \in Nat
      /\ job.at \in Nat /\ len <= MaxRow
  <2>1. len \in Nat /\ MaxRow \in Nat
    BY SourceFacts
  <2>2. len <= MaxRow
    <3>1. CASE len = 0
      BY <2>1, <3>1
    <3>2. CASE len > 0
      <4>1. 1 \in 1 .. len /\ len \in 1 .. len
        BY <2>1, <3>2
      <4>2. source[len] = source[1] + len - 1 /\ source[len] \in Row /\ source[1] \in Row
        BY <4>1, SourceFacts DEF SourceInv
      <4>3. QED BY <2>1, <4>2 DEF Row
    <3>3. QED BY <2>1, <3>1, <3>2
  <2>3. QED BY <2>1, <2>2, JobBounds DEF ApiInv, JobFields, Keep
<1>2. Page \in Seq(Row)
  BY <1>1, PageIsRows
<1>3. Output \subseteq Output' /\ RowsOf(Page) \subseteq Output'
  BY <1>2, PagesAreKept DEF JobFields
<1>4. \A i \in 1 .. Len(Page) : Page[i] \in Output'
  BY <1>3 DEF RowsOf
<1>5. \A r \in present : \E i \in 1 .. len : r = source[i]
  BY DEF SourceInv, RowsOf
<1>6. CASE ~WholePages
  BY <1>1, <1>6 DEF Progress, WholePages
<1>7. CASE api.strategy = "none"
  <2>1. PageFrom(0, len)
    BY <1>1, <1>7, WholePage
  <2>2. \A i \in 1 .. len : source[i] \in Output'
    BY <1>1, <1>4, <2>1 DEF PageFrom
  <2>3. present' \subseteq Output' /\ job'.pc = "returned"
    BY <1>1, <1>5, <1>7, <2>2 DEF LastPage
  <2>4. QED BY <1>1, <2>3 DEF Progress
<1>8. CASE WholePages /\ api.strategy = "cursor"
  <2>1. PICK n \in 0 .. len :
          /\ PageFrom(n, Smaller(api.limit, len - n))
          /\ \A i \in 1 .. len : source[i] <= job.at <=> i <= n
    BY <1>1, <1>8, CursorPage
  <2> DEFINE l == Len(Page)
  <2>2. /\ l = Smaller(api.limit, len - n) /\ n \in Nat
        /\ \A i \in 1 .. l : n + i \in 1 .. len /\ Page[i] = source[n + i]
    BY <1>1, <2>1 DEF PageFrom
  <2>3. l \in Nat /\ l <= len - n /\ (l = api.limit \/ l = len - n)
    <3>1. len - n \in Nat /\ api.limit \in Nat
      BY <1>1 DEF ApiInv
    <3>2. QED BY <2>2, <3>1, SmallerIs
  <2> HIDE DEF l, len
  <2>4. \A i \in 1 .. len : i <= n + l /\ source[i] \in present => source[i] \in Output'
    <3> SUFFICES ASSUME NEW i \in 1 .. len, i <= n + l, source[i] \in present
                 PROVE  source[i] \in Output'
      OBVIOUS
    <3>1. CASE i <= n
      <4>1. source[i] <= job.at
        BY <2>1, <3>1
      <4>2. source[i] \in Output
        BY <1>8, <4>1 DEF Progress
      <4>3. QED BY <1>3, <4>2
    <3>2. CASE i > n
      <4>1. i - n \in 1 .. l /\ n + (i - n) = i
        BY <1>1, <2>2, <2>3, <3>2
      <4>2. source[i] = Page[i - n]
        BY <2>2, <4>1
      <4>3. QED BY <1>4, <4>1, <4>2 DEF l
    <3>3. QED BY <1>1, <2>2, <3>1, <3>2
  <2>5. CASE l = len - n
    <3>1. present \subseteq Output'
      <4>1. n + l = len
        BY <1>1, <2>2, <2>3, <2>5
      <4>2. \A i \in 1 .. len : i <= n + l
        BY <1>1, <4>1
      <4>3. QED BY <1>5, <2>4, <4>2 DEF len
    <3>2. QED BY <1>1, <3>1, <1>8 DEF Progress
  <2>6. CASE l = api.limit /\ l # len - n
    <3>1. l > 0 /\ l \in 1 .. l /\ ~(l < PageSize)
      BY <1>1, <1>8, <2>3, <2>6 DEF ApiInv, WholePages
    <3>2. Page[l] = source[n + l] /\ n + l \in 1 .. len
      BY <2>2, <3>1
    <3>3. \A i \in 1 .. len : source[i] <= Page[l] <=> i <= n + l
      <4>1. source[1] \in Nat
        BY <3>2, <1>1, SourceFacts DEF len
      <4>2. \A i \in 1 .. len : source[i] = source[1] + i - 1
        BY DEF SourceInv, len
      <4>3. Page[l] = source[1] + (n + l) - 1 /\ n + l \in Nat
        BY <2>2, <2>3, <3>2, <4>2
      <4>4. ASSUME NEW i \in 1 .. len PROVE source[i] <= Page[l] <=> i <= n + l
        <5>1. source[i] = source[1] + i - 1 /\ i \in Nat
          BY <1>1, <4>2
        <5> HIDE DEF l
        <5>2. QED BY <4>1, <4>3, <5>1
      <4>5. QED BY <4>4
    <3>4. \A r \in present : r <= Page[l] => r \in Output'
      BY <1>5, <2>4, <3>3 DEF len
    <3>5. CASE LastPage
      <4>1. ~NextCursor /\ Page # <<>>
        BY <1>8, <3>1, <3>5 DEF LastPage, l, WholePages
      <4>2. After(source, Page[l]) = <<>>
        BY <4>1 DEF NextCursor, l
      <4>3. Page[l] \in Nat
        BY <3>2, SourceFacts DEF len
      <4>4. PICK m \in 0 .. len :
              /\ After(source, Page[l]) = SubSeq(source, m + 1, len)
              /\ \A i \in 1 .. len : source[i] <= Page[l] <=> i <= m
        BY <4>3, ReachedRows DEF len
      <4>5. m = len
        <5>1. /\ m \in Nat /\ m + 1 \in Nat \ {0} /\ source \in Seq(Row)
              /\ len \in Int /\ len <= Len(source)
          BY <1>1 DEF SourceInv, len
        <5>2. Len(SubSeq(source, m + 1, len)) = IF m + 1 <= len THEN len - (m + 1) + 1 ELSE 0
          BY <5>1, Slice
        <5>3. Len(SubSeq(source, m + 1, len)) = 0
          BY <4>2, <4>4, EmptySeq
        <5>4. QED BY <1>1, <5>1, <5>2, <5>3
      <4>6. \A i \in 1 .. len : source[i] <= Page[l]
        BY <4>4, <4>5
      <4>7. present \subseteq Output'
        BY <1>5, <3>4, <4>6 DEF len
      <4>8. QED BY <1>1, <1>8, <3>5, <4>7 DEF Progress
    <3>6. CASE ~LastPage
      <4>1. job'.pc = "paging" /\ job'.at = Page[l]
        BY <1>8, <3>6 DEF l
      <4>2. QED BY <1>1, <1>8, <3>4, <4>1 DEF Progress
    <3>7. QED BY <3>5, <3>6
  <2>7. QED BY <2>3, <2>5, <2>6
<1>9. CASE WholePages /\ api.strategy \notin {"none", "cursor"}
  <2> DEFINE hi == Smaller(job.at + Smaller(PageSize, api.limit), len)
             l == Len(Page)
  <2>1. PageFrom(job.at, IF job.at + 1 <= hi THEN hi - job.at ELSE 0)
    BY <1>1, <1>9, NumberedPage
  <2>2. /\ l = (IF job.at + 1 <= hi THEN hi - job.at ELSE 0)
        /\ \A i \in 1 .. l : Page[i] = source[job.at + i]
    BY <2>1 DEF PageFrom
  <2>3. hi \in Nat /\ hi <= len /\ (hi = job.at + PageSize \/ hi = len) /\ hi <= job.at + PageSize
    <3>1. Smaller(PageSize, api.limit) = PageSize
      BY <1>1, <1>9 DEF Smaller, WholePages, ApiInv
    <3>2. job.at + PageSize \in Nat
      BY <1>1
    <3>3. QED BY <1>1, <3>1, <3>2, SmallerIs
  <2> HIDE DEF hi, l, len
  <2>4. api.strategy \in {"offset_limit", "page_number"}
    BY <1>9 DEF JobFields, Strategies
  <2>5. CASE shifted
    BY <1>1, <1>9, <2>4, <2>5 DEF Progress, Tolerated
  <2>6. CASE ~shifted
    <3>1. job.at <= len /\ \A i \in 1 .. len : i <= job.at => source[i] \in Output
      BY <1>9, <2>4, <2>6 DEF Progress, len
    <3>2. \A i \in 1 .. len : i <= hi => source[i] \in Output'
      <4> SUFFICES ASSUME NEW i \in 1 .. len, i <= hi PROVE source[i] \in Output'
        OBVIOUS
      <4>1. CASE i <= job.at
        BY <1>3, <3>1, <4>1
      <4>2. CASE i > job.at
        <5>1. i - job.at \in 1 .. l /\ job.at + (i - job.at) = i
          BY <1>1, <2>2, <2>3, <4>2
        <5>2. source[i] = Page[i - job.at]
          BY <2>2, <5>1
        <5>3. QED BY <1>4, <5>1, <5>2 DEF l
      <4>3. QED BY <1>1, <4>1, <4>2
    <3>3. CASE LastPage
      <4>1. l < PageSize
        BY <1>9, <3>3 DEF LastPage, l
      <4>2. hi = len
        BY <1>1, <2>2, <2>3, <3>1, <4>1
      <4>3. \A i \in 1 .. len : i <= hi
        BY <1>1, <4>2
      <4>4. present \subseteq Output'
        BY <1>5, <3>2, <4>3 DEF len
      <4>5. QED BY <1>1, <1>9, <3>3, <4>4 DEF Progress
    <3>4. CASE ~LastPage
      <4>1. ~(l < PageSize)
        BY <3>4 DEF LastPage, l
      <4>2. hi = job.at + PageSize
        BY <1>1, <2>2, <2>3, <4>1
      <4>3. Smaller(job.at + PageSize, MaxRow) = hi
        <5>1. hi <= MaxRow
          BY <1>1, <2>3
        <5>2. QED BY <1>1, <2>3, <4>2, <5>1 DEF Smaller
      <4>4. job'.pc = "paging" /\ job'.at = hi
        BY <1>9, <3>4, <4>3
      <4>5. QED BY <1>1, <1>9, <2>3, <3>2, <4>4 DEF Progress, len
    <3>5. QED BY <3>3, <3>4
  <2>7. QED BY <2>5, <2>6
<1>10. QED BY <1>6, <1>7, <1>8, <1>9

(* No step of a job loses a row that stays.                                *)
LEMMA SubmitProgress ==
  JobInv /\ JobFields /\ SourceInv /\ Progress /\ SubmitSteps => Progress'
<1> SUFFICES ASSUME JobInv, JobFields, SourceInv, Progress, SubmitSteps PROVE Progress'
  OBVIOUS
<1>a. JobShape /\ DirShape /\ MetricsShape
  BY DEF JobInv, Shape
<1>b. UNCHANGED <<engine, api, source, present, shifted>>
  BY SubmitKeepsSource DEF Keep
<1>c. source = <<>> => present = {}
  BY EmptySeq DEF SourceInv, RowsOf
<1>1. ASSUME Abort PROVE Progress'
  <2>1. job'.pc = "returned" /\ dir'.error = TRUE
    BY <1>a, <1>1 DEF Abort, Return, JobShape, DirShape
  <2>2. QED BY <2>1, FailsWithoutProgress
<1>2. CASE EmptyBatch
  <2>1. engine = "omnibeam" /\ present' = {}
    BY <1>2, <1>b, <1>c DEF EmptyBatch
  <2>2. QED BY <1>b, <2>1 DEF Progress
<1>3. CASE WriteManifest
  <2>1. job'.pc \in {"ready", "raised"}
    BY <1>a, <1>3 DEF WriteManifest, JobShape
  <2>2. QED BY <1>b, <2>1, NoProgress
<1>4. CASE RunCli
  <2>1. engine = "omnibeam"
    BY <1>4 DEF RunCli
  <2>2. ASSUME NEW p \in Shards, dir'.parts = p, Len(p) < 2, dir'.readable
        PROVE  present \subseteq Output'
    <3>1. p = <<source>> \/ (p = <<>> /\ source = <<>>)
      BY <2>2, ShardsAreRows
    <3>2. CASE p = <<source>>
      <4>1. Output' = RowsOf(source)
        BY <2>2, <3>2 DEF Output, RowsOf
      <4>2. QED BY <4>1 DEF SourceInv
    <3>3. QED BY <1>c, <3>1, <3>2
  <2>3. \/ \E p \in Shards : dir'.parts = p
        \/ dir'.error = TRUE /\ job'.pc = "returned"
    BY <1>a, <1>4 DEF RunCli, Return, DirShape, JobShape
  <2>4. ASSUME NEW p \in Shards, dir'.parts = p PROVE Progress'
    BY <1>b, <2>1, <2>2, <2>4 DEF Progress
  <2>5. QED BY <2>3, <2>4, FailsWithoutProgress
<1>5. CASE Prepare
  <2>1. CASE job' = [job EXCEPT !.pc = "paging"] /\ UNCHANGED dir
    <3>1. job'.pc = "paging" /\ job'.at = job.at /\ engine = "rest_api" /\ job.pc = "made"
      BY <1>a, <1>5, <2>1 DEF Prepare, JobShape
    <3>2. WholePages' = WholePages /\ Output' = Output
      BY <1>b, <2>1 DEF WholePages, Output
    <3>3. Len(source) \in Nat /\ \A i \in 1 .. Len(source) : source[i] \in Nat /\ source[i] > 0
      BY SourceFacts
    <3>4. \A r \in present : r \in Nat /\ r > 0
      BY <3>3 DEF SourceInv, RowsOf
    <3>5. WholePages => job.at = 0
      BY <3>1 DEF Progress
    <3>6. \A i \in 1 .. Len(source) : ~(i <= 0)
      BY <3>3
    <3>7. job.at = 0 => \A r \in present : ~(r <= job.at)
      BY <3>4
    <3>8. job.at = 0 => job.at <= Len(source) /\ \A i \in 1 .. Len(source) : ~(i <= job.at)
      BY <3>3, <3>6
    <3>9. QED BY <1>b, <3>1, <3>2, <3>5, <3>7, <3>8 DEF Progress
  <2>2. QED BY <1>1, <1>5, <2>1 DEF Prepare
<1>6. CASE FetchPage
  <2> DEFINE ps == Flushed
             last == LastPage
             place == IF api.strategy = "cursor" THEN Page[Len(Page)]
                      ELSE Smaller(job.at + PageSize, MaxRow)
  <2>1. ASSUME dir' = [dir EXCEPT !.parts = ps, !.metrics.there = last],
               IF last THEN job' = [job EXCEPT !.pc = "returned", !.held = "success"]
               ELSE job' = [job EXCEPT !.fetches = 0, !.at = place]
        PROVE  Progress'
    <3>1. engine = "rest_api" /\ job.pc = "paging" /\ Keep
      BY <1>6, SubmitKeepsSource DEF FetchPage
    <3> HIDE DEF ps, last, place
    <3>2. dir'.parts = ps /\ dir'.error = dir.error /\ dir'.readable = dir.readable
      BY <1>a, <2>1 DEF DirShape
    <3>3. IF last THEN job'.pc = "returned" ELSE job'.pc = "paging" /\ job'.at = place
      BY <1>a, <2>1, <3>1 DEF JobShape
    <3>4. QED BY <3>1, <3>2, <3>3, PageProgress DEF ps, last, place
  <2>2. ASSUME job' = [job EXCEPT !.pc = "returned", !.held = "success", !.missed = TRUE]
        PROVE  Progress'
    <3>1. job'.pc = "returned" /\ job'.missed = TRUE
      BY <1>a, <2>2 DEF JobShape
    <3>2. engine = "rest_api"
      BY <1>6 DEF FetchPage
    <3>3. QED BY <1>b, <3>1, <3>2 DEF Progress
  <2>3. QED BY <1>1, <1>6, <2>1, <2>2 DEF FetchPage, MissPage, Return
<1>7. CASE FetchFails
  <2>1. CASE job' = [job EXCEPT !.fetches = @ + 1] /\ UNCHANGED dir
    <3>1. job'.pc = job.pc /\ job'.at = job.at /\ job'.missed = job.missed
      BY <1>a, <2>1 DEF JobShape
    <3>2. QED BY <1>b, <2>1, <3>1, ProgressStays
  <2>2. QED BY <1>1, <1>7, <2>1 DEF FetchFails
<1>8. CASE Execute
  <2>1. job'.pc = "executed"
    BY <1>a, <1>8 DEF Execute, JobShape
  <2>2. QED BY <1>b, <2>1, NoProgress
<1>9. CASE ProcessResults
  <2>1. engine \notin {"omnibeam", "rest_api"}
    BY <1>9 DEF ProcessResults, Transformers
  <2>2. QED BY <1>b, <2>1 DEF Progress
<1>10. QED BY <1>2, <1>3, <1>4, <1>5, <1>6, <1>7, <1>8, <1>9 DEF SubmitSteps

-----------------------------------------------------------------------------
(* What a step of the DAG does to its job and to the source.               *)
JobMoves ==
  \/ UNCHANGED jobVars
  \/ /\ UNCHANGED <<engine, api, source, present, shifted>>
     /\ job' = NoJob /\ dir' = EmptyDir
  \/ StartJob
  \/ SubmitSteps
  \/ SourceChanges
  \/ UNCHANGED <<engine, api, source, present, shifted, job>> /\ dir' = PolledDir(dir)

(* Nothing else touches it.                                                *)
LEMMA StepMovesJob == [Next]_vars => JobMoves
<1> SUFFICES ASSUME [Next]_vars PROVE JobMoves
  OBVIOUS
<1>1. CASE StartRun
  BY <1>1 DEF StartRun, JobMoves
<1>2. CASE AttemptFails
  BY <1>2 DEF AttemptFails, JobMoves, jobVars
<1>3. CASE Submit
  BY <1>2, <1>3 DEF Submit, JobMoves
<1>4. CASE Poll
  BY <1>4 DEF Poll, JobMoves
<1>5. ASSUME Work, ~Submit, ~Poll PROVE UNCHANGED jobVars
  BY <1>5 DEF Work, PreFlight, Validate, DbtGroup, Collect, ReadMetrics, Gate, Docs,
       DeliverOrLineage, Sync, Emit, Notify
<1>6. CASE UNCHANGED vars
  BY <1>6 DEF vars, JobMoves
<1>7. QED BY <1>1, <1>2, <1>3, <1>4, <1>5, <1>6 DEF Next, JobMoves

(* Polling writes the metrics file and nothing else.                       *)
LEMMA PolledFields ==
  ASSUME Shape, JobFields
  PROVE  LET d == PolledDir(dir)
         IN  /\ d.made = dir.made /\ d.manifest = dir.manifest /\ d.parts = dir.parts
             /\ d.results = dir.results /\ d.error = dir.error /\ d.readable = dir.readable
             /\ d.metrics.there \in BOOLEAN /\ d.metrics.exit \in 0 .. 1
             /\ d.metrics.failed \in {0, 1, Missing}
<1> DEFINE m == Measured(dir)
<1>1. m.there \in BOOLEAN /\ m.exit \in 0 .. 1 /\ m.failed \in {0, 1, Missing}
  <2>1. CASE dir.parts = <<>>
    <3>1. m = [dir.metrics EXCEPT !.there = TRUE]
      BY <2>1 DEF Measured
    <3> HIDE DEF m
    <3>2. m.there = TRUE /\ m.exit = dir.metrics.exit /\ m.failed = dir.metrics.failed
      BY <3>1 DEF Shape, MetricsShape
    <3>3. QED BY <3>2 DEF JobFields
  <2>2. CASE dir.parts # <<>> /\ dir.readable
    <3>1. m = [NoMetrics EXCEPT !.there = TRUE, !.watermark = dir.metrics.watermark]
      BY <2>2 DEF Measured
    <3> HIDE DEF m
    <3>2. m.there = TRUE /\ m.exit = 0 /\ m.failed = 0
      BY <3>1 DEF NoMetrics
    <3>3. 0 \in 0 .. 1
      OBVIOUS
    <3>4. QED BY <3>2, <3>3
  <2>3. CASE dir.parts # <<>> /\ ~dir.readable
    <3>1. m = dir.metrics
      BY <2>3 DEF Measured
    <3>2. QED BY <3>1 DEF JobFields
  <2>4. QED BY <2>1, <2>2, <2>3
<1> HIDE DEF m
<1>2. PolledDir(dir) = dir \/ PolledDir(dir) = [dir EXCEPT !.metrics = m]
  BY DEF PolledDir, m
<1>3. QED BY <1>1, <1>2 DEF Shape, DirShape, JobFields

(* Every step of the DAG keeps the types of the job,                       *)
LEMMA JobTypesStep ==
  JobInv /\ JobFields /\ SourceInv /\ [Next]_vars => JobFields' /\ SourceInv'
<1> SUFFICES ASSUME JobInv, JobFields, SourceInv, JobMoves PROVE JobFields' /\ SourceInv'
  BY StepMovesJob
<1>1. ASSUME UNCHANGED <<source, present, shifted>> PROVE SourceInv'
  BY <1>1 DEF SourceInv, RowsOf
<1>2. CASE UNCHANGED jobVars
  BY <1>1, <1>2 DEF jobVars, JobFields
<1>3. CASE /\ UNCHANGED <<engine, api, source, present, shifted>>
           /\ job' = NoJob /\ dir' = EmptyDir
  BY <1>1, <1>3, FreshTypes
<1>4. CASE StartJob
  <2>1. JobFields'
    BY <1>4, FreshTypes DEF StartJob
  <2>2. SourceInv'
    BY <1>4 DEF StartJob, SourceInv, RowsOf
  <2>3. QED BY <2>1, <2>2
<1>5. CASE SubmitSteps
  BY <1>1, <1>5, SubmitTypes, SubmitKeepsSource DEF Keep
<1>6. CASE SourceChanges
  <2>1. JobFields'
    BY <1>6 DEF SourceChanges, JobFields
  <2>2. QED BY <1>6, <2>1, SourceStays
<1>7. CASE UNCHANGED <<engine, api, source, present, shifted, job>> /\ dir' = PolledDir(dir)
  <2>1. JobFields'
    BY <1>7, PolledFields DEF JobInv, JobFields
  <2>2. QED BY <1>1, <1>7, <2>1
<1>8. QED BY <1>2, <1>3, <1>4, <1>5, <1>6, <1>7 DEF JobMoves

(* and what it has come to.                                                *)
LEMMA ProgressStep ==
  JobInv /\ JobFields /\ SourceInv /\ Progress /\ [Next]_vars => Progress'
<1> SUFFICES ASSUME JobInv, JobFields, SourceInv, Progress, JobMoves PROVE Progress'
  BY StepMovesJob
<1>1. CASE UNCHANGED jobVars
  BY <1>1, ProgressStays DEF jobVars
<1>2. CASE /\ UNCHANGED <<engine, api, source, present, shifted>>
           /\ job' = NoJob /\ dir' = EmptyDir
  BY <1>2, FreshShapes, NoProgress
<1>3. CASE StartJob
  <2>1. job'.pc = "made" /\ job'.at = 0 /\ UNCHANGED engine
    BY <1>3, FreshShapes, FreshFields DEF StartJob
  <2>2. QED BY <2>1, NoProgress
<1>4. CASE SubmitSteps
  BY <1>4, SubmitProgress
<1>5. CASE SourceChanges
  BY <1>5, SourceProgress
<1>6. CASE UNCHANGED <<engine, api, source, present, shifted, job>> /\ dir' = PolledDir(dir)
  BY <1>6, PolledFields, ProgressStays DEF JobInv
<1>7. QED BY <1>1, <1>2, <1>3, <1>4, <1>5, <1>6 DEF JobMoves

(* An extraction that has ended with success has in its output every row   *)
(* that stayed in its source meanwhile (RestApiComputeAdapter.extract and  *)
(* OmniBeamComputeAdapter.submit), for any number of rows and any page     *)
(* size, whatever rows leave the front or arrive at the end: by a cursor,  *)
(* or by offset or page number as long as no row leaves, from a server     *)
(* that returns pages of the configured size under a key that is looked    *)
(* for; and by OmniBeam when it left at most one file, a readable one.     *)
(* Nothing is claimed of the other successes, which may lack rows.         *)
THEOREM SuccessIsAlwaysComplete == Spec => []SuccessIsComplete
<1>1. JobFields /\ Progress => SuccessIsComplete
  <2> SUFFICES ASSUME JobFields, Progress, job.pc = "returned", engine \in Extractors,
                      DiskStatus(dir) = "success", WholeOutput, ~Tolerated
               PROVE  present \subseteq Output
    BY DEF SuccessIsComplete, Tolerated
  <2>1. ~dir.error
    BY DEF DiskStatus
  <2>2. CASE engine = "omnibeam"
    BY <2>1, <2>2 DEF WholeOutput, Progress
  <2>3. CASE engine = "rest_api"
    BY <2>1, <2>3 DEF WholeOutput, Progress, WholePages
  <2>4. QED BY <2>2, <2>3 DEF Extractors
<1>2. Init => Progress
  BY FreshShapes, NoProgress DEF Init, JobInit, Progress
<1>3. QED BY <1>1, <1>2, InitJob, JobStep, InitTypes, JobTypesStep, ProgressStep, PTL DEF Spec

-----------------------------------------------------------------------------
(* The types of a run.                                                     *)

(* Every task a run can be at is a task of its DAG.                        *)
LEMMA TaskOfChain == OnChain => task \in RowsOf(Chain[kind]) /\ task \in Tasks
<1> SUFFICES ASSUME OnChain PROVE task \in RowsOf(Chain[kind]) /\ task \in Tasks
  OBVIOUS
<1> DEFINE c == Chain[kind]
<1>1. task \in RowsOf(c)
  <2>1. CASE kind = "etl"
    <3>1. /\ Len(c) = 11 /\ c[1] = "preFlight" /\ c[2] = "submit" /\ c[3] = "monitor"
          /\ c[4] = "validate" /\ c[5] = "metrics" /\ c[6] = "gate" /\ c[7] = "docs"
          /\ c[9] = "emit" /\ c[11] = "end"
      BY <2>1 DEF Chain
    <3> HIDE DEF c
    <3>2. \E i \in 1 .. 11 : c[i] = task
      BY <2>1, <3>1 DEF OnChain
    <3>3. QED BY <3>1, <3>2 DEF RowsOf
  <2>2. CASE kind = "cosmos"
    <3>1. /\ Len(c) = 10 /\ c[1] = "preFlight" /\ c[2] = "dbtGroup" /\ c[3] = "collect"
          /\ c[4] = "metrics" /\ c[5] = "gate" /\ c[6] = "docs" /\ c[8] = "emit" /\ c[10] = "end"
      BY <2>2 DEF Chain
    <3> HIDE DEF c
    <3>2. \E i \in 1 .. 10 : c[i] = task
      BY <2>2, <3>1 DEF OnChain
    <3>3. QED BY <3>1, <3>2 DEF RowsOf
  <2>3. CASE kind = "export"
    <3>1. /\ Len(c) = 11 /\ c[1] = "preFlight" /\ c[2] = "submit" /\ c[3] = "monitor"
          /\ c[4] = "validate" /\ c[5] = "metrics" /\ c[6] = "gate" /\ c[7] = "deliver"
          /\ c[8] = "lineage" /\ c[9] = "emit" /\ c[10] = "notify" /\ c[11] = "end"
      BY <2>3 DEF Chain
    <3> HIDE DEF c
    <3>2. \E i \in 1 .. 11 : c[i] = task
      BY <2>3, <3>1 DEF OnChain
    <3>3. QED BY <3>1, <3>2 DEF RowsOf
  <2>4. CASE kind = "transformation"
    <3>1. /\ Len(c) = 5 /\ c[1] = "submit" /\ c[2] = "gate" /\ c[3] = "sync"
          /\ c[4] = "emit" /\ c[5] = "end"
      BY <2>4 DEF Chain
    <3> HIDE DEF c
    <3>2. \E i \in 1 .. 5 : c[i] = task
      BY <2>4, <3>1 DEF OnChain
    <3>3. QED BY <3>1, <3>2 DEF RowsOf
  <2>5. QED BY <2>1, <2>2, <2>3, <2>4 DEF OnChain, Kinds
<1>2. QED BY <1>1 DEF OnChain, Tasks

Verdicts == {"none", "success", "failed", "quality_failed"}
RunFields ==
  /\ <<kind, engine>> \in Cases
  /\ tries \in 1 .. MaxTries
  /\ failedAt \in Tasks \cup {"none"}
  /\ xcom.polled \in {"none", "success", "failed"}
  /\ target \in [run : 0 .. MaxRuns, verdict : {"none", "passed", "failed"}]
  /\ catalog \in 0 .. MaxRuns
  /\ \A n \in 1 .. MaxRuns : rows[n] \in Verdicts

(* They hold in the beginning.                                             *)
LEMMA InitRunTypes == Init => RunFields
<1> SUFFICES ASSUME Init PROVE RunFields
  OBVIOUS
<1>1. <<kind, engine>> \in Cases
  <2>1. PICK c \in Cases : kind = c[1] /\ engine = c[2]
    BY DEF Init
  <2>2. c = <<c[1], c[2]>>
    BY DagBounds
  <2>3. QED BY <2>1, <2>2
<1>2. 1 \in 1 .. MaxTries /\ 0 \in 0 .. MaxRuns
  BY DagBounds
<1>3. QED BY <1>1, <1>2 DEF Init, RunFields, NoXCom, Verdicts

(* A task that ends, well or not, leaves its attempt number in bounds.     *)
LEMMA AttemptsAreCounted ==
  ASSUME RunInv, RunFields, Succeed \/ Fail
  PROVE  tries' \in 1 .. MaxTries /\ failedAt' \in Tasks \cup {"none"}
<1>1. MaxTries \in Nat /\ MaxTries > 0 /\ tries \in 1 .. MaxTries
  BY DagBounds DEF RunFields
<1>2. task \in Tasks
  BY TaskOfChain DEF RunInv
<1>3. CASE Succeed
  BY <1>1, <1>3 DEF Succeed, RunFields
<1>4. CASE Fail
  <2>1. failedAt' \in {failedAt, task}
    BY <1>4 DEF Fail
  <2>2. tries' = 1 \/ (tries < MaxTries /\ tries' = tries + 1)
    BY <1>4 DEF Fail
  <2>3. tries' \in 1 .. MaxTries
    BY <1>1, <2>2
  <2>4. QED BY <1>2, <2>1, <2>3 DEF RunFields
<1>5. QED BY <1>3, <1>4

(* Every step of a DAG keeps them.                                         *)
LEMMA RunTypesStep == RunInv /\ JobFields /\ RunFields /\ [Next]_vars => RunFields'
<1> SUFFICES ASSUME RunInv, JobFields, RunFields, [Next]_vars PROVE RunFields'
  OBVIOUS
<1>a. run \in 0 .. MaxRuns /\ 0 \in 0 .. MaxRuns /\ 1 \in 1 .. MaxTries /\ MaxRuns \in Nat
  BY DagBounds DEF RunInv, Recorded
<1>b. xcom = [polled |-> xcom.polled, validated |-> xcom.validated, gated |-> xcom.gated]
      /\ rows = [n \in 1 .. MaxRuns |-> rows[n]]
  BY DEF RunInv, Recorded
<1>1. ASSUME UNCHANGED <<kind, engine, target, catalog, rows>>,
             xcom'.polled \in {"none", "success", "failed"}, Succeed \/ Fail
      PROVE  RunFields'
  BY <1>1, AttemptsAreCounted DEF RunFields
<1>2. ASSUME UNCHANGED <<kind, engine>>, UNCHANGED dagVars PROVE RunFields'
  BY <1>2 DEF dagVars, RunFields
<1>3. CASE StartRun
  BY <1>a, <1>3 DEF StartRun, RunFields, NoXCom
<1>4. CASE AttemptFails
  BY <1>1, <1>4 DEF AttemptFails, RunFields
<1>5. CASE Submit
  <2>1. CASE job.pc = "returned"
    <3>1. /\ Succeed /\ UNCHANGED <<kind, engine, target, catalog, rows>>
          /\ xcom' = xcom \/ xcom' = [xcom EXCEPT !.polled = job.held]
      BY <1>5, <2>1 DEF Submit, jobVars
    <3>2. xcom'.polled \in {xcom.polled, job.held}
      BY <1>b, <3>1
    <3>3. QED BY <1>1, <3>1, <3>2 DEF RunFields, JobFields
  <2>2. CASE StartJob /\ UNCHANGED dagVars
    BY <1>2, <2>2 DEF StartJob, dagVars
  <2>3. CASE SubmitSteps /\ UNCHANGED dagVars
    BY <1>2, <2>3, SubmitKeepsSource DEF Keep, dagVars
  <2>4. QED BY <1>4, <1>5, <2>1, <2>2, <2>3 DEF Submit
<1>6. CASE Poll
  <2>1. /\ Succeed /\ UNCHANGED <<kind, engine, target, catalog, rows>>
        /\ xcom' = [xcom EXCEPT !.polled = DiskStatus(dir)]
    BY <1>6 DEF Poll
  <2>2. DiskStatus(dir) \in {"success", "failed"}
    BY DEF DiskStatus
  <2>3. xcom'.polled = DiskStatus(dir)
    BY <1>b, <2>1
  <2>4. QED BY <1>1, <2>1, <2>2, <2>3
<1>7. CASE Validate \/ Collect \/ Gate
  <2>1. /\ Succeed \/ Fail
        /\ UNCHANGED <<kind, engine, target, catalog, rows>>
    BY <1>7 DEF Validate, Collect, Gate, jobVars
  <2>2. \/ xcom' = xcom \/ xcom' = [xcom EXCEPT !.validated = TRUE]
        \/ xcom' = [xcom EXCEPT !.polled = "success", !.validated = TRUE]
        \/ xcom' = [xcom EXCEPT !.gated = TRUE]
    BY <1>7 DEF Validate, Collect, Gate
  <2>3. xcom'.polled \in {xcom.polled, "success"}
    BY <1>b, <2>2
  <2>4. QED BY <1>1, <2>1, <2>3 DEF RunFields
<1>8. CASE DbtGroup
  <2>1. Succeed \/ Fail
    BY <1>8 DEF DbtGroup
  <2>2. /\ target' \in [run : 0 .. MaxRuns, verdict : {"none", "passed", "failed"}]
        /\ UNCHANGED <<kind, engine, xcom, catalog, rows>>
    BY <1>a, <1>8 DEF DbtGroup, RunFields, jobVars
  <2>3. QED BY <2>1, <2>2, AttemptsAreCounted DEF RunFields
<1>9. CASE PreFlight \/ ReadMetrics \/ DeliverOrLineage \/ Docs
  BY <1>1, <1>9 DEF PreFlight, ReadMetrics, DeliverOrLineage, Docs, jobVars, RunFields
<1>10. CASE Sync
  <2>1. Succeed \/ Fail
    BY <1>10 DEF Sync
  <2>2. catalog' \in {catalog, run} /\ UNCHANGED <<kind, engine, xcom, target, rows>>
    BY <1>10 DEF Sync, SyncedByDbt, SyncedByDataform, jobVars
  <2>3. QED BY <1>a, <2>1, <2>2, AttemptsAreCounted DEF RunFields
<1>11. CASE Emit
  <2>1. UNCHANGED <<kind, engine, xcom, target, catalog>>
    BY <1>11 DEF Emit, jobVars
  <2>2. FinalStatus \in Verdicts
    BY DEF FinalStatus, Verdicts
  <2>3. rows' = rows \/ rows' = [rows EXCEPT ![run] = FinalStatus]
    BY <1>11 DEF Emit
  <2>4. \A n \in 1 .. MaxRuns : rows'[n] \in {rows[n], FinalStatus}
    BY <1>b, <2>3
  <2>5. \/ Succeed \/ Fail
        \/ tries' = 1 /\ UNCHANGED failedAt
    BY <1>11 DEF Emit
  <2>6. tries' \in 1 .. MaxTries /\ failedAt' \in Tasks \cup {"none"}
    BY <1>a, <2>5, AttemptsAreCounted DEF RunFields
  <2>7. QED BY <2>1, <2>2, <2>4, <2>6 DEF RunFields
<1>12. CASE Notify
  BY <1>1, <1>12 DEF Notify, jobVars, RunFields
<1>13. CASE SourceChanges /\ UNCHANGED dagVars
  BY <1>2, <1>13 DEF SourceChanges, dagVars
<1>14. CASE UNCHANGED vars
  BY <1>2, <1>14 DEF vars, dagVars, jobVars
<1>15. QED BY <1>3, <1>4, <1>5, <1>6, <1>7, <1>8, <1>9, <1>10, <1>11, <1>12, <1>13, <1>14
           DEF Next, Work

(* Every variable of a DAG, of its run record and of its job keeps its     *)
(* type, for every kind of DAG with every engine: a task is one of its     *)
(* chain, attempts stay in bounds and nothing unknown reaches the record.  *)
THEOREM DagsTypeCorrect == Spec => []TypeOK
<1>1. JobInv /\ JobFields /\ SourceInv /\ RunInv /\ RunFields => TypeOK
  <2> SUFFICES ASSUME JobInv, JobFields, SourceInv, RunInv, RunFields PROVE TypeOK
    OBVIOUS
  <2>1. JobTypeOK
    BY FieldsAreTypes DEF JobInv
  <2>2. task \in RowsOf(Chain[kind])
    BY TaskOfChain DEF RunInv
  <2>3. xcom \in [polled : {"none", "success", "failed"}, validated : BOOLEAN, gated : BOOLEAN]
    BY DEF RunInv, Recorded, RunFields
  <2>4. rows \in [1 .. MaxRuns -> Verdicts]
    BY DEF RunInv, Recorded, RunFields
  <2>5. events \subseteq 1 .. MaxRuns
    BY DagBounds DEF RunInv, Recorded
  <2>6. run \in 0 .. MaxRuns
    BY DEF RunInv, Recorded
  <2>7. QED BY <2>1, <2>2, <2>3, <2>4, <2>5, <2>6 DEF TypeOK, RunFields, Verdicts
<1>2. Spec => [](JobInv /\ JobFields /\ SourceInv /\ RunInv /\ RunFields)
  BY InitJob, JobStep, InitTypes, JobTypesStep, InitReports, ReportStep, InitRunTypes,
     RunTypesStep, PTL DEF Spec
<1>3. QED BY <1>1, <1>2, PTL
=============================================================================
