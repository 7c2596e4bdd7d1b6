----------------------------- MODULE ComputeJobs -----------------------------
(***************************************************************************)
(* One compute job of the engines whose submit_job waits for its end:      *)
(* omnibeam and rest_api, which extract rows, and dbt and dataform, which  *)
(* transform what is in the warehouse already.  An adapter leaves the      *)
(* job's files in a directory and remembers its state; whoever polls       *)
(* through another adapter instance, as an Airflow sensor does at every    *)
(* poke, knows the directory only.  (The duckdb engine, which does not     *)
(* wait, is in IngestionDag.)                                              *)
(*                                                                         *)
(* The source is a REST API or what the OmniBeam CLI reads: a sequence of  *)
(* rows that may change while it is being read.                            *)
(***************************************************************************)
EXTENDS Naturals, Sequences, FiniteSets

CONSTANTS MaxRow,      \* rows the source ever holds
          PageSize,    \* pagination.page_size of the pipeline
          MaxFetches   \* attempts per page

ASSUME JobBounds == {MaxRow, PageSize, MaxFetches} \subseteq Nat \ {0}

Row == 1 .. MaxRow
Strategies == {"none", "offset_limit", "page_number", "cursor"}
Extractors == {"omnibeam", "rest_api"}
Transformers == {"dbt", "dataform"}
Engines == Extractors \cup Transformers

VARIABLES engine,   \* compute.engine
          api,      \* pagination.strategy and the most rows the server returns
          source,   \* the source's rows in its order
          present,  \* rows that were there throughout the extraction (history)
          shifted,  \* rows left or entered before others meanwhile (history)
          job,      \* the adapter that submitted the job
          dir       \* the job's directory

jobVars == <<engine, api, source, present, shifted, job, dir>>

(* metrics.json: whether it has a watermark, and for a transformation the  *)
(* exit code and the failed tests (9: the key is missing).                 *)
NoMetrics == [there |-> FALSE, watermark |-> FALSE, exit |-> 0, failed |-> 0]
Missing == 9

(* readable is whether the first of the parquet files, the parts, can be   *)
(* read.  results is run_results.json or dataform_results.json, which only *)
(* an executor other than the default one leaves in the job's directory.   *)
EmptyDir == [made |-> FALSE, manifest |-> "none", parts |-> <<>>, readable |-> TRUE,
             error |-> FALSE, results |-> "none", metrics |-> NoMetrics]

(* held is the state the adapter instance remembers of the job; missed is  *)
(* whether the rows of an answer were not found in it (history).           *)
NoJob == [pc |-> "none", at |-> 0, fetches |-> 0, exit |-> 0, held |-> "none",
          missed |-> FALSE]

JobTypeOK ==
  /\ engine \in Engines
  /\ api \in [strategy : Strategies, limit : Nat \ {0}]
  /\ source \in Seq(Row)
  /\ present \subseteq Row
  /\ shifted \in BOOLEAN
  /\ job \in [pc : {"none", "made", "ready", "paging", "executed", "returned", "raised"},
              at : 0 .. MaxRow, fetches : 0 .. MaxFetches - 1, exit : 0 .. 1,
              held : {"none", "success", "failed"}, missed : BOOLEAN]
  /\ dir.made \in BOOLEAN /\ dir.error \in BOOLEAN /\ dir.readable \in BOOLEAN
  /\ dir.manifest \in {"none", "plain", "watermark"}
  /\ dir.parts \in Seq(Seq(Row))
  /\ dir.results \in {"none", "malformed", "passed", "failed"}
  /\ dir.metrics \in [there : BOOLEAN, watermark : BOOLEAN, exit : 0 .. 1,
                      failed : {0, 1, Missing}]

JobInit ==
  /\ source \in {[k \in 1 .. n |-> k] : n \in 0 .. MaxRow - 1}
  /\ present = {} /\ shifted = FALSE
  /\ job = NoJob /\ dir = EmptyDir

RowsOf(s) == {s[k] : k \in 1 .. Len(s)}

-----------------------------------------------------------------------------
(* submit_job.                                                             *)

Extracting == job.pc \in {"made", "ready", "paging"}

(* Another uuid, another directory: nothing of an earlier attempt is seen. *)
StartJob ==
  /\ job' = [NoJob EXCEPT !.pc = "made"]
  /\ dir' = [EmptyDir EXCEPT !.made = TRUE]
  /\ present' = RowsOf(source) /\ shifted' = FALSE
  /\ UNCHANGED <<engine, api, source>>

Keep == UNCHANGED <<engine, api, source, present, shifted>>

(* submit_job ends: it returns the job's id, or the exception of a manifest *)
(* that cannot be built reaches the task.                                  *)
Return(status) == job' = [job EXCEPT !.pc = "returned", !.held = status]

(* An incremental file batch without a pending file.                       *)
EmptyBatch ==
  /\ engine = "omnibeam" /\ job.pc = "made" /\ source = <<>>
  /\ dir' = [dir EXCEPT !.metrics = [NoMetrics EXCEPT !.there = TRUE]]
  /\ Return("success")
  /\ Keep

(* The translator and the builder, with or without a watermark; a missing  *)
(* source type, unresolved credentials or an invalid manifest raise.       *)
WriteManifest ==
  /\ engine = "omnibeam" /\ job.pc = "made"
  /\ \/ \E m \in {"plain", "watermark"} : dir' = [dir EXCEPT !.manifest = m]
        /\ job' = [job EXCEPT !.pc = "ready"]
     \/ job' = [job EXCEPT !.pc = "raised"] /\ UNCHANGED dir
  /\ Keep

(* What the CLI may leave: all rows in one file, or the rows in two, with  *)
(* or without metrics, the first file readable or not.  It need not write  *)
(* a file for no rows.                                                     *)
Shards ==
  {<<source>>} \cup {<<SubSeq(source, 1, k), SubSeq(source, k + 1, Len(source))>> :
                       k \in 1 .. Len(source) - 1}
               \cup (IF source = <<>> THEN {<<>>} ELSE {})

(* Exit code 0 and no error.txt is a success, anything else a failure, for *)
(* which the executor has written error.txt.                               *)
RunCli ==
  /\ engine = "omnibeam" /\ job.pc = "ready"
  /\ \/ \E p \in Shards, m, w, readable \in BOOLEAN :
          /\ p = <<>> => readable
          /\ dir' = [dir EXCEPT !.parts = p, !.readable = readable,
                                !.metrics = [NoMetrics EXCEPT !.there = m, !.watermark = m /\ w]]
          /\ Return("success")
     \/ \E p \in Shards \cup {<<>>} :
          /\ dir' = [dir EXCEPT !.parts = p, !.error = TRUE]
          /\ Return("failed")
  /\ Keep

-----------------------------------------------------------------------------
(* rest_api: the extraction thread, which submit_job waits for.            *)

(* Any exception of the thread: error.txt, whatever data.parquet holds.    *)
Abort ==
  /\ dir' = [dir EXCEPT !.error = TRUE]
  /\ Return("failed")
  /\ Keep

(* Credentials, base_url and the watermark placeholder are checked first.  *)
Prepare ==
  /\ engine = "rest_api" /\ job.pc = "made"
  /\ \/ job' = [job EXCEPT !.pc = "paging"] /\ Keep /\ UNCHANGED dir
     \/ Abort

(* Rows the server returns for the request.  Offset and page number count  *)
(* rows, a cursor names the row after which to go on (at; rows are in      *)
(* order), and without a strategy the server is asked once and returns     *)
(* everything.                                                             *)
Smaller(a, b) == IF a < b THEN a ELSE b
After(s, r) == SubSeq(s, 1 + Cardinality({k \in DOMAIN s : s[k] <= r}), Len(s))
Page ==
  CASE api.strategy = "none" -> source
    [] api.strategy = "cursor" ->
         LET rest == After(source, job.at)
         IN  SubSeq(rest, 1, Smaller(api.limit, Len(rest)))
    [] OTHER ->
         SubSeq(source, job.at + 1,
                Smaller(job.at + Smaller(PageSize, api.limit), Len(source)))

(* The server sends a cursor while there is a row after the page.          *)
NextCursor == Page # <<>> /\ After(source, Page[Len(Page)]) # <<>>

(* Mutant: a full page ends the loop too.                                  *)
LastPageEarly ==
  \/ api.strategy = "none" \/ Len(Page) <= PageSize
  \/ api.strategy = "cursor" /\ ~NextCursor

LastPage ==
  \/ api.strategy = "none" \/ Len(Page) < PageSize
  \/ api.strategy = "cursor" /\ ~NextCursor

(* data.parquet is created by the first row that is flushed.  Whether a    *)
(* page is flushed at once or buffered, it is in the file at the end.      *)
Flushed == IF Page = <<>> THEN dir.parts
           ELSE IF dir.parts = <<>> THEN <<Page>> ELSE <<dir.parts[1] \o Page>>

(* Rows under a key that is not looked for are an empty page, and          *)
(* therefore the last.                                                     *)
MissPage ==
  /\ Page # <<>>
  /\ dir' = [dir EXCEPT !.metrics.there = TRUE]
  /\ job' = [job EXCEPT !.pc = "returned", !.held = "success", !.missed = TRUE]
  /\ Keep

(* One turn of the loop, or its last and then the metrics.  A later page   *)
(* whose columns have other types than the first one's is an exception.    *)
FetchPage ==
  /\ engine = "rest_api" /\ job.pc = "paging"
  /\ \/ /\ dir' = [dir EXCEPT !.parts = Flushed, !.metrics.there = LastPage]
        /\ IF LastPage THEN Return("success")
           ELSE job' = [job EXCEPT !.fetches = 0,
                          !.at = IF api.strategy = "cursor" THEN Page[Len(Page)]
                                 ELSE Smaller(@ + PageSize, MaxRow)]
        /\ Keep
     \/ MissPage
     \/ dir.parts # <<>> /\ Page # <<>> /\ Abort

(* 429, 5xx and transport errors are retried, others are not.              *)
FetchFails ==
  /\ engine = "rest_api" /\ job.pc = "paging"
  /\ \/ /\ job.fetches < MaxFetches - 1
        /\ job' = [job EXCEPT !.fetches = @ + 1] /\ Keep /\ UNCHANGED dir
     \/ Abort

-----------------------------------------------------------------------------
(* dbt and dataform.                                                       *)

(* The default executor writes error.txt for a failure; another one may    *)
(* not, and may leave the engine's own results.                            *)
Execute ==
  /\ engine \in Transformers /\ job.pc = "made"
  /\ \E code \in 0 .. 1, written \in BOOLEAN, r \in {"none", "malformed", "passed", "failed"} :
       /\ r = "none" /\ code = 1 => written
       /\ job' = [job EXCEPT !.pc = "executed", !.exit = code]
       /\ dir' = [dir EXCEPT !.error = (code = 1 /\ written), !.results = r]
  /\ Keep

(* _extract_metrics.  Without results the exit code stands for a failed    *)
(* test.  Failed models count as failed tests for dbt; only assertions do  *)
(* for dataform, so that its results may have "passed" with exit code 1.   *)
(* Malformed results cost dbt the key and are a failed test for dataform.  *)
Counted == CASE dir.results = "none" -> job.exit
             [] dir.results = "passed" -> 0
             [] OTHER -> 1
DbtFailures == IF dir.results = "malformed" THEN Missing ELSE Counted
DataformFailures == Counted
ExtractedMetrics == [there |-> TRUE, watermark |-> FALSE, exit |-> job.exit,
                     failed |-> IF engine = "dbt" THEN DbtFailures ELSE DataformFailures]

(* metrics_data.get("tests_failed", 0) == 0                                *)
NoneFailed(m) == m.failed \in {0, Missing}

(* Mutant: the exit code is not looked at.                                 *)
ProcessResultsByTests ==
  /\ engine \in Transformers /\ job.pc = "executed"
  /\ dir' = [dir EXCEPT !.metrics = ExtractedMetrics]
  /\ Return(IF NoneFailed(ExtractedMetrics) THEN "success" ELSE "failed")
  /\ Keep

ProcessResults ==
  /\ engine \in Transformers /\ job.pc = "executed"
  /\ dir' = [dir EXCEPT !.metrics = ExtractedMetrics]
  /\ Return(IF job.exit = 0 /\ NoneFailed(ExtractedMetrics) THEN "success" ELSE "failed")
  /\ Keep

SubmitSteps ==
  \/ EmptyBatch \/ WriteManifest \/ RunCli
  \/ Prepare \/ FetchPage \/ FetchFails
  \/ Execute \/ ProcessResults

(* Rows leave from the front or arrive at the end.                         *)
SourceChanges ==
  /\ Extracting
  /\ \/ source # <<>> /\ source' = Tail(source) /\ shifted' = TRUE
     \/ /\ Len(source) < MaxRow /\ source # <<>> /\ source[Len(source)] < MaxRow
        /\ source' = Append(source, source[Len(source)] + 1)
        /\ UNCHANGED shifted
  /\ present' = present \cap RowsOf(source')
  /\ UNCHANGED <<engine, api, job, dir>>

-----------------------------------------------------------------------------
(* poll_job_status.                                                        *)

(* omnibeam recomputes metrics.json from the first parquet file and keeps  *)
(* its watermark, or writes one for no rows when there is no file at all.  *)
(* A file that cannot be read costs a warning and leaves what is there.    *)
Measured(d) ==
  CASE d.parts = <<>> -> [d.metrics EXCEPT !.there = TRUE]
    [] d.parts # <<>> /\ d.readable ->
         [NoMetrics EXCEPT !.there = TRUE, !.watermark = d.metrics.watermark]
    [] OTHER -> d.metrics

(* What a poll leaves in the directory: omnibeam's metrics.                *)
PolledDir(d) ==
  IF engine = "omnibeam" /\ ~d.error THEN [d EXCEPT !.metrics = Measured(d)] ELSE d

(* The status an adapter instance finds that has not submitted the job,    *)
(* unless it finds error.txt.  OmniBeam fails a job whose manifest asked   *)
(* for a watermark that the metrics, if there are any, lack.               *)
OmniBeamSucceeded(d) ==
  d.manifest = "watermark" /\ Measured(d).there => Measured(d).watermark

(* rest_api knows a job by its parquet file, which an extraction of no     *)
(* rows does not write.                                                    *)
RestApiSucceeded(d) == d.parts # <<>>

TransformationSucceeded(d) == d.metrics.exit = 0 /\ NoneFailed(d.metrics)

DiskStatus(d) ==
  IF ~d.error /\ CASE engine = "omnibeam" -> OmniBeamSucceeded(d)
                   [] engine = "rest_api" -> RestApiSucceeded(d)
                   [] OTHER -> TransformationSucceeded(d)
  THEN "success" ELSE "failed"

(* output_path: the first of the sorted parquet files.                     *)
Output == IF dir.parts = <<>> \/ ~dir.readable THEN {} ELSE RowsOf(dir.parts[1])

-----------------------------------------------------------------------------
(* Properties.                                                             *)

EmptyRest == engine = "rest_api" /\ dir.parts = <<>>
LostWatermark == engine = "omnibeam" /\ dir.manifest = "watermark" /\ ~dir.metrics.watermark

(* The adapter that submitted a job and any other process give the same    *)
(* answer about it, and a poll does not change what the next one answers.  *)
(* Two jobs are the exception: a REST extraction of no rows, a success to  *)
(* its submitter and unknown to everyone else, and an OmniBeam run that    *)
(* left no watermark, which only a poll of the directory notices.          *)
PollsAgree ==
  /\ job.pc = "returned" /\ ~EmptyRest /\ ~LostWatermark => job.held = DiskStatus(dir)
  /\ job.pc = "returned" => DiskStatus(PolledDir(dir)) = DiskStatus(dir)

(* Where a success may lack rows: the rows of a second OmniBeam file are   *)
(* never looked at, and those of a first one that cannot be read are not   *)
(* missed; a REST answer whose rows are not found ends the loop, and so    *)
(* does a page of a server whose pages are shorter than the pipeline says. *)
WholeOutput ==
  \/ engine = "omnibeam" /\ Len(dir.parts) < 2 /\ dir.readable
  \/ /\ engine = "rest_api" /\ ~job.missed
     /\ api.strategy = "none" \/ api.limit >= PageSize

(* Rows that stay in the source while a job reads it are in the output of  *)
(* a job that succeeded, but for the jobs of which WholeOutput says why    *)
(* not, and for rows that leave, which shift the pages of offsets and page *)
(* numbers: rows that are appended disturb nobody, and no row that leaves  *)
(* disturbs a cursor.                                                      *)
SuccessIsComplete ==
  job.pc = "returned" /\ engine \in Extractors /\ DiskStatus(dir) = "success" /\ WholeOutput
    => \/ shifted /\ api.strategy \in {"offset_limit", "page_number"}
       \/ present \subseteq Output
=============================================================================
