------------------------- MODULE PipelineDefinition -------------------------
(***************************************************************************)
(* The way of an ingestion pipeline's definition from the request that     *)
(* registers it to the job it makes an engine run: normalised into a       *)
(* Pipeline, stored as a row, loaded again, written as YAML, rendered as a *)
(* DAG, read by the DAG's tasks, together with the watermark they resolve. *)
(* A trigger through the platform writes the DAG again from the row.       *)
(***************************************************************************)
EXTENDS EngineManifest

CONSTANTS Request,        \* registrations explored
          DefaultEngine,  \* settings.compute.default_engine
          MaxJobs, MaxMark

ASSUME DefinitionBounds == {MaxJobs, MaxMark} \subseteq Nat \ {0}

Texts == {"source_type", "credential_ref", "driver", "endpoint", "records_path", "format"}
ObjectKeys == {"object_name", "load_strategy", "watermark_column", "watermark_type",
               "watermark_initial_value", "extraction_query", "credential_ref"}
ComputeEngine == {"duckdb", "spark", "dataflow", "default", "rest_api", "omnibeam",
                  "dbt", "dataform"}
Null == "null"  \* None, as opposed to a missing key

(* origin: the portal's endpoint with or without a compute section, or a   *)
(* script that executes the use case.  compute.config is a second place    *)
(* for the compute texts.                                                  *)
VARIABLES request,  \* [origin, engine, compute, config, objects, cron]
          phase,    \* of the registration
          stored,   \* the pipeline's row
          dag,      \* the DAG file
          state,    \* the watermark of the last successful run
          jobs,     \* jobs submitted so far
          built     \* the job under way, with the watermark it was given

defVars == <<request, phase, stored, dag, state, jobs, built>>

(* What requests are.  Without a compute section there are no texts, and   *)
(* no text that is given is None.  The objects are a list; of an object's  *)
(* query only the placeholder matters.                                     *)
ASSUME RequestsAreTyped ==
  \A r \in Request :
    /\ r.origin = "bare" => DOMAIN r.compute = {} /\ DOMAIN r.config = {}
    /\ \A k \in DOMAIN r.compute : r.compute[k] # Null
    /\ \A k \in DOMAIN r.config : r.config[k] # Null
    /\ r.objects \in Seq(Range(r.objects))
    /\ \A i \in DOMAIN r.objects :
         Get(r.objects[i], "extraction_query") \in {"", "plain", "marked"}

Absent == [there |-> FALSE]
Filled(dict) == Restrict(dict, {k \in DOMAIN dict : dict[k] # ""})

-----------------------------------------------------------------------------
(* PipelineNormalizer, on the dictionaries that reach it.                  *)

(* model_dump() turns what a request of the portal leaves out into None.   *)
RawCompute(r) ==
  CASE r.origin = "portal" -> [k \in Texts |-> IF k \in DOMAIN r.compute THEN r.compute[k] ELSE Null]
    [] r.origin = "bare" -> <<>>
    [] OTHER -> r.compute

(* {**config, **raw}, and str() of what that holds.                        *)
NormalizeCompute(raw, config) ==
  LET both == [k \in DOMAIN raw \cup DOMAIN config |->
                 IF k \in DOMAIN raw THEN raw[k] ELSE config[k]]
  IN [k \in Texts |-> IF Get(both, k) = Null THEN "None" ELSE Get(both, k)]

NormalizeObject(o) ==
  [k \in ObjectKeys |-> IF k = "load_strategy" THEN Or(Get(o, k), "full_load") ELSE Get(o, k)]
NormalizeExtraction(objects) == [i \in DOMAIN objects |-> NormalizeObject(objects[i])]

Incremental(o) == Get(o, "load_strategy") = "incremental"

(* The schedule: the cron expression, or else the source asset's event.    *)
ScheduleOf(r) == IF r.cron THEN [cron |-> "cron"] ELSE [depends_on |-> "asset"]

NewPipeline(r) ==
  [engine |-> IF r.origin = "bare" THEN DefaultEngine ELSE r.engine,
   compute |-> NormalizeCompute(RawCompute(r), IF r.origin = "bare" THEN <<>> ELSE r.config),
   objects |-> NormalizeExtraction(r.objects),
   schedule |-> ScheduleOf(r)]

(* The aggregate's invariants, and the values its enumerations know.       *)
Valid(p) ==
  LET increments == {i \in DOMAIN p.objects : Incremental(p.objects[i])}
  IN /\ p.engine \in ComputeEngine
     /\ \A i, j \in increments : i = j
     /\ \A i \in increments :
          /\ "" \notin {p.objects[i].watermark_column, p.objects[i].watermark_type}
          /\ p.objects[i].watermark_initial_value # "bad"
          /\ p.engine # "dataflow"

-----------------------------------------------------------------------------
(* Row, YAML and DAG.                                                      *)

(* Mutant: the compute section is not read back.                           *)
ReloadedWithDefaults(p) ==
  [p EXCEPT !.compute = NormalizeCompute(<<>>, <<>>),
            !.objects = NormalizeExtraction(p.objects)]

(* _to_domain(_to_model(p)): objects and compute are normalised again.     *)
Reloaded(p) ==
  [p EXCEPT !.compute = NormalizeCompute(p.compute, <<>>),
            !.objects = NormalizeExtraction(p.objects)]

(* Keys without a value are left out.                                      *)
Yaml(p) == [engine |-> p.engine,
            config |-> Filled(p.compute),
            objects |-> [i \in DOMAIN p.objects |-> Filled(p.objects[i])],
            schedule |-> p.schedule]

(* _canonicalize_pipeline_dict and the template.  Only the first source    *)
(* object makes a DAG incremental.                                         *)
Dag(y) ==
  LET o == First(y.objects)
  IN [there |-> TRUE,
      engine |-> y.engine,
      config |-> Filled(NormalizeCompute(<<>>, y.config)),
      objects |-> y.objects,
      incremental |-> Incremental(o),
      type |-> Or(Get(o, "watermark_type"), "timestamp"),
      initial |-> Get(o, "watermark_initial_value"),
      schedule |-> IF "cron" \in DOMAIN y.schedule THEN "cron" ELSE y.schedule.depends_on]

NewDag(p) == Dag(Yaml(p))

DefInit ==
  /\ request \in Request
  /\ phase = "new" /\ stored = Absent /\ dag = Absent
  /\ state = NoMark /\ jobs = 0 /\ built = Absent

(* RegisterPipelineUseCase.  The DAG is written after the commit: it is    *)
(* missing when that fails.                                                *)
RegisterDefinition ==
  /\ phase = "new"
  /\ IF Valid(NewPipeline(request))
     THEN /\ phase' = "registered"
          /\ stored' = NewPipeline(request)
          /\ dag' \in {NewDag(NewPipeline(request)), Absent}
     ELSE phase' = "refused" /\ UNCHANGED <<stored, dag>>
  /\ UNCHANGED <<request, state, jobs, built>>

-----------------------------------------------------------------------------
(* A run of the DAG.                                                       *)

(* resolve_watermark_context: the run's override, the stored watermark,    *)
(* the declared initial value.                                             *)
Resolve(d, override) ==
  CASE ~d.incremental -> NoMark
    [] d.incremental /\ override -> [type |-> d.type, n |-> MaxMark]
    [] d.incremental /\ ~override /\ state # NoMark -> state
    [] OTHER -> IF d.initial = "" THEN NoMark ELSE [type |-> d.type, n |-> 1]

(* submit_compute_job, with or without pending files.  A stored watermark  *)
(* of another type and an override that does not parse are exceptions.     *)
Submitted(d, mark, pending) ==
  LET name == IF d.engine = "default" THEN DefaultEngine ELSE d.engine
  IN [there |-> TRUE, mark |-> mark,
      job |-> EngineJob(name, d.config, d.objects, mark, pending)]

(* A run that starts while a job is still there follows one that failed.   *)
Run(d, override, pending) ==
  /\ jobs < MaxJobs
  /\ d.engine # "dataflow"
  /\ jobs' = jobs + 1
  /\ built' = Submitted(d, Resolve(d, override), pending)
  /\ dag' = d

(* The schedule or Airflow's own UI starts the DAG as it is.               *)
Scheduled(pending) ==
  /\ dag.there
  /\ Run(dag, FALSE, pending)
  /\ UNCHANGED <<request, phase, stored, state>>

(* A trigger through the platform writes the DAG first.                    *)
Triggered(override, pending) ==
  /\ phase = "registered"
  /\ Run(NewDag(Reloaded(stored)), override, pending)
  /\ UNCHANGED <<request, phase, stored, state>>

(* The job succeeds and its watermark is stored: OmniBeam has measured one *)
(* only when the manifest asked for it.                                    *)
Succeeds ==
  /\ built.there /\ built.job.reads # "nothing"
  /\ \/ /\ built.job.block \/ (dag.engine # "omnibeam" /\ Get(First(dag.objects), "watermark_column") # "")
        /\ \E n \in (built.mark.n .. MaxMark) \ {0} : state' = [type |-> dag.type, n |-> n]
     \/ UNCHANGED state
  /\ built' = Absent
  /\ UNCHANGED <<request, phase, stored, dag, jobs>>

DefNext ==
  \/ RegisterDefinition
  \/ \E pending \in BOOLEAN : Scheduled(pending)
  \/ \E override, pending \in BOOLEAN : Triggered(override, pending)
  \/ Succeeds
DefSpec == DefInit /\ [][DefNext]_defVars

-----------------------------------------------------------------------------
(* Properties.                                                             *)

(* What the request says: a compute text in either place.  The portal says *)
(* "None" for a text that is not in its compute section.                   *)
Said(text) ==
  CASE text \in DOMAIN request.compute -> request.compute[text]
    [] text \notin DOMAIN request.compute /\ request.origin = "portal" -> "None"
    [] OTHER -> Get(request.config, text)
SaidOf(key) == Get(First(request.objects), key)
OwnCredential == Or(Said("credential_ref"), SaidOf("credential_ref"))
Runs(name) == name = IF dag.engine = "default" THEN DefaultEngine ELSE dag.engine

(* A job reads the object, with the credential, by the query and above the *)
(* watermark of the declaration.  Of OmniBeam less is claimed, because     *)
(* less is true: a declared query never reaches it, against                *)
(* extraction_config.py:17, a collection is read without a watermark,      *)
(* against omnibeam-watermark.md:5, and some sources take the credential   *)
(* of the compute section only.  A query of one's own has no watermark     *)
(* without a placeholder for it.                                           *)
ReadsTheObject(job) ==
  /\ job.object = IF job.reads # "resource" THEN SaidOf("object_name")
                  ELSE IF Runs("omnibeam") /\ Said("endpoint") # "" THEN Said("endpoint")
                  ELSE ResourcePath(SaidOf("object_name"))
  /\ \/ job.credential = OwnCredential
     \/ Runs("duckdb") /\ OwnCredential = "" /\ job.credential = DefaultRef
     \/ Runs("omnibeam") /\ Said("credential_ref") = "" /\ job.credential = ""
  /\ Runs("omnibeam") \/ job.query = SaidOf("extraction_query")
AboveTheMark(job, mark) ==
  \/ job.above = mark
  \/ job.reads = "collection"
  \/ job.above = NoMark /\ job.query = "plain"
MarkIsDeclared(mark) ==
  mark = NoMark \/ (Incremental(First(request.objects)) /\ mark.type = SaidOf("watermark_type"))

(* A job is refused for its source type, format or credential only when    *)
(* that is what the declaration says, not for what was lost on the way.    *)
RefusalIsDeserved(causes) ==
  /\ "source type" \in causes =>
       Said("source_type") \notin {"database", "mongodb", "rest_api", "storage"}
  /\ "format" \in causes => Said("format") \notin OmniBeamFormats
  /\ "secret" \in causes => Or(OwnCredential, DefaultRef) \notin DOMAIN Secret \/ OwnCredential = ""

(* From the request to the engine the object, the credential, the query    *)
(* and the watermark of a declaration are neither lost nor changed, but    *)
(* for what ReadsTheObject and AboveTheMark leave open; "None" is what the *)
(* normalizer makes of a text that the portal leaves out, against its      *)
(* docstring's canonical defaults (pipeline_normalizer.py:18-20).          *)
JobReadsDeclaration ==
  built.there =>
    /\ built.job.reads # "nothing" => ReadsTheObject(built.job) /\ AboveTheMark(built.job, built.mark)
    /\ MarkIsDeclared(built.mark)
    /\ RefusalIsDeserved(built.job.causes)

(* Whoever wrote the DAG file, from the request or from the stored row, it *)
(* is the same DAG.                                                        *)
RegeneratedDagsAgree == dag.there => dag = NewDag(NewPipeline(request))

(* docs/contracts/omnibeam-watermark.md:11 has every run in incremental    *)
(* mode put a watermark block into the manifest.                           *)
IncrementalManifestsAskForWatermark ==
  (built.there /\ dag.incremental /\ Runs("omnibeam")
     /\ built.job.reads \in {"table", "resource"}) => built.job.block
=============================================================================
