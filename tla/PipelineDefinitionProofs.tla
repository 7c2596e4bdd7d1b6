---------------------- MODULE PipelineDefinitionProofs ----------------------
(***************************************************************************)
(* Theorems about PipelineDefinition, for every set of requests, secrets   *)
(* and bounds.                                                             *)
(***************************************************************************)
EXTENDS PipelineDefinition, TLAPS

-----------------------------------------------------------------------------
(* Dictionaries.                                                           *)

(* Leaving the empty texts out loses none of them.                         *)
LEMMA FilledKeeps ==
  ASSUME NEW dict, NEW k
  PROVE  Get(Filled(dict), k) = Get(dict, k)
BY DEF Get, Filled, Restrict

(* A normalised compute section has every text.                            *)
LEMMA ComputeShape ==
  ASSUME NEW raw, NEW config
  PROVE  /\ DOMAIN NormalizeCompute(raw, config) = Texts
         /\ \A k \in Texts : NormalizeCompute(raw, config)[k] # Null
BY DEF NormalizeCompute, Null

(* What has been normalised is left as it is, with the texts it lacks or   *)
(* not.                                                                    *)
LEMMA ComputeAgain ==
  ASSUME NEW raw, NEW config
  PROVE  LET compute == NormalizeCompute(raw, config)
         IN  /\ NormalizeCompute(compute, <<>>) = compute
             /\ NormalizeCompute(<<>>, Filled(compute)) = compute
<1> DEFINE compute == NormalizeCompute(raw, config)
<1>1. /\ DOMAIN compute = Texts /\ compute = [k \in Texts |-> compute[k]]
      /\ \A k \in Texts : compute[k] # Null
  <2>1. compute = [k \in Texts |-> compute[k]]
    BY DEF NormalizeCompute
  <2>2. QED BY <2>1, ComputeShape
<1> HIDE DEF compute
<1>2. NormalizeCompute(compute, <<>>) = compute
  <2>1. DOMAIN compute \cup DOMAIN <<>> = Texts
    BY <1>1
  <2>2. QED BY <1>1, <2>1 DEF NormalizeCompute, Get
<1>3. NormalizeCompute(<<>>, Filled(compute)) = compute
  <2> DEFINE both == [k \in DOMAIN <<>> \cup DOMAIN Filled(compute) |->
                        IF k \in DOMAIN <<>> THEN <<>>[k] ELSE Filled(compute)[k]]
  <2>1. DOMAIN <<>> = {}
    OBVIOUS
  <2>2. both = Filled(compute)
    BY <2>1 DEF Filled, Restrict
  <2>3. \A k \in Texts : Get(Filled(compute), k) = compute[k]
    <3>1. \A k \in Texts : Get(compute, k) = compute[k]
      BY <1>1 DEF Get
    <3>2. QED BY <3>1, FilledKeeps
  <2>4. NormalizeCompute(<<>>, Filled(compute))
          = [k \in Texts |-> IF Get(both, k) = Null THEN "None" ELSE Get(both, k)]
    BY DEF NormalizeCompute
  <2> HIDE DEF both
  <2>5. QED BY <1>1, <2>2, <2>3, <2>4
<1>4. QED BY <1>2, <1>3 DEF compute

(* A normalised object has every key.                                      *)
LEMMA ObjectShape ==
  ASSUME NEW o
  PROVE  /\ DOMAIN NormalizeObject(o) = ObjectKeys
         /\ \A k \in ObjectKeys \ {"load_strategy"} : NormalizeObject(o)[k] = Get(o, k)
         /\ NormalizeObject(o)["load_strategy"] = Or(Get(o, "load_strategy"), "full_load")
BY DEF NormalizeObject, ObjectKeys

(* A normalised object is left as it is.                                   *)
LEMMA ObjectAgain == ASSUME NEW o PROVE NormalizeObject(NormalizeObject(o)) = NormalizeObject(o)
<1> DEFINE p == NormalizeObject(o)
<1>1. /\ DOMAIN p = ObjectKeys /\ p = [k \in ObjectKeys |-> p[k]]
      /\ p["load_strategy"] = Or(Get(o, "load_strategy"), "full_load")
  BY ObjectShape DEF NormalizeObject
<1>2. p["load_strategy"] # ""
  BY <1>1 DEF Or
<1> HIDE DEF p
<1>3. \A k \in ObjectKeys :
         p[k] = IF k = "load_strategy" THEN Or(Get(p, k), "full_load") ELSE Get(p, k)
  BY <1>1, <1>2 DEF Or, Get
<1>4. NormalizeObject(p) = p
  BY <1>1, <1>3 DEF NormalizeObject
<1>5. QED BY <1>4 DEF p

(* The row holds the pipeline that was stored.                             *)
LEMMA ReloadedIsStored == ASSUME NEW r PROVE Reloaded(NewPipeline(r)) = NewPipeline(r)
<1> DEFINE p == NewPipeline(r)
<1>1. p = [engine |-> p.engine, compute |-> p.compute, objects |-> p.objects,
           schedule |-> p.schedule]
  BY DEF NewPipeline
<1>2. NormalizeCompute(p.compute, <<>>) = p.compute
  BY ComputeAgain DEF NewPipeline
<1>3. NormalizeExtraction(p.objects) = p.objects
  <2>1. p.objects = [i \in DOMAIN r.objects |-> NormalizeObject(r.objects[i])]
    BY DEF NewPipeline, NormalizeExtraction
  <2>2. \A i \in DOMAIN r.objects : NormalizeObject(p.objects[i]) = p.objects[i]
    BY <2>1, ObjectAgain
  <2> HIDE DEF p
  <2>3. DOMAIN p.objects = DOMAIN r.objects
    BY <2>1
  <2>4. NormalizeExtraction(p.objects) = [i \in DOMAIN r.objects |-> p.objects[i]]
    BY <2>2, <2>3 DEF NormalizeExtraction
  <2>5. QED BY <2>1, <2>4
<1> HIDE DEF p
<1>4. Reloaded(p) = p
  BY <1>1, <1>2, <1>3 DEF Reloaded
<1>5. QED BY <1>4 DEF p

-----------------------------------------------------------------------------
(* The definition's way.                                                   *)

(* The DAG of the request.                                                 *)
Declared == NewDag(NewPipeline(request))

(* The job under way was submitted for the declaration, with a watermark   *)
(* of the declaration.                                                     *)
MarkFits(mark) == mark = NoMark \/ (Declared.incremental /\ mark.type = Declared.type)
BuiltFits ==
  \E mark : \E pending \in BOOLEAN : MarkFits(mark) /\ built = Submitted(Declared, mark, pending)

DefInv ==
  /\ request \in Request
  /\ phase = "new" => dag = Absent /\ built = Absent
  /\ phase = "registered" => stored = NewPipeline(request) /\ Valid(stored)
  /\ dag.there => dag = Declared /\ Valid(NewPipeline(request))
  /\ state # NoMark => state.type = Declared.type
  /\ built.there => dag.there /\ BuiltFits

(* Nothing has been declared or generated.                                 *)
LEMMA DefStarts == DefInit => DefInv
  BY DEF DefInit, DefInv, Absent

(* A declared DAG is there, an absent one is not.                          *)
LEMMA DeclaredThere == Declared.there /\ ~Absent.there
  BY DEF Declared, NewDag, Dag, Absent

(* A run of the DAG of the request submits a job of that declaration.      *)
LEMMA RunsTheDeclaration ==
  ASSUME DefInv, NEW override \in BOOLEAN, NEW pending \in BOOLEAN, Valid(NewPipeline(request)),
         phase # "new",
         Run(Declared, override, pending), UNCHANGED <<request, phase, stored, state>>
  PROVE  DefInv'
<1>1. Declared' = Declared /\ NewPipeline(request)' = NewPipeline(request)
  BY DEF Declared
<1> DEFINE mark == Resolve(Declared, override)
<1>2. MarkFits(mark)
  <2>1. \A n : [type |-> Declared.type, n |-> n].type = Declared.type
    OBVIOUS
  <2>2. CASE ~Declared.incremental
    BY <2>2 DEF Resolve, MarkFits
  <2>3. CASE Declared.incremental /\ override
    BY <2>1, <2>3 DEF Resolve, MarkFits
  <2>4. CASE Declared.incremental /\ ~override /\ state # NoMark
    BY <2>4 DEF Resolve, MarkFits, DefInv
  <2>5. CASE Declared.incremental /\ ~override /\ state = NoMark
    BY <2>1, <2>5 DEF Resolve, MarkFits
  <2>6. QED BY <2>2, <2>3, <2>4, <2>5
<1>3. built' = Submitted(Declared, mark, pending) /\ dag' = Declared
  BY DEF Run
<1> HIDE DEF mark
<1>4. BuiltFits'
  BY <1>1, <1>2, <1>3 DEF BuiltFits, MarkFits
<1>5. QED BY <1>1, <1>3, <1>4, DeclaredThere DEF DefInv

(* Every step keeps the pipeline and its DAG as they were declared.        *)
LEMMA DefStep == DefInv /\ [DefNext]_defVars => DefInv'
<1> SUFFICES ASSUME DefInv, [DefNext]_defVars PROVE DefInv'
  OBVIOUS
<1>1. CASE RegisterDefinition
  <2>1. Declared' = Declared /\ NewPipeline(request)' = NewPipeline(request)
    BY <1>1 DEF RegisterDefinition, Declared
  <2>2. dag = Absent /\ built = Absent /\ phase = "new" /\ built' = built
    BY <1>1 DEF RegisterDefinition, DefInv
  <2>3. dag' \in {Declared, Absent} /\ (dag' # Absent => Valid(NewPipeline(request)))
    BY <1>1, <2>2 DEF RegisterDefinition, Declared
  <2>4. phase' # "new" /\ (phase' = "registered" => stored' = NewPipeline(request) /\ Valid(stored)')
    BY <1>1 DEF RegisterDefinition
  <2>5. request' = request /\ state' = state
    BY <1>1 DEF RegisterDefinition
  <2>6. QED BY <2>1, <2>2, <2>3, <2>4, <2>5, DeclaredThere DEF DefInv
<1>2. ASSUME NEW pending \in BOOLEAN, Scheduled(pending) PROVE DefInv'
  <2>1. dag.there /\ dag = Declared /\ Valid(NewPipeline(request)) /\ phase # "new"
    BY <1>2, DeclaredThere DEF Scheduled, DefInv
  <2>2. QED BY <1>2, <2>1, RunsTheDeclaration DEF Scheduled
<1>3. ASSUME NEW override \in BOOLEAN, NEW pending \in BOOLEAN, Triggered(override, pending)
      PROVE  DefInv'
  <2>1. NewDag(Reloaded(stored)) = Declared /\ Valid(NewPipeline(request)) /\ phase # "new"
    BY <1>3, ReloadedIsStored DEF Triggered, DefInv, Declared
  <2>2. QED BY <1>3, <2>1, RunsTheDeclaration DEF Triggered
<1>4. CASE Succeeds
  <2>1. Declared' = Declared /\ NewPipeline(request)' = NewPipeline(request)
    BY <1>4 DEF Succeeds, Declared
  <2>2. dag = Declared
    BY <1>4 DEF Succeeds, DefInv
  <2>3. state' = state \/ state'.type = Declared.type
    <3>1. state' = state \/ \E n : state' = [type |-> dag.type, n |-> n]
      BY <1>4 DEF Succeeds
    <3>2. \A n : [type |-> dag.type, n |-> n].type = dag.type
      OBVIOUS
    <3>3. QED BY <2>2, <3>1, <3>2
  <2>4. built' = Absent /\ UNCHANGED <<request, phase, stored, dag>>
    BY <1>4 DEF Succeeds
  <2>5. QED BY <2>1, <2>3, <2>4, DeclaredThere DEF DefInv
<1>5. CASE UNCHANGED defVars
  <2>1. UNCHANGED <<request, phase, stored, dag, state, built>>
    BY <1>5 DEF defVars
  <2>2. Declared' = Declared /\ NewPipeline(request)' = NewPipeline(request)
    BY <2>1 DEF Declared
  <2>3. QED BY <2>1, <2>2 DEF DefInv, BuiltFits, MarkFits
<1>6. QED BY <1>1, <1>2, <1>3, <1>4, <1>5 DEF DefNext

(* The invariant holds in every state.                                     *)
LEMMA DefInvariant == DefSpec => []DefInv
BY DefStarts, DefStep, PTL DEF DefSpec

(* Whatever requests there are: the DAG that a trigger renders from the    *)
(* stored row is the DAG that the registration rendered from the request,  *)
(* because normalising twice, storing, loading and writing YAML are one    *)
(* normalisation (PipelineNormalizer, the repository, the DAG generator).  *)
THEOREM RegenerationAgrees == DefSpec => []RegeneratedDagsAgree
<1>1. DefInv => RegeneratedDagsAgree
  BY DEF DefInv, RegeneratedDagsAgree, Declared
<1>2. QED BY <1>1, DefInvariant, PTL

-----------------------------------------------------------------------------
(* What the DAG holds of the request.                                      *)

(* What the DAG holds is what was normalised, without its empty texts.     *)
LEMMA DeclaredShape ==
  LET p == NewPipeline(request)
      o == First(Declared.objects)
  IN  /\ Declared.engine = p.engine
      /\ Declared.config = Filled(p.compute)
      /\ Declared.objects = [i \in DOMAIN p.objects |-> Filled(p.objects[i])]
      /\ Declared.incremental = Incremental(o)
      /\ Declared.type = Or(Get(o, "watermark_type"), "timestamp")
<1> DEFINE p == NewPipeline(request)
           y == Yaml(p)
<1>1. /\ y.engine = p.engine /\ y.config = Filled(p.compute)
      /\ y.objects = [i \in DOMAIN p.objects |-> Filled(p.objects[i])]
  BY DEF Yaml
<1>2. Filled(NormalizeCompute(<<>>, Filled(p.compute))) = Filled(p.compute)
  BY ComputeAgain DEF NewPipeline
<1> HIDE DEF p, y
<1>3. /\ Dag(y).engine = y.engine
      /\ Dag(y).config = Filled(NormalizeCompute(<<>>, y.config))
      /\ Dag(y).objects = y.objects
      /\ Dag(y).incremental = Incremental(First(y.objects))
      /\ Dag(y).type = Or(Get(First(y.objects), "watermark_type"), "timestamp")
  BY DEF Dag
<1>4. QED BY <1>1, <1>2, <1>3 DEF p, y, Declared, NewDag

(* The DAG's compute texts are those of the request, "None" for one that   *)
(* the portal leaves out.                                                  *)
LEMMA ConfigIsSaid ==
  ASSUME request \in Request, NEW k \in Texts
  PROVE  Get(Declared.config, k) = Said(k)
<1> DEFINE raw == RawCompute(request)
           config == IF request.origin = "bare" THEN <<>> ELSE request.config
           both == [j \in DOMAIN raw \cup DOMAIN config |->
                      IF j \in DOMAIN raw THEN raw[j] ELSE config[j]]
<1>1. Get(Declared.config, k) = NormalizeCompute(raw, config)[k]
  <2>1. Declared.config = Filled(NormalizeCompute(raw, config))
    BY DeclaredShape DEF NewPipeline
  <2>2. Get(NormalizeCompute(raw, config), k) = NormalizeCompute(raw, config)[k]
    BY ComputeShape DEF Get
  <2>3. QED BY <2>1, <2>2, FilledKeeps
<1>2. NormalizeCompute(raw, config)[k] = IF Get(both, k) = Null THEN "None" ELSE Get(both, k)
  BY DEF NormalizeCompute
<1>3. NormalizeCompute(raw, config)[k] = Said(k)
  <2>1. CASE request.origin = "bare"
    <3>1. DOMAIN raw = {} /\ DOMAIN config = {}
      BY <2>1 DEF RawCompute
    <3>2. DOMAIN request.compute = {} /\ DOMAIN request.config = {}
      BY <2>1, RequestsAreTyped
    <3>3. DOMAIN both = {}
      BY <3>1
    <3> HIDE DEF both
    <3>4. Get(both, k) = "" /\ Said(k) = ""
      BY <2>1, <3>2, <3>3 DEF Get, Said
    <3>5. QED BY <1>2, <3>4 DEF Null
  <2>2. CASE request.origin = "portal"
    <3>1. raw = [j \in Texts |-> IF j \in DOMAIN request.compute THEN request.compute[j] ELSE Null]
      BY <2>2 DEF RawCompute
    <3>2. k \in DOMAIN both
          /\ both[k] = IF k \in DOMAIN request.compute THEN request.compute[k] ELSE Null
      BY <3>1
    <3> HIDE DEF both, raw, config
    <3>3. Get(both, k) = IF k \in DOMAIN request.compute THEN request.compute[k] ELSE Null
      BY <3>2 DEF Get
    <3>4. k \in DOMAIN request.compute => request.compute[k] # Null
      BY RequestsAreTyped DEF Null
    <3>5. QED BY <1>2, <2>2, <3>3, <3>4 DEF Said
  <2>3. CASE request.origin \notin {"portal", "bare"}
    <3>1. raw = request.compute /\ config = request.config
      BY <2>3 DEF RawCompute
    <3>2. Get(both, k) = Said(k)
      BY <2>3, <3>1 DEF Get, Said
    <3>3. Said(k) # Null
      BY <2>3, RequestsAreTyped DEF Said, Get, Null
    <3>4. QED BY <1>2, <3>2, <3>3
  <2>4. QED BY <2>1, <2>2, <2>3
<1>4. QED BY <1>1, <1>3

(* The DAG's first object is that of the request.                          *)
LEMMA FirstIsSaid ==
  ASSUME request \in Request
  PROVE  /\ \A key \in ObjectKeys \ {"load_strategy"} :
              Get(First(Declared.objects), key) = SaidOf(key)
         /\ Declared.incremental = Incremental(First(request.objects))
         /\ Declared.type = Or(SaidOf("watermark_type"), "timestamp")
         /\ Valid(NewPipeline(request)) /\ Declared.incremental =>
              SaidOf("watermark_column") # "" /\ SaidOf("watermark_type") # ""
<1> DEFINE p == NewPipeline(request)
           n == Len(request.objects)
<1>1. /\ DOMAIN request.objects = 1 .. n /\ n \in Nat
      /\ n = 0 => request.objects = <<>>
  <2>1. request.objects \in Seq(Range(request.objects))
    BY RequestsAreTyped
  <2>2. QED BY <2>1
<1>2. p.objects = [i \in 1 .. n |-> NormalizeObject(request.objects[i])]
  BY <1>1 DEF NewPipeline, NormalizeExtraction
<1> HIDE DEF p
<1>3. Declared.objects = [i \in 1 .. n |-> Filled(p.objects[i])]
  <2>1. DOMAIN p.objects = 1 .. n
    BY <1>2
  <2>2. Declared.objects = [i \in DOMAIN p.objects |-> Filled(p.objects[i])]
    BY DeclaredShape DEF p
  <2>3. QED BY <2>1, <2>2
<1>4. CASE request.objects = <<>>
  <2>1. n = 0
    BY <1>4
  <2>2. Declared.objects = <<>>
    BY <1>3, <2>1
  <2>3. First(Declared.objects) = NoObject /\ First(request.objects) = NoObject
    BY <1>4, <2>2 DEF First
  <2>4. ~Incremental(NoObject)
    BY DEF Incremental, NoObject, Get
  <2>5. QED BY <2>3, <2>4, DeclaredShape DEF SaidOf
<1>5. CASE request.objects # <<>>
  <2> DEFINE o == request.objects[1]
             q == NormalizeObject(o)
  <2>1. n # 0
    BY <1>1, <1>5
  <2>2. 1 \in 1 .. n
    BY <1>1, <2>1
  <2>3. Declared.objects # <<>> /\ Declared.objects[1] = Filled(q)
    BY <1>2, <1>3, <2>2
  <2>4. First(Declared.objects) = Filled(q) /\ First(request.objects) = o
    BY <1>5, <2>3 DEF First
  <2>5. \A key \in ObjectKeys : Get(First(Declared.objects), key) = q[key]
    <3>1. \A key \in ObjectKeys : Get(q, key) = q[key]
      BY ObjectShape DEF Get
    <3>2. QED BY <2>4, <3>1, FilledKeeps
  <2>6. \A key \in ObjectKeys \ {"load_strategy"} : q[key] = Get(o, key)
    BY ObjectShape
  <2>7. q["load_strategy"] = Or(Get(o, "load_strategy"), "full_load")
    BY ObjectShape
  <2> HIDE DEF q
  <2>8. "load_strategy" \in ObjectKeys
    BY DEF ObjectKeys
  <2>9. Incremental(First(Declared.objects)) = Incremental(o)
    BY <2>5, <2>7, <2>8 DEF Incremental, Or
  <2>10. ASSUME Valid(p), Declared.incremental
         PROVE  SaidOf("watermark_column") # "" /\ SaidOf("watermark_type") # ""
    <3>1. p.objects[1] = q /\ 1 \in DOMAIN p.objects
      BY <1>2, <2>2 DEF q
    <3>2. DOMAIN q = ObjectKeys
      BY ObjectShape DEF q
    <3>3. Incremental(q)
      BY <2>5, <2>8, <2>10, <3>2, DeclaredShape DEF Incremental, Get
    <3>4. "" \notin {q.watermark_column, q.watermark_type}
      BY <2>10, <3>1, <3>3 DEF Valid
    <3>5. q.watermark_column = Get(o, "watermark_column") /\ q.watermark_type = Get(o, "watermark_type")
      BY <2>6 DEF ObjectKeys
    <3>6. QED BY <2>4, <3>4, <3>5 DEF SaidOf
  <2>11. "watermark_type" \in ObjectKeys \ {"load_strategy"}
    BY DEF ObjectKeys
  <2>12. QED BY <2>4, <2>5, <2>6, <2>9, <2>10, <2>11, DeclaredShape DEF SaidOf, p
<1>6. QED BY <1>4, <1>5

-----------------------------------------------------------------------------
(* The engines.  A target reads what the request says.                     *)

(* An engine's target holds what the request says.                         *)
SaidTarget(t, default) ==
  /\ t.source = Or(Said("source_type"), default)
  /\ t.object = SaidOf("object_name") /\ t.credential = OwnCredential
  /\ t.query = SaidOf("extraction_query") /\ t.column = SaidOf("watermark_column")

(* A target made from the DAG's two sections is what the request says.     *)
LEMMA TargetIsSaid ==
  ASSUME request \in Request, NEW default
  PROVE  SaidTarget(Target(Declared.config, Declared.objects, default), default)
<1>1. /\ {"source_type", "credential_ref"} \subseteq Texts
      /\ {"object_name", "credential_ref", "extraction_query", "watermark_column"}
           \subseteq ObjectKeys \ {"load_strategy"}
  BY DEF Texts, ObjectKeys
<1>2. /\ Get(Declared.config, "source_type") = Said("source_type")
      /\ Get(Declared.config, "credential_ref") = Said("credential_ref")
  BY <1>1, ConfigIsSaid
<1> DEFINE o == First(Declared.objects)
<1>3. /\ Get(o, "object_name") = SaidOf("object_name")
      /\ Get(o, "credential_ref") = SaidOf("credential_ref")
      /\ Get(o, "extraction_query") = SaidOf("extraction_query")
      /\ Get(o, "watermark_column") = SaidOf("watermark_column")
  BY <1>1, FirstIsSaid
<1> HIDE DEF o
<1>4. QED BY <1>2, <1>3 DEF Target, SaidTarget, OwnCredential, o

(* A job keeps to the declaration: it reads what is declared, or is        *)
(* refused for what the declaration lacks.                                 *)
Keeps(job, mark) ==
  /\ job.reads # "nothing" => ReadsTheObject(job) /\ AboveTheMark(job, mark)
  /\ RefusalIsDeserved(job.causes)

(* A refusal reads nothing: only its causes count.                         *)
LEMMA RefusalKeeps ==
  ASSUME NEW causes, NEW mark, RefusalIsDeserved(causes)
  PROVE  Keeps(Refusal(causes), mark)
BY DEF Keeps, Refusal

(* Causes that do not lie in the declaration's texts.                      *)
LEMMA UndisputedRefusals ==
  ASSUME NEW causes, {"source type", "format", "secret"} \cap causes = {}
  PROVE  RefusalIsDeserved(causes)
BY DEF RefusalIsDeserved

(* A job that is refused or is the one that reads keeps to the request.    *)
LEMMA JobFromKeeps ==
  ASSUME NEW causes, NEW job, NEW mark, RefusalIsDeserved(causes),
         causes = {} => Keeps(job, mark)
  PROVE  Keeps(JobFrom(causes, job), mark)
BY RefusalKeeps DEF JobFrom

(* No problem was found, so there is none.                                 *)
LEMMA MarkHeld == ASSUME NEW b, Holding([mark |-> b]) = {} PROVE ~b
<1>1. [mark |-> b].mark = b /\ "mark" \in DOMAIN [mark |-> b]
  OBVIOUS
<1>2. QED BY <1>1 DEF Holding

(* A manifest keeps to the declaration whatever the rest of it holds.      *)
LEMMA ManifestKeeps ==
  ASSUME NEW reads, NEW object, NEW credential, NEW above, NEW block, NEW mark,
         Runs("omnibeam"),
         object = IF reads # "resource" THEN SaidOf("object_name")
                  ELSE IF Said("endpoint") # "" THEN Said("endpoint")
                  ELSE ResourcePath(SaidOf("object_name")),
         credential = OwnCredential \/ (Said("credential_ref") = "" /\ credential = ""),
         above = mark \/ (above = NoMark /\ reads = "collection")
  PROVE  Keeps(Manifest(reads, object, credential, above, block), mark)
<1> DEFINE job == Manifest(reads, object, credential, above, block)
<1>1. /\ job.causes = {} /\ job.reads = reads /\ job.object = object
      /\ job.credential = credential /\ job.query = "" /\ job.above = above
  BY DEF Manifest
<1> HIDE DEF job
<1>2. ReadsTheObject(job)
  BY <1>1 DEF ReadsTheObject
<1>3. AboveTheMark(job, mark)
  BY <1>1 DEF AboveTheMark
<1>4. RefusalIsDeserved(job.causes)
  BY <1>1 DEF RefusalIsDeserved
<1>5. QED BY <1>2, <1>3, <1>4 DEF Keeps, job

(* Each engine's job keeps to the declaration.                             *)
LEMMA OmniBeamKeeps ==
  ASSUME request \in Request, Runs("omnibeam"), NEW mark, NEW pending \in BOOLEAN
  PROVE  Keeps(OmniBeamJob(Declared.config, Declared.objects, mark, pending), mark)
<1> DEFINE config == Declared.config
           t == Target(config, Declared.objects, "")
           creds == IF t.credential \in DOMAIN Secret THEN Secret[t.credential] ELSE NoSecret
           source == IF t.source = "database" /\ {Get(config, "driver"), creds.driver} \cap Mongo # {}
                     THEN "mongodb" ELSE t.source
           job == OmniBeamJob(config, Declared.objects, mark, pending)
<1>1. SaidTarget(t, "")
  BY TargetIsSaid
<1>2. /\ Get(config, "source_type") = Said("source_type")
      /\ Get(config, "credential_ref") = Said("credential_ref")
      /\ Get(config, "endpoint") = Said("endpoint")
      /\ Get(config, "format") = Said("format")
  BY ConfigIsSaid DEF Texts
<1>3. job = IF Get(config, "source_type") = "storage" /\ ~pending
            THEN [Refusal({}) EXCEPT !.object = t.object]
            ELSE IF t.credential \notin NoCredential \cup DOMAIN Secret THEN Refusal({"secret"})
            ELSE CASE source = "database" -> DatabaseSource(config, t, creds, mark)
                   [] source = "mongodb" -> MongoSource(config, t, creds)
                   [] source = "rest_api" -> RestSource(config, t, creds, mark)
                   [] source = "storage" -> StorageSource(config, t, mark)
                   [] OTHER -> Refusal({"source type"})
  BY DEF OmniBeamJob
<1>4. source \notin {"database", "mongodb", "rest_api", "storage"} =>
        Said("source_type") \notin {"database", "mongodb", "rest_api", "storage"}
  BY <1>1 DEF SaidTarget, Or
<1> HIDE DEF config, t, creds, source, job
<1>5. \A complete \in BOOLEAN :
        LET credential == Handed(config, t, complete)
        IN  credential = OwnCredential \/ (Said("credential_ref") = "" /\ credential = "")
  BY <1>1, <1>2 DEF SaidTarget, Handed, OwnCredential, Or
<1> SUFFICES Keeps(job, mark)
  BY DEF job, config
<1>6. CASE job = [Refusal({}) EXCEPT !.object = t.object]
  <2>1. job.reads = "nothing" /\ job.causes = {}
    BY <1>6 DEF Refusal
  <2>2. QED BY <2>1 DEF Keeps, RefusalIsDeserved
<1>7. CASE job = Refusal({"secret"}) /\ t.credential \notin NoCredential \cup DOMAIN Secret
  <2>1. OwnCredential # "" /\ OwnCredential \notin DOMAIN Secret
    BY <1>1, <1>7 DEF SaidTarget, NoCredential
  <2>2. RefusalIsDeserved({"secret"})
    BY <2>1 DEF RefusalIsDeserved, Or
  <2>3. QED BY <1>7, <2>2, RefusalKeeps
<1>8. CASE job = DatabaseSource(config, t, creds, mark)
  <2> DEFINE lacks == DatabaseLacks(t, creds)
                        \cup Holding([driver |-> creds.driver \notin OmniBeamDrivers,
                                     column |-> mark # NoMark /\ Invalid(t.column)])
  <2>1. RefusalIsDeserved(lacks)
    <3>1. DatabaseLacks(t, creds) \subseteq {"object", "driver", "database"}
      BY DEF DatabaseLacks, Holding
    <3>2. Holding([driver |-> creds.driver \notin OmniBeamDrivers,
                   column |-> mark # NoMark /\ Invalid(t.column)]) \subseteq {"driver", "column"}
      BY DEF Holding
    <3>3. {"source type", "format", "secret"} \cap lacks = {}
      BY <3>1, <3>2
    <3>4. QED BY <3>3, UndisputedRefusals
  <2>2. creds.uri \in BOOLEAN
    BY SecretsAreTyped DEF creds, NoSecret, Payload
  <2>3. Keeps(TableManifest(config, t, creds, mark), mark)
    BY <1>1, <1>5, <2>2, ManifestKeeps DEF TableManifest, SaidTarget
  <2>4. job = JobFrom(lacks, TableManifest(config, t, creds, mark))
    BY <1>8 DEF DatabaseSource
  <2> HIDE DEF lacks
  <2>5. QED BY <2>1, <2>3, <2>4, JobFromKeeps
<1>9. CASE job = MongoSource(config, t, creds)
  <2>1. MongoLacks(t, creds) \subseteq {"object", "database"}
    BY DEF MongoLacks, Holding
  <2>2. RefusalIsDeserved(MongoLacks(t, creds))
    BY <2>1, UndisputedRefusals
  <2>3. creds.uri \in BOOLEAN
    BY SecretsAreTyped DEF creds, NoSecret, Payload
  <2>4. Keeps(CollectionManifest(config, t, creds), mark)
    BY <1>1, <1>5, <2>3, ManifestKeeps DEF CollectionManifest, SaidTarget
  <2>5. QED BY <1>9, <2>2, <2>4, JobFromKeeps DEF MongoSource
<1>10. CASE job = RestSource(config, t, creds, mark)
  <2> DEFINE lacks == Holding([base_url |-> ~creds.base_url, object |-> Endpoint(config, t) = "",
                               auth |-> AuthType(creds) \notin {""} \cup OmniBeamAuth])
  <2>1. lacks \subseteq {"base_url", "object", "auth"}
    BY DEF Holding
  <2>2. RefusalIsDeserved(lacks)
    BY <2>1, UndisputedRefusals
  <2>3. Endpoint(config, t) = IF Said("endpoint") # "" THEN Said("endpoint")
                              ELSE ResourcePath(SaidOf("object_name"))
    BY <1>1, <1>2 DEF Endpoint, Or, SaidTarget
  <2>4. Keeps(ResourceManifest(config, t, creds, mark), mark)
    BY <1>5, <2>3, ManifestKeeps DEF ResourceManifest
  <2>5. job = JobFrom(lacks, ResourceManifest(config, t, creds, mark))
    BY <1>10 DEF RestSource
  <2> HIDE DEF lacks
  <2>6. QED BY <2>2, <2>4, <2>5, JobFromKeeps
<1>11. CASE job = StorageSource(config, t, mark)
  <2> DEFINE lacks == Holding([mark |-> mark # NoMark]) \cup FilesLack(config)
  <2>1. RefusalIsDeserved(lacks)
    <3>1. Holding([mark |-> mark # NoMark]) \subseteq {"mark"}
      BY DEF Holding
    <3>2. FilesLack(config) \subseteq {"format"}
      BY DEF FilesLack, Holding
    <3>3. "format" \in FilesLack(config) => Said("format") \notin OmniBeamFormats
      BY <1>2 DEF FilesLack, Holding
    <3>4. QED BY <3>1, <3>2, <3>3 DEF RefusalIsDeserved
  <2>2. lacks = {} => mark = NoMark
    BY MarkHeld
  <2>3. mark = NoMark => Keeps(FilesManifest(t), mark)
    BY <1>1, ManifestKeeps DEF FilesManifest, SaidTarget
  <2>4. job = JobFrom(lacks, FilesManifest(t))
    BY <1>11 DEF StorageSource
  <2> HIDE DEF lacks
  <2>5. QED BY <2>1, <2>2, <2>3, <2>4, JobFromKeeps
<1>12. CASE job = Refusal({"source type"})
            /\ source \notin {"database", "mongodb", "rest_api", "storage"}
  <2>1. RefusalIsDeserved({"source type"})
    BY <1>4, <1>12 DEF RefusalIsDeserved
  <2>2. QED BY <1>12, <2>1, RefusalKeeps
<1>13. QED BY <1>3, <1>6, <1>7, <1>8, <1>9, <1>10, <1>11, <1>12

(* Only a declaration with a watermark column has a watermark.             *)
HasColumn(mark) == mark # NoMark => SaidOf("watermark_column") # ""

(* The first object's query, if it has one, is of a known form.            *)
LEMMA QueriesAreKnown ==
  ASSUME request \in Request PROVE SaidOf("extraction_query") \in {"", "plain", "marked"}
<1>1. CASE request.objects = <<>>
  BY <1>1 DEF SaidOf, First, NoObject, Get
<1>2. CASE request.objects # <<>>
  <2>1. request.objects \in Seq(Range(request.objects))
    BY RequestsAreTyped
  <2>2. 1 \in DOMAIN request.objects
    BY <1>2, <2>1
  <2>3. QED BY <1>2, <2>2, RequestsAreTyped DEF SaidOf, First
<1>3. QED BY <1>1, <1>2

(* The DuckDB job reads what was declared.                                 *)
LEMMA DuckDBKeeps ==
  ASSUME request \in Request, Runs("duckdb"), NEW mark, HasColumn(mark)
  PROVE  Keeps(DuckDBJob(Declared.config, Declared.objects, mark), mark)
<1> DEFINE t == Target(Declared.config, Declared.objects, "database")
           ref == Or(t.credential, DefaultRef)
           creds == IF ref \in DOMAIN Secret THEN Secret[ref] ELSE NoSecret
           asked == IF t.query = "" THEN t.column # "" ELSE t.query = "marked"
           lacks == Holding([object |-> t.object = "" /\ t.query = "",
                             secret |-> ref \notin DOMAIN Secret,
                             unbound |-> creds.driver = "mongodb" \/ ref \in MongoRefs,
                             database |-> ~(creds.database /\ creds.uri),
                             column |-> t.query = "" /\ Invalid(t.column),
                             value |-> Unbound(t.query, mark)])
           job == [causes |-> {}, reads |-> "table", object |-> t.object, credential |-> ref,
                   query |-> t.query, above |-> IF asked THEN mark ELSE NoMark, block |-> FALSE]
<1>1. DuckDBJob(Declared.config, Declared.objects, mark) = JobFrom(lacks, job)
  BY DEF DuckDBJob
<1>2. SaidTarget(t, "database")
  BY TargetIsSaid
<1>3. lacks \subseteq {"object", "secret", "unbound", "database", "column", "value"}
  BY DEF Holding
<1>4. "secret" \in lacks => ref \notin DOMAIN Secret
  BY DEF Holding
<1>5. /\ job.causes = {} /\ job.reads = "table" /\ job.object = t.object
      /\ job.credential = ref /\ job.query = t.query
      /\ job.above = IF asked THEN mark ELSE NoMark
  OBVIOUS
<1> HIDE DEF t, lacks, job, creds
<1>6. ref = Or(OwnCredential, DefaultRef)
  BY <1>2 DEF SaidTarget
<1>7. RefusalIsDeserved(lacks)
  BY <1>3, <1>4, <1>6 DEF RefusalIsDeserved
<1>8. ReadsTheObject(job)
  <2>1. ~Runs("omnibeam")
    BY DEF Runs
  <2>2. job.credential = OwnCredential \/ (OwnCredential = "" /\ job.credential = DefaultRef)
    BY <1>5, <1>6 DEF Or
  <2>3. job.query = SaidOf("extraction_query") /\ job.object = SaidOf("object_name")
    BY <1>2, <1>5 DEF SaidTarget
  <2>4. QED BY <1>5, <2>1, <2>2, <2>3 DEF ReadsTheObject
<1>9. AboveTheMark(job, mark)
  <2>1. t.query \in {"", "plain", "marked"} /\ HasColumn(mark) /\ t.column = SaidOf("watermark_column")
    BY <1>2, QueriesAreKnown DEF SaidTarget
  <2>2. QED BY <1>5, <2>1 DEF AboveTheMark, HasColumn
<1>10. Keeps(job, mark)
  BY <1>5, <1>8, <1>9 DEF Keeps, RefusalIsDeserved
<1>11. QED BY <1>1, <1>7, <1>10, JobFromKeeps

(* A REST job with nothing to refuse asks for its watermark column.        *)
LEMMA PlaceholderHeld ==
  ASSUME NEW a, NEW b, NEW c, NEW d,
         Holding([secret |-> a, base_url |-> b, placeholder |-> c, value |-> d]) = {}
  PROVE  ~c
<1> DEFINE f == [secret |-> a, base_url |-> b, placeholder |-> c, value |-> d]
<1>1. f.placeholder = c /\ "placeholder" \in DOMAIN f
  OBVIOUS
<1> HIDE DEF f
<1>2. Holding(f) = {}
  BY DEF f
<1>3. QED BY <1>1, <1>2 DEF Holding

(* The REST job reads what was declared.                                   *)
LEMMA RestKeeps ==
  ASSUME request \in Request, Runs("rest_api"), NEW mark, HasColumn(mark)
  PROVE  Keeps(RestJob(Declared.config, Declared.objects, mark), mark)
<1> DEFINE t == Target(Declared.config, Declared.objects, "rest_api")
           creds == IF t.credential \in DOMAIN Secret THEN Secret[t.credential] ELSE NoSecret
           lacks == Holding([secret |-> t.credential \notin DOMAIN Secret,
                             base_url |-> ~creds.base_url,
                             placeholder |-> t.column # "" /\ t.query # "marked",
                             value |-> Unbound(t.query, mark)])
           job == [causes |-> {}, reads |-> "resource", object |-> ResourcePath(t.object),
                   credential |-> t.credential, query |-> t.query,
                   above |-> IF t.query = "marked" THEN mark ELSE NoMark, block |-> FALSE]
<1>1. RestJob(Declared.config, Declared.objects, mark) = JobFrom(lacks, job)
  BY DEF RestJob
<1>2. SaidTarget(t, "rest_api")
  BY TargetIsSaid
<1>3. lacks \subseteq {"secret", "base_url", "placeholder", "value"}
  BY DEF Holding
<1>4. "secret" \in lacks => t.credential \notin DOMAIN Secret
  BY DEF Holding
<1>5. lacks = {} => ~(t.column # "" /\ t.query # "marked")
  BY PlaceholderHeld
<1>6. /\ job.causes = {} /\ job.reads = "resource" /\ job.object = ResourcePath(t.object)
      /\ job.credential = t.credential /\ job.query = t.query
      /\ job.above = IF t.query = "marked" THEN mark ELSE NoMark
  OBVIOUS
<1> HIDE DEF t, lacks, job, creds
<1>7. RefusalIsDeserved(lacks)
  BY <1>2, <1>3, <1>4 DEF RefusalIsDeserved, SaidTarget, Or
<1>8. ReadsTheObject(job)
  <2>1. ~Runs("omnibeam")
    BY DEF Runs
  <2>2. QED BY <1>2, <1>6, <2>1 DEF ReadsTheObject, SaidTarget
<1>9. lacks = {} => AboveTheMark(job, mark)
  BY <1>2, <1>5, <1>6 DEF AboveTheMark, HasColumn, SaidTarget
<1>10. lacks = {} => Keeps(job, mark)
  BY <1>6, <1>8, <1>9 DEF Keeps, RefusalIsDeserved
<1>11. QED BY <1>1, <1>7, <1>10, JobFromKeeps

(* So does the job under way.                                              *)
LEMMA BuiltKeeps ==
  ASSUME DefInv, built.there
  PROVE  Keeps(built.job, built.mark) /\ MarkIsDeclared(built.mark)
<1>1. PICK mark : \E pending \in BOOLEAN :
                    MarkFits(mark) /\ built = Submitted(Declared, mark, pending)
  BY DEF DefInv, BuiltFits
<1>2. PICK pending \in BOOLEAN : MarkFits(mark) /\ built = Submitted(Declared, mark, pending)
  BY <1>1
<1>3. dag = Declared /\ request \in Request /\ Valid(NewPipeline(request))
  BY DEF DefInv
<1> DEFINE name == IF Declared.engine = "default" THEN DefaultEngine ELSE Declared.engine
           job == EngineJob(name, Declared.config, Declared.objects, mark, pending)
<1>4. built.mark = mark /\ built.job = job
  BY <1>2 DEF Submitted
<1>5. MarkIsDeclared(mark) /\ HasColumn(mark)
  <2>1. CASE mark = NoMark
    BY <2>1 DEF MarkIsDeclared, HasColumn
  <2>2. CASE Declared.incremental /\ mark.type = Declared.type
    BY <1>3, <2>2, FirstIsSaid DEF MarkIsDeclared, HasColumn, Or
  <2>3. QED BY <1>2, <2>1, <2>2 DEF MarkFits
<1>6. \A n : Runs(n) <=> n = name
  BY <1>3 DEF Runs
<1>7. Keeps(job, mark)
  <2>1. CASE name = "omnibeam"
    <3>1. job = OmniBeamJob(Declared.config, Declared.objects, mark, pending)
      BY <2>1 DEF EngineJob
    <3> HIDE DEF job
    <3>2. QED BY <1>3, <1>6, <2>1, <3>1, OmniBeamKeeps
  <2>2. CASE name = "duckdb"
    <3>1. job = DuckDBJob(Declared.config, Declared.objects, mark)
      BY <2>2 DEF EngineJob
    <3> HIDE DEF job
    <3>2. QED BY <1>3, <1>5, <1>6, <2>2, <3>1, DuckDBKeeps
  <2>3. CASE name = "rest_api"
    <3>1. job = RestJob(Declared.config, Declared.objects, mark)
      BY <2>3 DEF EngineJob
    <3> HIDE DEF job
    <3>2. QED BY <1>3, <1>5, <1>6, <2>3, <3>1, RestKeeps
  <2>4. CASE name \notin {"omnibeam", "duckdb", "rest_api"}
    <3>1. job = Refusal({"engine"})
      BY <2>4 DEF EngineJob
    <3> HIDE DEF job
    <3>2. RefusalIsDeserved({"engine"})
      BY DEF RefusalIsDeserved
    <3>3. QED BY <3>1, <3>2, RefusalKeeps
  <2>5. QED BY <2>1, <2>2, <2>3, <2>4
<1>8. QED BY <1>4, <1>5, <1>7

(* Whatever requests and secrets there are: the job an engine runs reads   *)
(* the declared object, with the declared credential and query and above   *)
(* the run's watermark, which has the declared type, and is refused for    *)
(* source type, format or credential only because of what is declared (the *)
(* REST, DuckDB and OmniBeam adapters).  A text that the portal leaves out *)
(* is declared as "None".  Of an OmniBeam job nothing is claimed about its *)
(* query or a collection's watermark, and its credential may be none when  *)
(* the compute section names none; a plain query of one's own is read      *)
(* without the watermark.                                                  *)
THEOREM JobsReadTheDeclaration == DefSpec => []JobReadsDeclaration
<1>1. DefInv => JobReadsDeclaration
  <2> SUFFICES ASSUME DefInv, built.there
               PROVE  /\ built.job.reads # "nothing" =>
                           ReadsTheObject(built.job) /\ AboveTheMark(built.job, built.mark)
                      /\ MarkIsDeclared(built.mark)
                      /\ RefusalIsDeserved(built.job.causes)
    BY DEF JobReadsDeclaration
  <2>1. QED BY BuiltKeeps DEF Keeps
<1>2. QED BY <1>1, DefInvariant, PTL
=============================================================================
