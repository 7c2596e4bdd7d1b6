------------------------- MODULE IngestionDagProofs -------------------------
(***************************************************************************)
(* Proofs about IngestionDag, for every number of items, runs and          *)
(* attempts, every engine and every set of bad items: the types, and that  *)
(* no watermark, record or failed rule ever leaves data lost or bad data   *)
(* loaded.                                                                 *)
(***************************************************************************)
EXTENDS IngestionDag, WellFoundedInduction, TLAPS

-----------------------------------------------------------------------------
(* Lemmas about the operators of the model.                                *)

(* A bounded, nonempty set of naturals has a greatest element.             *)
LEMMA Greatest ==
  ASSUME NEW S \in SUBSET Nat, NEW n \in Nat, S # {}, \A s \in S : s <= n
  PROVE  \E m \in S : \A k \in S : k <= m
<1> DEFINE T == {n - s : s \in S}
<1>1. T \subseteq Nat
  OBVIOUS
<1>2. T # {}
  <2>1. PICK s \in S : TRUE
    OBVIOUS
  <2>2. n - s \in T
    BY <2>1
  <2>3. QED
    BY <2>2
<1>3. PICK x \in T : \A y \in T : ~(<<y, x>> \in OpToRel(<, Nat))
  <2> HIDE DEF T
  <2>1. QED
    BY <1>1, <1>2, WFMin, NatLessThanWellFounded
<1>4. \A y \in T : ~(y < x)
  BY <1>1, <1>3 DEF OpToRel
<1>5. PICK s \in S : x = n - s
  OBVIOUS
<1>6. ASSUME NEW k \in S PROVE k <= s
  <2>1. n - k \in T
    OBVIOUS
  <2>2. ~(n - k < n - s)
    BY <2>1, <1>4, <1>5
  <2>3. QED
    BY <2>2
<1>7. QED
  BY <1>6

(* The tasks, written out.                                                 *)
LEMMA Tasks ==
  Task = {"preFlight", "resolveWatermark", "resolveFiles", "submit", "monitor",
          "validateCompute", "readMetrics", "qualityGate", "load", "postLoad",
          "lineage", "emit", "end"}
BY DEF Task, Chain

(* The order of the tasks, which the template wires.                       *)
LEMMA Successors ==
  /\ After["preFlight"] = "resolveWatermark"
  /\ After["resolveWatermark"] = "resolveFiles"
  /\ After["resolveFiles"] = "submit"
  /\ After["submit"] = "monitor"
  /\ After["monitor"] = "validateCompute"
  /\ After["validateCompute"] = "readMetrics"
  /\ After["readMetrics"] = "qualityGate"
  /\ After["qualityGate"] = "load"
  /\ After["load"] = "postLoad"
  /\ After["postLoad"] = "lineage"
  /\ After["lineage"] = "emit"
  /\ After["emit"] = "end"
BY DEF After, Task, Chain

(* Of a set of rows one belongs to the latest run.                         *)
LEMMA LatestRow ==
  ASSUME NEW S \in SUBSET Row, S # {}
  PROVE  LET m == CHOOSE r \in S : \A s \in S : s.run <= r.run
         IN  m \in S /\ \A s \in S : s.run <= m.run
<1> DEFINE T == {r.run : r \in S}
<1>1. \A r \in S : r.run \in Nat /\ r.run <= MaxRuns
  BY BoundAssumption DEF Row
<1>2. T \in SUBSET Nat /\ T # {} /\ \A t \in T : t <= MaxRuns
  BY <1>1
<1>3. PICK m \in T : \A k \in T : k <= m
  <2> HIDE DEF T
  <2>1. QED
    BY <1>2, Greatest, BoundAssumption
<1>4. PICK r \in S : r.run = m
  OBVIOUS
<1>5. \A s \in S : s.run <= r.run
  BY <1>3, <1>4
<1>6. QED
  BY <1>5

(* The stored watermark is 0 or that of a successful row, the one of the   *)
(* latest run.                                                             *)
LEMMA StoredWatermarkIsARow ==
  ASSUME TypeOK, WithWatermark # {}
  PROVE  \E r \in WithWatermark :
           StoredWatermark = r.wm /\ \A s \in WithWatermark : s.run <= r.run
<1>1. WithWatermark \in SUBSET Row
  BY DEF TypeOK, WithWatermark
<1>2. QED
  BY <1>1, LatestRow DEF StoredWatermark

(* The stored watermark is a mark, also when there is none.                *)
LEMMA StoredWatermarkType ==
  ASSUME TypeOK
  PROVE  StoredWatermark \in Mark
<1>1. CASE WithWatermark = {}
  BY <1>1, BoundAssumption DEF StoredWatermark, Mark
<1>2. CASE WithWatermark # {}
  BY <1>2, StoredWatermarkIsARow DEF TypeOK, WithWatermark, Row
<1>3. QED
  BY <1>1, <1>2

(* The watermark a run reports is the greatest it has read, or the one it  *)
(* began with.                                                             *)
LEMMA GreatestItem ==
  ASSUME NEW S \in SUBSET Item, S # {}
  PROVE  LET m == CHOOSE i \in S : \A k \in S : k <= i
         IN  m \in S /\ \A k \in S : k <= m
<1>1. S \in SUBSET Nat /\ \A k \in S : k <= MaxItem
  BY BoundAssumption DEF Item
<1>2. \E i \in S : \A k \in S : k <= i
  BY <1>1, Greatest, BoundAssumption
<1>3. QED
  BY <1>2

(* A job that read something reports the greatest item it read.            *)
LEMMA MetricsWatermarkIsGreatest ==
  ASSUME TypeOK, job.read # {}
  PROVE  MetricsWatermark \in job.read /\ \A k \in job.read : k <= MetricsWatermark
<1>1. job.read \in SUBSET Item
  BY DEF TypeOK
<1>2. QED
  BY <1>1, GreatestItem DEF MetricsWatermark

(* What a run records is a row.                                            *)
LEMMA FinalRowType ==
  ASSUME TypeOK, run > 0
  PROVE  FinalRow \in Row
<1>1. MetricsWatermark \in Mark
  <2>1. CASE job.read = {}
    BY <2>1 DEF MetricsWatermark, TypeOK
  <2>2. CASE job.read # {}
    BY <2>2, MetricsWatermarkIsGreatest, BoundAssumption DEF TypeOK, Item, Mark
  <2>3. QED
    BY <2>1, <2>2
<1>2. 0 \in Mark /\ run \in 1 .. MaxRuns /\ pending \subseteq Item
  BY BoundAssumption DEF TypeOK, Mark
<1>3. FinalStatus \in {"running", "success", "failed"}
  BY DEF FinalStatus
<1>4. QED
  BY <1>1, <1>2, <1>3 DEF FinalRow, Row

-----------------------------------------------------------------------------
(* Types.                                                                  *)

(* Types hold at the start.                                                *)
LEMMA InitType == Init => TypeOK
<1> SUFFICES ASSUME Init PROVE TypeOK
  OBVIOUS
<1>1. 0 \in Mark /\ 0 \in 0 .. MaxRuns /\ 1 \in 1 .. MaxTries
  BY BoundAssumption DEF Mark
<1>2. dwh \in [Item -> Nat]
  BY DEF Init
<1>3. QED
  BY <1>1, <1>2, Tasks DEF Init, TypeOK, NoJob, NoXCom

(* The source publishes items.                                             *)
LEMMA PublishedAreItems == TypeOK => 1 .. published \subseteq Item
BY BoundAssumption DEF TypeOK, Mark, Item

(* What Airflow does with the end of an attempt keeps task and tries typed. *)
LEMMA SucceedType ==
  ASSUME NEW t \in Task \ {"end"}, Succeed(t)
  PROVE  task' \in Task /\ tries' \in 1 .. MaxTries
BY Tasks, Successors, BoundAssumption DEF Succeed

(* So does a failed attempt.                                               *)
LEMMA FailType ==
  ASSUME TypeOK, NEW t \in Task \ {"end"}, task = t, Fail(t)
  PROVE  task' \in Task /\ tries' \in 1 .. MaxTries
BY Tasks, BoundAssumption DEF Fail, TypeOK

(* Type correctness is preserved by every action.                          *)
LEMMA TypeStep == TypeOK /\ [Next]_vars => TypeOK'
<1> SUFFICES ASSUME TypeOK, [Next]_vars PROVE TypeOK'
  OBVIOUS
<1> USE DEF runVars, platformVars, historyVars, Running
<1>1. CASE Publish
  BY <1>1, BoundAssumption DEF Publish, TypeOK, Mark
<1>2. ASSUME NEW triggered \in BOOLEAN, NEW v \in Mark, StartRun(triggered, v)
      PROVE  TypeOK'
  <2>1. run' \in 1 .. MaxRuns /\ task' \in Task /\ tries' \in 1 .. MaxTries
    BY <1>2, BoundAssumption, Tasks DEF StartRun, TypeOK
  <2>2. wmIn' \in Mark /\ pending' \subseteq Item /\ override' \in Mark
    BY <1>2, BoundAssumption DEF StartRun, Mark
  <2>3. rows' \subseteq Row
    <3>1. [run |-> run + 1, status |-> "running", wm |-> 0, files |-> {}] \in Row
      BY <1>2, <2>1, BoundAssumption DEF StartRun, Row, Mark
    <3>2. QED
      BY <1>2, <3>1 DEF StartRun, TypeOK
  <2>4. QED
    BY <1>2, <2>1, <2>2, <2>3 DEF StartRun, TypeOK, NoJob, NoXCom
<1>3. CASE PreFlight
  BY <1>3, SucceedType, Tasks DEF PreFlight, TypeOK
<1>4. CASE ResolveWatermark
  <2>1. task' \in Task /\ tries' \in 1 .. MaxTries
    BY <1>4, SucceedType, Tasks DEF ResolveWatermark
  <2>2. wmIn' \in Mark
    BY <1>4, StoredWatermarkType, BoundAssumption DEF ResolveWatermark, TypeOK, Mark
  <2>3. skipped' \subseteq Item
    BY <1>4 DEF ResolveWatermark, TypeOK
  <2>4. disturbed' \in BOOLEAN
    BY <1>4 DEF ResolveWatermark
  <2>5. QED
    BY <1>4, <2>1, <2>2, <2>3, <2>4 DEF ResolveWatermark, TypeOK
<1>5. CASE ResolveFiles
  <2>1. task' \in Task /\ tries' \in 1 .. MaxTries
    BY <1>5, SucceedType, Tasks DEF ResolveFiles
  <2>2. pending' \subseteq Item /\ disturbed' \in BOOLEAN
    BY <1>5, PublishedAreItems DEF ResolveFiles, TypeOK
  <2>3. QED
    BY <1>5, <2>1, <2>2 DEF ResolveFiles, TypeOK
<1>6. CASE Submit
  <2>1. task' \in Task /\ tries' \in 1 .. MaxTries
    BY <1>6, SucceedType, Tasks DEF Submit
  <2>2. ToExtract \subseteq Item
    BY PublishedAreItems DEF ToExtract, TypeOK
  <2>3. job' \in [state : {"none", "running", "finished", "error"},
                 file : {"absent", "partial", "complete"}, read : SUBSET Item]
    BY <1>6, <2>2 DEF Submit, NoJob
  <2>4. QED
    BY <1>6, <2>1, <2>3 DEF Submit, TypeOK
<1>7. CASE JobStep
  <2>1. ToExtract \subseteq Item
    BY PublishedAreItems DEF ToExtract, TypeOK
  <2>2. QED
    BY <1>7, <2>1 DEF JobStep, TypeOK
<1>8. CASE Poll
  <2>1. task' \in Task /\ tries' \in 1 .. MaxTries
    BY <1>8, SucceedType, Tasks DEF Poll
  <2>2. disturbed' \in BOOLEAN
    BY <1>8 DEF Poll, TypeOK
  <2>3. QED
    BY <1>8, <2>1, <2>2 DEF Poll, TypeOK
<1>9. CASE SensorTimeout
  BY <1>9, Tasks, BoundAssumption DEF SensorTimeout, TypeOK
<1>10. CASE ValidateCompute
  BY <1>10, SucceedType, Tasks DEF ValidateCompute, TypeOK
<1>11. CASE ReadMetrics
  BY <1>11, SucceedType, Tasks DEF ReadMetrics, TypeOK
<1>12. CASE QualityGate
  BY <1>12, SucceedType, Tasks DEF QualityGate, TypeOK
<1>13. CASE Load
  <2>1. task' \in Task /\ tries' \in 1 .. MaxTries
    BY <1>13, SucceedType, FailType, Tasks DEF Load
  <2>2. dwh' \in [Item -> Nat]
    BY <1>13 DEF Load, TypeOK
  <2>3. disturbed' \in BOOLEAN
    BY <1>13 DEF Load, TypeOK
  <2>4. QED
    BY <1>13, <2>1, <2>2, <2>3 DEF Load, TypeOK
<1>14. CASE PostLoad
  BY <1>14, SucceedType, Tasks DEF PostLoad, TypeOK
<1>15. CASE Lineage
  BY <1>15, SucceedType, Tasks DEF Lineage, TypeOK
<1>16. CASE Emit
  <2>1. task' \in Task /\ tries' \in 1 .. MaxTries
    BY <1>16, SucceedType, FailType, Tasks DEF Emit
  <2>2. FinalRow \in Row
    BY <1>16, FinalRowType DEF Emit
  <2>3. rows' \subseteq Row /\ late' \subseteq Row /\ disturbed' \in BOOLEAN
    BY <1>16, <2>2 DEF Emit, TypeOK
  <2>4. QED
    BY <1>16, <2>1, <2>3 DEF Emit, TypeOK
<1>17. ASSUME NEW t \in Task, AttemptFails(t) PROVE TypeOK'
  <2>1. task' \in Task /\ tries' \in 1 .. MaxTries
    BY <1>17, FailType DEF AttemptFails
  <2>2. disturbed' \in BOOLEAN
    BY <1>17 DEF AttemptFails, TypeOK
  <2>3. QED
    BY <1>17, <2>1, <2>2 DEF AttemptFails, TypeOK
<1>18. ASSUME NEW r \in late, Deliver(r) PROVE TypeOK'
  BY <1>18 DEF Deliver, TypeOK
<1>19. CASE UNCHANGED vars
  BY <1>19 DEF vars, TypeOK
<1>20. QED
  BY <1>1, <1>2, <1>3, <1>4, <1>5, <1>6, <1>7, <1>8, <1>9, <1>10, <1>11, <1>12,
     <1>13, <1>14, <1>15, <1>16, <1>17, <1>18, <1>19, Tasks DEF Next, Progress

-----------------------------------------------------------------------------
(* The inductive invariant.                                                *)

(* What a run with watermark w left behind is in the warehouse.            *)
Covered(w) == \A i \in Item : i <= w => dwh[i] > 0 \/ i \in skipped

Recorded == {r \in rows \union late : r.status = "success"}

RecordsAreCovered == Incremental => \A r \in Recorded : Covered(r.wm)
MarkIsCovered == Incremental => Covered(wmIn)

(* Before submit has ended there is no job and no result.                  *)
Preparing == {"preFlight", "resolveWatermark", "resolveFiles", "submit"}
NothingYet == task \in Preparing => job = NoJob /\ xcom = NoXCom

(* The extraction leaves no gap above the mark it began with.              *)
ReadIsContiguous ==
  Incremental => \A k \in job.read : \A i \in Item :
                   wmIn < i /\ i <= k => i \in job.read

LoadedIsInWarehouse ==
  xcom.loaded => job.file = "complete" /\ \A i \in job.read : dwh[i] > 0

(* Metrics come from a job that has ended, so what it read is final.       *)
MetricsAreFinal ==
  xcom.result = "complete" \/ xcom.metrics = "read" => job.state = "finished"

GatedIsGood ==
  HasRules /\ task = "load" => job.state = "finished" /\ job.read \intersect Bad = {}

(* A file job reads the pending files; there are none in incremental mode. *)
FilesAreRead ==
  IF Incremental THEN pending = {}
  ELSE job.file # "absent" => job.read = pending

RecordedFilesAreLoaded == \A r \in Recorded : \A f \in r.files : dwh[f] > 0

DataInv ==
  /\ RecordsAreCovered
  /\ MarkIsCovered
  /\ NothingYet
  /\ ReadIsContiguous
  /\ LoadedIsInWarehouse
  /\ MetricsAreFinal
  /\ GatedIsGood
  /\ NoBadDataLoaded
  /\ FilesAreRead
  /\ RecordedFilesAreLoaded

-----------------------------------------------------------------------------
(* What a step may change.                                                 *)

NewRun == \E triggered \in BOOLEAN : \E v \in Mark : StartRun(triggered, v)

(* The actions that touch each variable.                                   *)
LEMMA Changes ==
  ASSUME [Next]_vars
  PROVE  /\ job' # job => NewRun \/ Submit \/ JobStep
         /\ xcom' # xcom => NewRun \/ Poll \/ ValidateCompute \/ ReadMetrics
                              \/ QualityGate \/ Load
         /\ wmIn' # wmIn => NewRun \/ ResolveWatermark
         /\ pending' # pending => NewRun \/ ResolveFiles
         /\ run' # run => NewRun
         /\ dwh' # dwh => Load
         /\ skipped' # skipped => ResolveWatermark
         /\ published' # published => Publish
         /\ rows' # rows => NewRun \/ Emit \/ \E r \in late : Deliver(r)
         /\ late' # late => Emit \/ \E r \in late : Deliver(r)
<1> USE DEF runVars, platformVars, historyVars
<1>1. CASE NewRun
  BY <1>1 DEF NewRun, StartRun
<1>2. CASE Publish
  BY <1>2 DEF Publish
<1>3. CASE Progress
  <2>1. CASE PreFlight \/ ResolveWatermark \/ ResolveFiles \/ Submit \/ Poll \/ SensorTimeout
    BY <2>1 DEF PreFlight, ResolveWatermark, ResolveFiles, Submit, Poll, SensorTimeout
  <2>2. CASE ValidateCompute \/ ReadMetrics \/ QualityGate \/ Load \/ PostLoad \/ Lineage \/ Emit
    BY <2>2 DEF ValidateCompute, ReadMetrics, QualityGate, Load, PostLoad, Lineage, Emit
  <2>3. ASSUME NEW t \in {"validateCompute", "qualityGate", "load"}, AttemptFails(t)
        PROVE  UNCHANGED <<job, xcom, wmIn, pending, run, dwh, skipped, published, rows, late>>
    BY <2>3 DEF AttemptFails
  <2>4. QED
    BY <1>3, <2>1, <2>2, <2>3 DEF Progress
<1>4. ASSUME NEW t \in Task, AttemptFails(t)
      PROVE  UNCHANGED <<job, xcom, wmIn, pending, run, dwh, skipped, published, rows, late>>
  BY <1>4 DEF AttemptFails
<1>5. CASE JobStep
  BY <1>5 DEF JobStep
<1>6. ASSUME NEW r \in late, Deliver(r)
      PROVE  UNCHANGED <<job, xcom, wmIn, pending, run, dwh, skipped, published>>
  BY <1>6 DEF Deliver
<1>7. CASE UNCHANGED vars
  BY <1>7 DEF vars
<1>8. QED
  BY <1>1, <1>2, <1>3, <1>4, <1>5, <1>6, <1>7 DEF Next, NewRun

(* Which task a step leads to.  Chain order, a retry, or the jump to emit. *)
LEMMA TaskStep ==
  ASSUME [Next]_vars, task' # task
  PROVE  \/ NewRun \/ PreFlight \/ ResolveWatermark \/ ResolveFiles \/ Submit
         \/ Poll \/ ValidateCompute \/ ReadMetrics \/ QualityGate \/ Load
         \/ PostLoad
         \/ task' \in {"emit", "end"}
<1> USE DEF runVars, platformVars, historyVars
<1>1. ASSUME NEW t \in Task, AttemptFails(t) PROVE task' \in {"emit", "end"}
  BY <1>1 DEF AttemptFails, Fail, Running
<1>2. CASE SensorTimeout \/ Lineage
  BY <1>2, Successors DEF SensorTimeout, Lineage, Succeed
<1>3. CASE Emit
  BY <1>3, Successors DEF Emit, Succeed, Fail, Running
<1>4. CASE Publish \/ JobStep \/ UNCHANGED vars
  BY <1>4 DEF Publish, JobStep, vars
<1>5. ASSUME NEW r \in late, Deliver(r) PROVE FALSE
  BY <1>5 DEF Deliver
<1>6. QED
  BY <1>1, <1>2, <1>3, <1>4, <1>5, Tasks DEF Next, NewRun, Progress

(* The warehouse and the set of skipped items only grow.                   *)
LEMMA Grows ==
  ASSUME TypeOK, [Next]_vars
  PROVE  /\ \A i \in Item : dwh[i] > 0 => dwh'[i] > 0
         /\ skipped \subseteq skipped'
<1>1. CASE dwh' # dwh
  <2>1. Load
    BY <1>1, Changes
  <2>2. skipped' = skipped
    BY <2>1 DEF Load
  <2>3. QED
    BY <2>1, <2>2 DEF Load, TypeOK
<1>2. CASE skipped' # skipped
  BY <1>2, Changes DEF ResolveWatermark
<1>3. QED
  BY <1>1, <1>2

(* A new row is that of a triggered run, or the final row of the run that  *)
(* emits it.                                                               *)
LEMMA NewRow ==
  ASSUME [Next]_vars, NEW r \in rows' \union late', r \notin rows \union late
  PROVE  \/ NewRun /\ r.run = run' /\ r.status = "running"
         \/ /\ Emit
            /\ r = FinalRow
            /\ UNCHANGED <<published, run, wmIn, pending, job, xcom, dwh, skipped>>
<1> USE DEF runVars, platformVars, historyVars
<1>1. NewRun \/ Emit \/ \E s \in late : Deliver(s)
  BY Changes
<1>2. CASE NewRun
  BY <1>2 DEF NewRun, StartRun
<1>3. ~\E s \in late : Deliver(s)
  BY DEF Deliver
<1>4. CASE Emit
  BY <1>4 DEF Emit
<1>5. QED
  BY <1>1, <1>2, <1>3, <1>4

(* A new record of a success can only be the final row.                    *)
LEMMA NewRecord ==
  ASSUME [Next]_vars, NEW r \in Recorded', r \notin Recorded
  PROVE  /\ Emit
         /\ r = FinalRow
         /\ UNCHANGED <<published, run, wmIn, pending, job, xcom, dwh, skipped>>
<1>1. r \in rows' \union late' /\ r.status = "success" /\ r \notin rows \union late
  BY DEF Recorded
<1>2. QED
  BY <1>1, NewRow

(* No row is ever deleted.                                                 *)
LEMMA RowsGrow == ASSUME [Next]_vars PROVE rows \subseteq rows'
<1>1. CASE rows' # rows
  <2>1. NewRun \/ Emit \/ \E r \in late : Deliver(r)
    BY <1>1, Changes
  <2>2. CASE NewRun
    BY <2>2 DEF NewRun, StartRun
  <2>3. CASE Emit
    BY <2>3 DEF Emit, platformVars
  <2>4. CASE \E r \in late : Deliver(r)
    BY <2>4 DEF Deliver
  <2>5. QED
    BY <2>1, <2>2, <2>3, <2>4
<1>2. QED
  BY <1>1

-----------------------------------------------------------------------------
(* Every conjunct of DataInv is preserved.                                 *)

(* Nothing is recorded, read or loaded at the start.                       *)
LEMMA InitData == Init => DataInv
<1> SUFFICES ASSUME Init PROVE DataInv
  OBVIOUS
<1>1. Recorded = {} /\ wmIn = 0 /\ pending = {} /\ task = "end"
  BY DEF Init, Recorded
<1>2. job = NoJob /\ xcom = NoXCom /\ \A i \in Item : dwh[i] = 0
  BY DEF Init
<1>3. RecordsAreCovered /\ MarkIsCovered /\ RecordedFilesAreLoaded
  BY <1>1 DEF RecordsAreCovered, MarkIsCovered, Covered, RecordedFilesAreLoaded, Item
<1>4. NothingYet /\ ReadIsContiguous /\ LoadedIsInWarehouse /\ MetricsAreFinal
  BY <1>1, <1>2 DEF NothingYet, Preparing, ReadIsContiguous, LoadedIsInWarehouse,
     MetricsAreFinal, NoJob, NoXCom
<1>5. GatedIsGood /\ FilesAreRead
  BY <1>1, <1>2 DEF GatedIsGood, FilesAreRead, NoJob
<1>6. NoBadDataLoaded
  BY <1>2, ModeAssumption DEF NoBadDataLoaded
<1>7. QED
  BY <1>3, <1>4, <1>5, <1>6 DEF DataInv

(* What is covered stays covered.                                          *)
LEMMA CoveredGrows ==
  ASSUME TypeOK, [Next]_vars, NEW w, Covered(w)
  PROVE  \A i \in Item : i <= w => dwh'[i] > 0 \/ i \in skipped'
BY Grows DEF Covered

(* The stored watermark is that of a recorded success.                     *)
LEMMA StoredWatermarkIsCovered ==
  ASSUME TypeOK, Incremental, RecordsAreCovered
  PROVE  Covered(StoredWatermark)
<1>1. CASE WithWatermark = {}
  BY <1>1 DEF StoredWatermark, Covered, Item
<1>2. CASE WithWatermark # {}
  BY <1>2, StoredWatermarkIsARow DEF WithWatermark, RecordsAreCovered, Recorded
<1>3. QED
  BY <1>1, <1>2

(* A success covers everything up to its watermark: what it began with was *)
(* covered, and what lies above was read without a gap and loaded.         *)
LEMMA FinalRowIsCovered ==
  ASSUME TypeOK, DataInv, Incremental, FinalStatus = "success"
  PROVE  Covered(FinalRow.wm)
<1>1. CASE FinalRow.wm = 0
  BY <1>1 DEF Covered, Item
<1>2. CASE FinalRow.wm = wmIn
  BY <1>2 DEF DataInv, MarkIsCovered
<1>3. CASE FinalRow.wm = MetricsWatermark /\ job.read # {}
  <2>1. MetricsWatermark \in job.read
    BY <1>3, MetricsWatermarkIsGreatest
  <2>2. xcom.loaded
    BY DEF FinalStatus
  <2>3. \A i \in job.read : dwh[i] > 0
    BY <2>2 DEF DataInv, LoadedIsInWarehouse
  <2>4. \A i \in Item : wmIn < i /\ i <= MetricsWatermark => i \in job.read
    BY <2>1 DEF DataInv, ReadIsContiguous
  <2>5. \A i \in Item : i <= wmIn => dwh[i] > 0 \/ i \in skipped
    BY DEF DataInv, MarkIsCovered, Covered
  <2>6. \A i \in Item : i \in Nat /\ wmIn \in Nat
    BY BoundAssumption DEF TypeOK, Mark, Item
  <2>7. \A i \in Item : i <= wmIn \/ wmIn < i
    BY <2>6
  <2>8. QED
    BY <1>3, <2>3, <2>4, <2>5, <2>7 DEF Covered
<1>4. QED
  BY <1>1, <1>2, <1>3 DEF FinalRow, MetricsWatermark

(* Every record of a success stays covered, and so does a new one.         *)
LEMMA RecordsStep ==
  ASSUME TypeOK, DataInv, [Next]_vars
  PROVE  RecordsAreCovered'
<1> SUFFICES ASSUME Incremental, NEW r \in Recorded'
             PROVE  \A i \in Item : i <= r.wm => dwh'[i] > 0 \/ i \in skipped'
  BY DEF RecordsAreCovered, Covered
<1>1. CASE r \in Recorded
  <2>1. Covered(r.wm)
    BY <1>1 DEF DataInv, RecordsAreCovered
  <2>2. QED
    BY <2>1, CoveredGrows
<1>2. CASE r \notin Recorded
  <2>1. r = FinalRow /\ FinalStatus = "success"
    BY <1>2, NewRecord DEF Recorded, FinalRow
  <2>2. Covered(r.wm)
    BY <2>1, FinalRowIsCovered
  <2>3. QED
    BY <2>2, CoveredGrows
<1>3. QED
  BY <1>1, <1>2

(* A run begins at the stored watermark or at an override.                 *)
LEMMA MarkStep ==
  ASSUME TypeOK, DataInv, [Next]_vars
  PROVE  MarkIsCovered'
<1> SUFFICES ASSUME Incremental
             PROVE  \A i \in Item : i <= wmIn' => dwh'[i] > 0 \/ i \in skipped'
  BY DEF MarkIsCovered, Covered
<1>1. CASE wmIn' = wmIn
  <2>1. Covered(wmIn)
    BY DEF DataInv, MarkIsCovered
  <2>2. QED
    BY <1>1, <2>1, CoveredGrows
<1>2. CASE NewRun
  BY <1>2 DEF NewRun, StartRun, Item
<1>3. CASE ResolveWatermark
  <2>1. Covered(StoredWatermark)
    BY StoredWatermarkIsCovered DEF DataInv
  <2>2. \A i \in Item : i <= StoredWatermark => dwh'[i] > 0 \/ i \in skipped'
    BY <2>1, CoveredGrows
  <2>3. CASE override = 0
    BY <1>3, <2>2, <2>3 DEF ResolveWatermark
  <2>4. CASE override # 0
    <3>1. wmIn' = override
      BY <1>3, <2>4 DEF ResolveWatermark
    <3>2. StoredWatermark \in Nat /\ override \in Nat /\ \A i \in Item : i \in Nat
      BY StoredWatermarkType, BoundAssumption DEF TypeOK, Mark, Item
    <3>3. \A i \in Item : StoredWatermark < i /\ i <= override => i \in skipped'
      BY <1>3, <3>2 DEF ResolveWatermark
    <3>4. \A i \in Item : i <= StoredWatermark \/ StoredWatermark < i
      BY <3>2
    <3>5. QED
      BY <2>2, <3>1, <3>3, <3>4
  <2>5. QED
    BY <2>3, <2>4
<1>4. QED
  BY <1>1, <1>2, <1>3, Changes

(* Nothing but submit creates a job, and results come after it.            *)
LEMMA NothingYetStep ==
  ASSUME TypeOK, DataInv, [Next]_vars
  PROVE  NothingYet'
<1> USE DEF Preparing
<1>1. CASE NewRun
  BY <1>1 DEF NewRun, StartRun, NothingYet, NoJob, NoXCom
<1>2. CASE PreFlight \/ ResolveWatermark \/ ResolveFiles
  BY <1>2 DEF PreFlight, ResolveWatermark, ResolveFiles, Running, DataInv, NothingYet, NoJob, NoXCom
<1>3. CASE Submit
  BY <1>3, Successors DEF Submit, Succeed, NothingYet
<1>4. CASE Poll \/ ValidateCompute \/ ReadMetrics \/ QualityGate \/ Load \/ PostLoad
  <2>1. task' \notin Preparing
    BY <1>4, Successors DEF Poll, ValidateCompute, ReadMetrics, QualityGate, Load,
         PostLoad, Succeed, Fail, Running
  <2>2. QED
    BY <2>1 DEF NothingYet
<1>5. CASE task' \in {"emit", "end"}
  BY <1>5 DEF NothingYet
<1>6. CASE task' = task /\ ~NewRun
  <2>1. CASE task \in Preparing
    <3>1. job = NoJob /\ xcom = NoXCom
      BY <2>1 DEF DataInv, NothingYet
    <3>2. ~JobStep
      BY <3>1 DEF JobStep, NoJob
    <3>3. ~Submit
      BY <1>6, Successors DEF Submit, Succeed, Running
    <3>4. ~(Poll \/ ValidateCompute \/ ReadMetrics \/ QualityGate \/ Load)
      BY <2>1 DEF Poll, ValidateCompute, ReadMetrics, QualityGate, Load, Running
    <3>5. job' = job /\ xcom' = xcom
      BY <1>6, <3>2, <3>3, <3>4, Changes
    <3>6. QED
      BY <3>1, <3>5 DEF NothingYet, NoJob, NoXCom
  <2>2. CASE task \notin Preparing
    BY <1>6, <2>2 DEF NothingYet
  <2>3. QED
    BY <2>1, <2>2
<1>7. QED
  BY <1>1, <1>2, <1>3, <1>4, <1>5, <1>6, TaskStep

(* How the file of the job and the items in it change.                     *)
LEMMA JobChanges ==
  ASSUME TypeOK, DataInv, [Next]_vars
  PROVE  \/ job'.read = {} /\ job'.file = "absent"
         \/ /\ job.file = "absent" /\ job.state \in {"none", "running"}
            /\ job'.read = ToExtract /\ job'.file # "absent"
            /\ UNCHANGED <<published, run, wmIn, pending, xcom>>
            /\ task \notin {"load", "qualityGate"} \/ job.state = "running"
         \/ /\ job'.read = job.read
            /\ job.file = "complete" => job'.file = "complete"
            /\ job.file = "absent" <=> job'.file = "absent"
            /\ job.state = "finished" => job'.state = "finished"
<1> USE DEF runVars, platformVars, historyVars
<1>1. CASE NewRun
  BY <1>1 DEF NewRun, StartRun, NoJob
<1>2. CASE Submit
  <2>1. job = NoJob
    BY <1>2 DEF Submit, Running, DataInv, NothingYet, Preparing
  <2>2. CASE job' = [NoJob EXCEPT !.state = "running"] \/ job' = [NoJob EXCEPT !.state = "error"]
    BY <2>2 DEF NoJob
  <2>3. CASE job' = [state |-> "finished", file |-> "complete", read |-> ToExtract]
    BY <1>2, <2>1, <2>3 DEF Submit, NoJob, Running
  <2>4. QED
    BY <1>2, <2>2, <2>3 DEF Submit
<1>3. CASE JobStep
  <2>1. CASE job.file = "absent" /\ job' = [job EXCEPT !.file = "partial", !.read = ToExtract]
    BY <1>3, <2>1 DEF JobStep, TypeOK
  <2>2. CASE \/ job.file = "partial" /\ job' = [job EXCEPT !.file = "complete"]
             \/ job.file = "complete" /\ job' = [job EXCEPT !.state = "finished"]
             \/ job' = [job EXCEPT !.state = "error"]
    BY <1>3, <2>2 DEF JobStep, TypeOK
  <2>3. QED
    BY <1>3, <2>1, <2>2 DEF JobStep
<1>4. CASE job' = job
  BY <1>4
<1>5. QED
  BY <1>1, <1>2, <1>3, <1>4, Changes

(* An extraction takes all that is published above the mark.               *)
LEMMA ContiguousStep ==
  ASSUME TypeOK, DataInv, [Next]_vars
  PROVE  ReadIsContiguous'
<1> SUFFICES ASSUME Incremental, NEW k \in job'.read, NEW i \in Item,
                    wmIn' < i, i <= k
             PROVE  i \in job'.read
  BY DEF ReadIsContiguous
<1>1. CASE /\ job.file = "absent" /\ job'.read = ToExtract
           /\ UNCHANGED <<published, run, wmIn, pending, xcom>>
  <2>1. k \in 1 .. published /\ published \in Nat /\ i \in Nat /\ i > 0
    BY <1>1, BoundAssumption DEF ToExtract, TypeOK, Mark, Item
  <2>2. i \in 1 .. published /\ i > wmIn
    BY <1>1, <2>1, BoundAssumption DEF TypeOK, Mark
  <2>3. QED
    BY <1>1, <2>2 DEF ToExtract
<1>2. CASE job'.read = job.read
  <2>1. CASE wmIn' = wmIn
    BY <1>2, <2>1 DEF DataInv, ReadIsContiguous
  <2>2. CASE NewRun
    BY <2>2 DEF NewRun, StartRun, NoJob
  <2>3. CASE ResolveWatermark
    <3>1. job = NoJob
      BY <2>3 DEF ResolveWatermark, Running, DataInv, NothingYet, Preparing
    <3>2. QED
      BY <1>2, <3>1 DEF NoJob
  <2>4. QED
    BY <2>1, <2>2, <2>3, Changes
<1>3. QED
  BY <1>1, <1>2, JobChanges

(* The XCom of the load is set after the rows are in the table.            *)
LEMMA LoadedStep ==
  ASSUME TypeOK, DataInv, [Next]_vars
  PROVE  LoadedIsInWarehouse'
<1> SUFFICES ASSUME xcom'.loaded
             PROVE  job'.file = "complete" /\ \A i \in job'.read : dwh'[i] > 0
  BY DEF LoadedIsInWarehouse
<1>1. CASE xcom.loaded
  <2>1. job.file = "complete" /\ \A i \in job.read : dwh[i] > 0
    BY <1>1 DEF DataInv, LoadedIsInWarehouse
  <2>2. ~NewRun
    BY DEF NewRun, StartRun, NoXCom
  <2>3. ~Submit
    BY <1>1 DEF Submit, Running, DataInv, NothingYet, Preparing, NoXCom
  <2>4. job'.file = "complete" /\ job'.read = job.read
    <3>1. CASE JobStep
      BY <2>1, <3>1 DEF JobStep, TypeOK
    <3>2. QED
      BY <2>1, <2>2, <2>3, <3>1, Changes
  <2>5. job.read \subseteq Item
    BY DEF TypeOK
  <2>6. QED
    BY <2>1, <2>4, <2>5, Grows
<1>2. CASE ~xcom.loaded
  <2>1. CASE NewRun
    BY <2>1 DEF NewRun, StartRun, NoXCom
  <2>2. CASE Poll \/ ValidateCompute \/ ReadMetrics \/ QualityGate
    BY <1>2, <2>2 DEF Poll, ValidateCompute, ReadMetrics, QualityGate, TypeOK
  <2>3. CASE Load
    <3>1. job.file = "complete" /\ job' = job /\ job.read \subseteq Item
      BY <2>3 DEF Load, FileReadable, TypeOK
    <3>2. \A i \in job.read : dwh'[i] = dwh[i] + 1 /\ dwh[i] \in Nat
      BY <2>3, <3>1 DEF Load, TypeOK
    <3>3. QED
      BY <3>1, <3>2
  <2>4. QED
    BY <1>2, <2>1, <2>2, <2>3, Changes
<1>3. QED
  BY <1>1, <1>2

(* Metrics are taken from a job that has ended, which stays so.            *)
LEMMA MetricsStep ==
  ASSUME TypeOK, DataInv, [Next]_vars
  PROVE  MetricsAreFinal'
<1> SUFFICES ASSUME xcom'.result = "complete" \/ xcom'.metrics = "read"
             PROVE  job'.state = "finished"
  BY DEF MetricsAreFinal
<1> USE DEF runVars, platformVars, historyVars
<1>1. CASE xcom' = xcom
  <2>1. job.state = "finished"
    BY <1>1 DEF DataInv, MetricsAreFinal
  <2>2. ~NewRun
    BY DEF NewRun, StartRun, NoXCom
  <2>3. ~Submit
    BY <2>1 DEF Submit, Running, DataInv, NothingYet, Preparing, NoJob
  <2>4. ~JobStep
    BY <2>1 DEF JobStep
  <2>5. QED
    BY <2>1, <2>2, <2>3, <2>4, Changes
<1>2. CASE NewRun
  BY <1>2 DEF NewRun, StartRun, NoXCom
<1>3. CASE Poll
  <2>1. CASE xcom' = [xcom EXCEPT !.result = "complete"] /\ job.state = "finished"
    BY <1>3, <2>1 DEF Poll
  <2>2. CASE xcom' = [xcom EXCEPT !.result = "failed"] \/ xcom' = [xcom EXCEPT !.result = "noMetrics"]
    BY <1>3, <2>2 DEF Poll, TypeOK, DataInv, MetricsAreFinal
  <2>3. QED
    BY <1>3, <2>1, <2>2 DEF Poll
<1>4. CASE ValidateCompute \/ QualityGate \/ Load
  BY <1>4 DEF ValidateCompute, QualityGate, Load, TypeOK, DataInv, MetricsAreFinal
<1>5. CASE ReadMetrics
  <2>1. job' = job /\ xcom'.result = xcom.result
    BY <1>5 DEF ReadMetrics, TypeOK
  <2>2. xcom'.metrics = "read" => xcom.result = "complete"
    BY <1>5 DEF ReadMetrics, TypeOK
  <2>3. QED
    BY <2>1, <2>2 DEF DataInv, MetricsAreFinal
<1>6. QED
  BY <1>1, <1>2, <1>3, <1>4, <1>5, Changes

(* The load is only reached through the quality gate.                      *)
LEMMA GatedStep ==
  ASSUME TypeOK, DataInv, [Next]_vars
  PROVE  GatedIsGood'
<1> SUFFICES ASSUME HasRules, task' = "load"
             PROVE  job'.state = "finished" /\ job'.read \intersect Bad = {}
  BY DEF GatedIsGood
<1> USE DEF runVars, platformVars, historyVars
<1>1. CASE task = "load"
  <2>1. job.state = "finished" /\ job.read \intersect Bad = {}
    BY <1>1 DEF DataInv, GatedIsGood
  <2>2. ~NewRun /\ ~Submit /\ ~JobStep
    BY <1>1, <2>1 DEF NewRun, StartRun, Submit, Running, JobStep
  <2>3. QED
    BY <2>1, <2>2, Changes
<1>2. CASE task # "load"
  <2>1. QualityGate
    BY <1>2, TaskStep, Successors DEF NewRun, StartRun, PreFlight, ResolveWatermark,
       ResolveFiles, Submit, Poll, ValidateCompute, ReadMetrics, Load, PostLoad,
       Running, Succeed
  <2>2. xcom.metrics = "read" /\ job.read \intersect Bad = {} /\ job' = job
    BY <2>1 DEF QualityGate, RulesHold
  <2>3. QED
    BY <2>2 DEF DataInv, MetricsAreFinal
<1>3. QED
  BY <1>1, <1>2

(* What is loaded has passed the gate.                                     *)
LEMMA BadStep ==
  ASSUME TypeOK, DataInv, [Next]_vars
  PROVE  NoBadDataLoaded'
<1> SUFFICES ASSUME HasRules, NEW i \in Bad PROVE dwh'[i] = 0
  BY DEF NoBadDataLoaded
<1>1. dwh[i] = 0 /\ i \in Item
  BY ModeAssumption DEF DataInv, NoBadDataLoaded
<1>2. CASE Load
  <2>1. i \notin job.read
    BY <1>2 DEF Load, Running, DataInv, GatedIsGood
  <2>2. dwh'[i] = dwh[i] + 0
    BY <1>1, <1>2, <2>1 DEF Load
  <2>3. QED
    BY <1>1, <2>2
<1>3. QED
  BY <1>1, <1>2, Changes

(* A file job reads the files resolved before it was submitted.            *)
LEMMA FilesStep ==
  ASSUME TypeOK, DataInv, [Next]_vars
  PROVE  FilesAreRead'
<1>1. CASE pending' = pending
  <2>1. CASE Incremental
    BY <1>1, <2>1 DEF DataInv, FilesAreRead
  <2>2. CASE ~Incremental
    BY <1>1, <2>2, JobChanges DEF DataInv, FilesAreRead, ToExtract
  <2>3. QED
    BY <2>1, <2>2
<1>2. CASE NewRun
  BY <1>2 DEF NewRun, StartRun, NoJob, FilesAreRead
<1>3. CASE ResolveFiles
  <2>1. job' = NoJob
    BY <1>3 DEF ResolveFiles, Running, DataInv, NothingYet, Preparing
  <2>2. Incremental => pending' = {}
    BY <1>3 DEF ResolveFiles
  <2>3. QED
    BY <2>1, <2>2 DEF FilesAreRead, NoJob
<1>4. QED
  BY <1>1, <1>2, <1>3, Changes

(* A success lists pending files, which its job read and loaded.           *)
LEMMA RecordedFilesStep ==
  ASSUME TypeOK, DataInv, [Next]_vars
  PROVE  RecordedFilesAreLoaded'
<1> SUFFICES ASSUME NEW r \in Recorded', NEW f \in r.files PROVE dwh'[f] > 0
  BY DEF RecordedFilesAreLoaded
<1>1. CASE r \in Recorded
  <2>1. dwh[f] > 0 /\ f \in Item
    BY <1>1 DEF DataInv, RecordedFilesAreLoaded, Recorded, TypeOK, Row
  <2>2. QED
    BY <2>1, Grows
<1>2. CASE r \notin Recorded
  <2>1. r = FinalRow /\ FinalStatus = "success"
    BY <1>2, NewRecord DEF Recorded, FinalRow
  <2>2. xcom.loaded
    BY <2>1 DEF FinalStatus
  <2>3. f \in pending /\ f \in Item
    BY <2>1 DEF FinalRow, TypeOK
  <2>4. f \in job.read
    BY <2>2, <2>3 DEF DataInv, FilesAreRead, LoadedIsInWarehouse
  <2>5. dwh[f] > 0
    BY <2>2, <2>4 DEF DataInv, LoadedIsInWarehouse
  <2>6. QED
    BY <2>3, <2>5, Grows
<1>3. QED
  BY <1>1, <1>2

(* DataInv is inductive, given the types.                                  *)
LEMMA DataStep == TypeOK /\ DataInv /\ [Next]_vars => DataInv'
BY RecordsStep, MarkStep, NothingYetStep, ContiguousStep, LoadedStep, MetricsStep,
   GatedStep, BadStep, FilesStep, RecordedFilesStep DEF DataInv

-----------------------------------------------------------------------------
(* The theorems.                                                           *)

(* The variables keep their types, whatever fails, is lost or is retried.  *)
THEOREM IngestionTypes == Spec => []TypeOK
BY InitType, TypeStep, PTL DEF Spec

(* DataInv holds throughout.                                               *)
LEMMA DataInvariant == Spec => []DataInv
BY InitData, IngestionTypes, DataStep, PTL DEF Spec

(* Whatever the order, the failures and the retries of the runs: every     *)
(* item up to the stored watermark, which no later run will read again, is *)
(* in the warehouse, unless an operator's override passed over it.         *)
THEOREM WatermarkLosesNothing == Spec => []NoDataLoss
<1>1. TypeOK /\ DataInv => NoDataLoss
  BY StoredWatermarkIsCovered DEF NoDataLoss, Covered, DataInv
<1>2. QED
  BY <1>1, IngestionTypes, DataInvariant, PTL

(* An item that breaks a quality rule is never loaded, also when the job   *)
(* is polled before its file is complete or its metrics cannot be read.    *)
THEOREM GateHolds == Spec => []NoBadDataLoaded
<1>1. DataInv => NoBadDataLoaded
  BY DEF DataInv
<1>2. QED
  BY <1>1, DataInvariant, PTL

(* The files of every successful record are in the warehouse.              *)
THEOREM SuccessMeansLoaded == Spec => []SuccessfulFilesAreLoaded
<1>1. DataInv => SuccessfulFilesAreLoaded
  BY DEF DataInv, RecordedFilesAreLoaded, Recorded, SuccessfulFilesAreLoaded
<1>2. QED
  BY <1>1, DataInvariant, PTL
=============================================================================
