----------------------- MODULE IngestionOrderProofs -------------------------
(***************************************************************************)
(* More proofs about IngestionDag: the stored watermark never goes back,   *)
(* in whatever order the records of the runs arrive, and failures alone    *)
(* never load an item twice.                                               *)
(***************************************************************************)
EXTENDS IngestionDagProofs

-----------------------------------------------------------------------------
(* The inductive invariant about the order of the watermarks.              *)

(* A mark beyond what the source has published was set by an operator, and *)
(* the items it passes over are known.                                     *)
Ahead(w) == \A i \in Item : published < i /\ i <= w => i \in skipped

ReadIsPublished == Incremental => \A i \in job.read : i <= published

AheadIsSkipped == Incremental => Ahead(wmIn) /\ \A r \in Recorded : Ahead(r.wm)

(* No run before the current one has recorded more than it will.           *)
Reaches(v, w) == w <= v \/ w \in skipped

ReadReachesRecords ==
  Incremental /\ job.file # "absent" =>
    \A r \in Recorded : r.run < run => Reaches(MetricsWatermark, r.wm)

RecordsOfThisRun ==
  \A r \in rows \union late :
    /\ r.run <= run
    /\ r.status = "success" /\ r.run = run =>
         task \in {"emit", "end"} /\ xcom.loaded /\ r = FinalRow

RecordsInOrder ==
  \A r, s \in Recorded :
    /\ s.run < r.run /\ r.wm # 0 => Reaches(r.wm, s.wm)
    /\ s.run = r.run => s = r

OrderInv ==
  /\ ReadIsPublished
  /\ AheadIsSkipped
  /\ ReadReachesRecords
  /\ RecordsOfThisRun
  /\ RecordsInOrder

-----------------------------------------------------------------------------
(* Every conjunct of OrderInv is preserved.                                *)

(* There is no record and no mark at the start.                            *)
LEMMA InitOrder == Init => OrderInv
<1> SUFFICES ASSUME Init PROVE OrderInv
  OBVIOUS
<1>1. Recorded = {} /\ rows \union late = {} /\ wmIn = 0
  BY DEF Init, Recorded
<1>2. job.read = {} /\ job.file = "absent"
  BY DEF Init, NoJob
<1>3. \A i \in Item : ~(i <= 0)
  BY BoundAssumption DEF Item
<1>4. QED
  BY <1>1, <1>2, <1>3 DEF OrderInv, ReadIsPublished, AheadIsSkipped, Ahead,
     ReadReachesRecords, RecordsOfThisRun, RecordsInOrder

(* A record of the pipeline's history is typed, and its mark is a number.  *)
LEMMA RecordedType ==
  ASSUME TypeOK, NEW r \in Recorded
  PROVE  r \in Row /\ r.wm \in Nat /\ r.wm <= MaxItem /\ r.run \in Nat
BY BoundAssumption DEF TypeOK, Recorded, Row, Mark

(* A mark the source has not reached yet is known to be skipped.           *)
LEMMA AheadReaches ==
  ASSUME TypeOK, NEW w \in Mark, Ahead(w)
  PROVE  w <= published \/ w \in skipped
<1>1. w \in Nat /\ published \in Nat /\ w <= MaxItem
  BY BoundAssumption DEF TypeOK, Mark
<1>2. CASE published < w
  <2>1. w \in Item
    BY <1>1, <1>2 DEF Item
  <2>2. QED
    BY <1>1, <1>2, <2>1 DEF Ahead
<1>3. QED
  BY <1>1, <1>2

(* The source only grows.                                                  *)
LEMMA PublishedGrows ==
  ASSUME TypeOK, [Next]_vars
  PROVE  published \in Nat /\ published' \in Nat /\ published <= published'
<1>1. published \in Nat
  BY BoundAssumption DEF TypeOK, Mark
<1>2. CASE published' # published
  BY <1>1, <1>2, Changes DEF Publish
<1>3. QED
  BY <1>1, <1>2

(* What is ahead of the source is still known to be skipped later.         *)
LEMMA AheadGrows ==
  ASSUME TypeOK, [Next]_vars, NEW w, Ahead(w)
  PROVE  \A i \in Item : published' < i /\ i <= w => i \in skipped'
<1> SUFFICES ASSUME NEW i \in Item, published' < i, i <= w PROVE i \in skipped'
  OBVIOUS
<1>1. i \in Nat
  BY BoundAssumption DEF Item
<1>2. published < i
  BY <1>1, PublishedGrows
<1>3. QED
  BY <1>2, Grows DEF Ahead

(* What a run records is at most what was published, or an operator's.     *)
LEMMA FinalRowIsAhead ==
  ASSUME TypeOK, AheadIsSkipped, ReadIsPublished, Incremental
  PROVE  Ahead(FinalRow.wm)
<1>1. CASE FinalRow.wm = 0 \/ FinalRow.wm = wmIn
  <2>1. \A i \in Item : ~(i <= 0)
    BY BoundAssumption DEF Item
  <2>2. QED
    BY <1>1, <2>1 DEF AheadIsSkipped, Ahead
<1>2. CASE FinalRow.wm = MetricsWatermark /\ job.read # {}
  <2>1. MetricsWatermark \in job.read
    BY <1>2, MetricsWatermarkIsGreatest
  <2>2. MetricsWatermark <= published /\ MetricsWatermark \in Nat /\ published \in Nat
    BY <2>1, BoundAssumption DEF ReadIsPublished, TypeOK, Item, Mark
  <2>3. \A i \in Item : i \in Nat
    BY BoundAssumption DEF Item
  <2>4. QED
    BY <1>2, <2>2, <2>3 DEF Ahead
<1>3. QED
  BY <1>1, <1>2 DEF FinalRow, MetricsWatermark

(* The stored watermark is that of a recorded success.                     *)
LEMMA StoredWatermarkIsAhead ==
  ASSUME TypeOK, AheadIsSkipped, Incremental
  PROVE  Ahead(StoredWatermark)
<1>1. CASE WithWatermark = {}
  <2>1. \A i \in Item : ~(i <= 0)
    BY BoundAssumption DEF Item
  <2>2. QED
    BY <1>1, <2>1 DEF StoredWatermark, Ahead
<1>2. CASE WithWatermark # {}
  BY <1>2, StoredWatermarkIsARow DEF WithWatermark, AheadIsSkipped, Recorded
<1>3. QED
  BY <1>1, <1>2

(* A job reads published items only.                                       *)
LEMMA PublishedStep ==
  ASSUME TypeOK, DataInv, OrderInv, [Next]_vars
  PROVE  ReadIsPublished'
<1> SUFFICES ASSUME Incremental, NEW i \in job'.read PROVE i <= published'
  BY DEF ReadIsPublished
<1>1. CASE job'.read = ToExtract /\ published' = published
  BY <1>1, PublishedGrows DEF ToExtract
<1>2. CASE job'.read = job.read
  <2>1. i \in Nat
    BY <1>2, BoundAssumption DEF TypeOK, Item
  <2>2. i <= published
    BY <1>2 DEF OrderInv, ReadIsPublished
  <2>3. QED
    BY <2>1, <2>2, PublishedGrows
<1>3. QED
  BY <1>1, <1>2, JobChanges

(* Only an override puts a mark ahead of the source.                       *)
LEMMA AheadStep ==
  ASSUME TypeOK, DataInv, OrderInv, [Next]_vars
  PROVE  AheadIsSkipped'
<1> SUFFICES ASSUME Incremental
             PROVE  /\ \A i \in Item : published' < i /\ i <= wmIn' => i \in skipped'
                    /\ \A r \in Recorded' : \A i \in Item :
                         published' < i /\ i <= r.wm => i \in skipped'
  BY DEF AheadIsSkipped, Ahead
<1>1. \A i \in Item : published' < i /\ i <= wmIn' => i \in skipped'
  <2>1. CASE wmIn' = wmIn
    <3>1. Ahead(wmIn)
      BY DEF OrderInv, AheadIsSkipped
    <3>2. QED
      BY <2>1, <3>1, AheadGrows
  <2>2. CASE NewRun
    <3>1. wmIn' = 0 /\ \A i \in Item : ~(i <= 0)
      BY <2>2, BoundAssumption DEF NewRun, StartRun, Item
    <3>2. QED
      BY <3>1
  <2>3. CASE ResolveWatermark
    <3>1. Ahead(StoredWatermark)
      BY StoredWatermarkIsAhead DEF OrderInv
    <3>2. \A i \in Item : published' < i /\ i <= StoredWatermark => i \in skipped'
      BY <3>1, AheadGrows
    <3>3. CASE override = 0
      BY <2>3, <3>2, <3>3 DEF ResolveWatermark
    <3>4. CASE override # 0
      <4>1. wmIn' = override
        BY <2>3, <3>4 DEF ResolveWatermark
      <4>2. StoredWatermark \in Nat /\ override \in Nat /\ \A i \in Item : i \in Nat
        BY StoredWatermarkType, BoundAssumption DEF TypeOK, Mark, Item
      <4>3. \A i \in Item : StoredWatermark < i /\ i <= override => i \in skipped'
        BY <2>3, <4>2 DEF ResolveWatermark
      <4>4. \A i \in Item : i <= StoredWatermark \/ StoredWatermark < i
        BY <4>2
      <4>5. QED
        BY <3>2, <4>1, <4>3, <4>4
    <3>5. QED
      BY <3>3, <3>4
  <2>4. QED
    BY <2>1, <2>2, <2>3, Changes
<1>2. ASSUME NEW r \in Recorded'
      PROVE  \A i \in Item : published' < i /\ i <= r.wm => i \in skipped'
  <2>1. Ahead(r.wm)
    <3>1. CASE r \in Recorded
      BY <3>1 DEF OrderInv, AheadIsSkipped
    <3>2. CASE r \notin Recorded
      BY <3>2, NewRecord, FinalRowIsAhead DEF OrderInv
    <3>3. QED
      BY <3>1, <3>2
  <2>2. QED
    BY <2>1, AheadGrows
<1>3. QED
  BY <1>1, <1>2

(* A run that extracts reaches at least what the source has published.     *)
LEMMA ExtractionReachesSource ==
  ASSUME TypeOK, Incremental, job'.read = ToExtract, wmIn' = wmIn
  PROVE  MetricsWatermark' \in Nat /\ published <= MetricsWatermark'
<1>1. wmIn \in Nat /\ published \in Nat /\ published <= MaxItem
  BY BoundAssumption DEF TypeOK, Mark
<1>2. published > wmIn => published \in ToExtract
  BY <1>1 DEF ToExtract
<1>3. CASE ToExtract = {}
  BY <1>1, <1>2, <1>3 DEF MetricsWatermark
<1>4. CASE ToExtract # {}
  <2>1. ToExtract \in SUBSET Item
    BY PublishedAreItems DEF ToExtract
  <2>2. MetricsWatermark' \in ToExtract /\ \A k \in ToExtract : k <= MetricsWatermark'
    BY <1>4, <2>1, GreatestItem DEF MetricsWatermark
  <2>3. MetricsWatermark' \in Nat /\ wmIn < MetricsWatermark' /\ MetricsWatermark' <= published
    BY <1>1, <2>2 DEF ToExtract
  <2>4. QED
    BY <1>1, <1>2, <2>2, <2>3
<1>5. QED
  BY <1>3, <1>4

(* An extraction ends at the source or above it, as all before it.         *)
LEMMA ReachesStep ==
  ASSUME TypeOK, DataInv, OrderInv, [Next]_vars
  PROVE  ReadReachesRecords'
<1> SUFFICES ASSUME Incremental, job'.file # "absent", NEW r \in Recorded', r.run < run'
             PROVE  r.wm <= MetricsWatermark' \/ r.wm \in skipped'
  BY DEF ReadReachesRecords, Reaches
<1>1. ~NewRun
  BY DEF NewRun, StartRun, NoJob
<1>2. run' = run /\ run \in Nat
  BY <1>1, Changes, BoundAssumption DEF TypeOK
<1>3. r \in Recorded
  <2>1. SUFFICES ASSUME r \notin Recorded PROVE FALSE
    OBVIOUS
  <2>2. r.run = run
    BY <2>1, NewRecord DEF FinalRow
  <2>3. QED
    BY <1>2, <2>2
<1>4. CASE job'.read = ToExtract /\ UNCHANGED <<published, run, wmIn, pending, xcom>>
  <2>1. r.wm <= published \/ r.wm \in skipped
    BY <1>3, AheadReaches DEF OrderInv, AheadIsSkipped, TypeOK, Recorded, Row
  <2>2. MetricsWatermark' \in Nat /\ published <= MetricsWatermark'
    BY <1>4, ExtractionReachesSource
  <2>3. QED
    BY <1>3, <2>1, <2>2, RecordedType, PublishedGrows, Grows
<1>5. CASE job'.read = job.read /\ (job.file = "absent" <=> job'.file = "absent")
  <2>1. ~ResolveWatermark
    BY <1>5 DEF ResolveWatermark, Running, DataInv, NothingYet, Preparing, NoJob
  <2>2. wmIn' = wmIn
    BY <1>1, <2>1, Changes
  <2>3. MetricsWatermark' = MetricsWatermark
    BY <1>5, <2>2 DEF MetricsWatermark
  <2>4. r.wm <= MetricsWatermark \/ r.wm \in skipped
    BY <1>2, <1>3, <1>5 DEF OrderInv, ReadReachesRecords, Reaches
  <2>5. QED
    BY <2>3, <2>4, Grows
<1>6. QED
  BY <1>4, <1>5, JobChanges

(* Once a run has loaded, what it will record stays the same.              *)
LEMMA LoadedRunStays ==
  ASSUME TypeOK, DataInv, [Next]_vars, ~NewRun, xcom.loaded,
         task \in {"postLoad", "lineage", "emit", "end"}
  PROVE  /\ UNCHANGED <<xcom, wmIn, pending, run, job.read>>
         /\ FinalRow' = FinalRow
<1>1. ~(ResolveWatermark \/ ResolveFiles \/ Submit \/ Poll \/ ValidateCompute
        \/ ReadMetrics \/ QualityGate \/ Load)
  BY DEF ResolveWatermark, ResolveFiles, Submit, Poll, ValidateCompute,
     ReadMetrics, QualityGate, Load, Running
<1>2. xcom' = xcom /\ wmIn' = wmIn /\ pending' = pending /\ run' = run
  BY <1>1, Changes
<1>3. job'.read = job.read
  <2>1. job.file = "complete"
    BY DEF DataInv, LoadedIsInWarehouse
  <2>2. CASE JobStep
    BY <2>1, <2>2 DEF JobStep, TypeOK
  <2>3. QED
    BY <1>1, <2>2, Changes
<1>4. QED
  BY <1>2, <1>3 DEF FinalRow, FinalStatus, MetricsWatermark

(* After emit there is only the end of the run.                            *)
LEMMA EmitStays ==
  ASSUME [Next]_vars, ~NewRun, task \in {"emit", "end"}
  PROVE  task' \in {"emit", "end"}
<1>1. ~(PreFlight \/ ResolveWatermark \/ ResolveFiles \/ Submit \/ Poll \/ ValidateCompute
        \/ ReadMetrics \/ QualityGate \/ Load \/ PostLoad)
  BY DEF PreFlight, ResolveWatermark, ResolveFiles, Submit, Poll, ValidateCompute,
     ReadMetrics, QualityGate, Load, PostLoad, Running
<1>2. QED
  BY <1>1, TaskStep

(* A run records one row, however often its emit is repeated.              *)
LEMMA ThisRunStep ==
  ASSUME TypeOK, DataInv, OrderInv, [Next]_vars
  PROVE  RecordsOfThisRun'
<1> SUFFICES ASSUME NEW r \in rows' \union late'
             PROVE  /\ r.run <= run'
                    /\ r.status = "success" /\ r.run = run' =>
                         task' \in {"emit", "end"} /\ xcom'.loaded /\ r = FinalRow'
  BY DEF RecordsOfThisRun
<1>1. run \in Nat /\ (NewRun => run' = run + 1) /\ (~NewRun => run' = run)
  BY Changes, BoundAssumption DEF TypeOK, NewRun, StartRun
<1>2. CASE r \in rows \union late
  <2>1. r.run <= run /\ r.run \in Nat
    BY <1>2, BoundAssumption DEF OrderInv, RecordsOfThisRun, TypeOK, Row
  <2>2. ASSUME r.status = "success", r.run = run'
        PROVE  task' \in {"emit", "end"} /\ xcom'.loaded /\ r = FinalRow'
    <3>1. ~NewRun /\ r.run = run
      BY <1>1, <2>1, <2>2
    <3>2. task \in {"emit", "end"} /\ xcom.loaded /\ r = FinalRow
      BY <1>2, <2>2, <3>1 DEF OrderInv, RecordsOfThisRun
    <3>3. QED
      BY <3>1, <3>2, LoadedRunStays, EmitStays
  <2>3. QED
    BY <1>1, <2>1, <2>2
<1>3. CASE r \notin rows \union late
  <2>1. CASE NewRun /\ r.run = run' /\ r.status = "running"
    BY <1>1, <2>1
  <2>2. CASE Emit /\ r = FinalRow /\ UNCHANGED <<run, wmIn, pending, job, xcom>>
    <3>1. r.run = run /\ FinalRow' = FinalRow
      BY <2>2 DEF FinalRow, FinalStatus, MetricsWatermark
    <3>2. task' \in {"emit", "end"}
      BY <2>2, Successors DEF Emit, Succeed, Fail, Running
    <3>3. r.status = "success" => xcom'.loaded
      BY <2>2 DEF FinalRow, FinalStatus
    <3>4. QED
      BY <1>1, <2>2, <3>1, <3>2, <3>3
  <2>3. QED
    BY <1>3, <2>1, <2>2, NewRow
<1>4. QED
  BY <1>2, <1>3

(* The row of the current run follows those of the runs before it.         *)
LEMMA FinalRowFollows ==
  ASSUME TypeOK, DataInv, OrderInv, FinalStatus = "success", NEW s \in Recorded
  PROVE  /\ s.run < run /\ FinalRow.wm # 0 => Reaches(FinalRow.wm, s.wm)
         /\ s.run <= run
         /\ s.run = run => s = FinalRow
<1>1. s \in rows \union late /\ s.status = "success"
  BY DEF Recorded
<1>2. s.run <= run /\ (s.run = run => s = FinalRow)
  BY <1>1 DEF OrderInv, RecordsOfThisRun
<1>3. ASSUME s.run < run, FinalRow.wm # 0 PROVE Reaches(FinalRow.wm, s.wm)
  <2>1. FinalRow.wm = MetricsWatermark /\ Incremental
    BY <1>3 DEF FinalRow
  <2>2. job.file # "absent"
    BY DEF FinalStatus, DataInv, LoadedIsInWarehouse
  <2>3. QED
    BY <1>3, <2>1, <2>2 DEF OrderInv, ReadReachesRecords
<1>4. QED
  BY <1>2, <1>3

(* A new record continues those of earlier runs.                           *)
LEMMA InOrderStep ==
  ASSUME TypeOK, DataInv, OrderInv, [Next]_vars
  PROVE  RecordsInOrder'
<1> SUFFICES ASSUME NEW r \in Recorded', NEW s \in Recorded'
             PROVE  /\ s.run < r.run /\ r.wm # 0 => s.wm <= r.wm \/ s.wm \in skipped'
                    /\ s.run = r.run => s = r
  BY DEF RecordsInOrder, Reaches
<1>1. CASE r \in Recorded /\ s \in Recorded
  BY <1>1, Grows DEF OrderInv, RecordsInOrder, Reaches
<1>2. CASE r \notin Recorded /\ s \notin Recorded
  <2>1. r = s
    BY <1>2, NewRecord
  <2>2. r.run \in Nat
    BY <1>2, NewRecord, BoundAssumption DEF FinalRow, TypeOK
  <2>3. QED
    BY <2>1, <2>2
<1>3. CASE r \notin Recorded /\ s \in Recorded
  <2>1. r = FinalRow /\ r.run = run /\ FinalStatus = "success"
    BY <1>3, NewRecord DEF FinalRow, Recorded
  <2>2. QED
    BY <1>3, <2>1, FinalRowFollows, Grows DEF Reaches
<1>4. CASE r \in Recorded /\ s \notin Recorded
  <2>1. s = FinalRow /\ s.run = run /\ FinalStatus = "success"
    BY <1>4, NewRecord DEF FinalRow, Recorded
  <2>2. r.run <= run /\ (r.run = run => r = FinalRow)
    BY <1>4, <2>1, FinalRowFollows
  <2>3. r.run \in Nat /\ run \in Nat
    BY <1>4, RecordedType, BoundAssumption DEF TypeOK
  <2>4. QED
    BY <2>1, <2>2, <2>3
<1>5. QED
  BY <1>1, <1>2, <1>3, <1>4

(* OrderInv is inductive, given the types and DataInv.                     *)
LEMMA OrderStep == TypeOK /\ DataInv /\ OrderInv /\ [Next]_vars => OrderInv'
BY PublishedStep, AheadStep, ReachesStep, ThisRunStep, InOrderStep DEF OrderInv

(* OrderInv holds throughout.                                              *)
LEMMA OrderInvariant == Spec => []OrderInv
BY InitOrder, IngestionTypes, DataInvariant, OrderStep, PTL DEF Spec

(* The row the next watermark comes from, in the state after a step.       *)
LEMMA NextStoredWatermarkIsARow ==
  ASSUME TypeOK', WithWatermark' # {}
  PROVE  \E r \in WithWatermark' :
           StoredWatermark' = r.wm /\ \A s \in WithWatermark' : s.run <= r.run
<1>1. WithWatermark' \in SUBSET Row
  BY DEF TypeOK, WithWatermark
<1>2. QED
  BY <1>1, LatestRow DEF StoredWatermark

(* The stored watermark is a mark after a step, too.                       *)
LEMMA NextStoredWatermarkType ==
  ASSUME TypeOK'
  PROVE  StoredWatermark' \in Mark
<1>1. CASE WithWatermark' = {}
  BY <1>1, BoundAssumption DEF StoredWatermark, Mark
<1>2. CASE WithWatermark' # {}
  BY <1>2, NextStoredWatermarkIsARow DEF TypeOK, WithWatermark, Row
<1>3. QED
  BY <1>1, <1>2

(* A step that takes the stored watermark back takes back an override.     *)
LEMMA RegressStep ==
  ASSUME TypeOK, TypeOK', OrderInv', [Next]_vars, StoredWatermark' < StoredWatermark
  PROVE  StoredWatermark \in skipped
<1>1. StoredWatermark' \in Nat /\ StoredWatermark \in Nat
  BY StoredWatermarkType, NextStoredWatermarkType, BoundAssumption DEF Mark
<1>2. skipped' = skipped
  <2>1. rows' # rows
    <3>1. rows' = rows => WithWatermark' = WithWatermark
      BY DEF WithWatermark
    <3>2. WithWatermark' = WithWatermark => StoredWatermark' = StoredWatermark
      BY DEF StoredWatermark
    <3>3. QED
      BY <1>1, <3>1, <3>2
  <2>2. ~ResolveWatermark
    BY <2>1 DEF ResolveWatermark, platformVars
  <2>3. QED
    BY <2>2, Changes
<1>3. WithWatermark # {}
  BY <1>1 DEF StoredWatermark
<1>4. PICK s \in WithWatermark : StoredWatermark = s.wm
  BY <1>3, StoredWatermarkIsARow
<1>5. s \in WithWatermark'
  BY <1>4, RowsGrow DEF WithWatermark
<1>6. PICK r \in WithWatermark' :
        StoredWatermark' = r.wm /\ \A u \in WithWatermark' : u.run <= r.run
  BY <1>5, NextStoredWatermarkIsARow
<1>7. r \in Recorded' /\ s \in Recorded' /\ r.wm # 0
  BY <1>5, <1>6 DEF WithWatermark, Recorded
<1>8. r.run \in Nat /\ s.run \in Nat /\ s.run <= r.run
  BY <1>5, <1>6, BoundAssumption DEF WithWatermark, TypeOK, Row
<1>9. CASE s.run = r.run
  <2>1. s = r
    BY <1>7, <1>9 DEF OrderInv, RecordsInOrder
  <2>2. QED
    BY <1>1, <1>4, <1>6, <2>1
<1>10. CASE s.run < r.run
  <2>1. s.wm <= r.wm \/ s.wm \in skipped'
    BY <1>7, <1>10 DEF OrderInv, RecordsInOrder, Reaches
  <2>2. QED
    BY <1>1, <1>2, <1>4, <1>6, <2>1
<1>11. QED
  BY <1>8, <1>9, <1>10

(* The stored watermark never goes back, in whatever order the records of  *)
(* the runs arrive, except from a mark an operator had set ahead.          *)
THEOREM WatermarkIsMonotonic == Spec => StoredWatermarkNeverRegresses
<1>1. TypeOK /\ TypeOK' /\ OrderInv' /\ [Next]_vars =>
        [StoredWatermark' < StoredWatermark => StoredWatermark \in skipped]_vars
  BY RegressStep
<1>2. QED
  BY <1>1, IngestionTypes, OrderInvariant, PTL DEF Spec, StoredWatermarkNeverRegresses

-----------------------------------------------------------------------------
(* The invariant of the runs in which nothing is disturbed.                *)

(* Items no later run will read again.                                     *)
Known(i) == IF Incremental THEN i <= StoredWatermark ELSE i \in ProcessedHashes

(* A run that has loaded and has not recorded it yet.                      *)
Recording == {"postLoad", "lineage", "emit"}
Extracting == {"monitor", "validateCompute", "readMetrics", "qualityGate", "load"}

LoadedIsKnown ==
  \A i \in Item : dwh[i] > 0 =>
    Known(i) \/ (task \in Recording /\ xcom.loaded /\ i \in job.read)

(* The run began at the stored watermark or above it.                      *)
MarkIsFresh ==
  Incremental =>
    /\ task \in {"resolveFiles", "submit"} \union Extracting => StoredWatermark <= wmIn
    /\ task \in Recording /\ xcom.loaded =>
         StoredWatermark <= wmIn \/ (task = "emit" /\ FinalRow \in rows)

PendingIsFresh ==
  ~Incremental /\ task \in {"submit"} \union Extracting =>
    \A f \in pending : f \notin ProcessedHashes

ReadIsAbove == Incremental => \A k \in job.read : wmIn < k

NotLoadedYet == task \in Extracting => ~xcom.loaded

(* The metrics of a run that gets to its load have been read.              *)
ResultIsFinal ==
  /\ xcom.result # "noMetrics"
  /\ task \in {"validateCompute", "readMetrics", "qualityGate", "load"} => xcom.result # "none"
  /\ task \in {"readMetrics", "qualityGate", "load"} =>
       xcom.result = "complete" /\ xcom.computed
  /\ task \in {"qualityGate", "load"} => xcom.metrics = "read"
  /\ xcom.loaded => xcom.computed /\ xcom.metrics = "read"

ExactInv ==
  ~disturbed =>
    /\ late = {}
    /\ \A i \in Item : dwh[i] <= 1
    /\ LoadedIsKnown
    /\ MarkIsFresh
    /\ PendingIsFresh
    /\ ReadIsAbove
    /\ NotLoadedYet
    /\ ResultIsFinal

-----------------------------------------------------------------------------
(* Every conjunct of ExactInv is preserved.                                *)

(* Nothing is loaded at the start.                                         *)
LEMMA InitExact == Init => ExactInv
<1> SUFFICES ASSUME Init PROVE ExactInv
  OBVIOUS
<1>1. /\ late = {} /\ task = "end" /\ xcom = NoXCom /\ job.read = {}
      /\ \A i \in Item : dwh[i] = 0
  BY DEF Init, NoJob
<1>2. LoadedIsKnown /\ MarkIsFresh /\ PendingIsFresh /\ ReadIsAbove /\ NotLoadedYet
  BY <1>1 DEF LoadedIsKnown, MarkIsFresh, PendingIsFresh, ReadIsAbove, NotLoadedYet,
     Recording, Extracting
<1>3. ResultIsFinal
  BY <1>1 DEF ResultIsFinal, NoXCom
<1>4. QED
  BY <1>1, <1>2, <1>3 DEF ExactInv

(* What the disturbed branches of the actions are, and that a disturbance  *)
(* is never forgotten.                                                     *)
LEMMA Quiet ==
  ASSUME TypeOK, [Next]_vars, ~disturbed'
  PROVE  /\ ~disturbed
         /\ Load => Succeed("load") /\ xcom' = [xcom EXCEPT !.loaded = TRUE]
         /\ Emit => rows' = rows \union {FinalRow} /\ late' = late
         /\ ResolveFiles => pending' = IF Incremental THEN {}
                                       ELSE (1 .. published) \ ProcessedHashes
         /\ Poll => xcom'.result # "noMetrics"
         /\ ResolveWatermark => ~(override # 0 /\ override < StoredWatermark)
<1> USE DEF runVars, platformVars, historyVars
<1>1. ~disturbed
  <2>1. CASE NewRun
    BY <2>1 DEF NewRun, StartRun
  <2>2. CASE ResolveWatermark \/ ResolveFiles \/ Poll \/ Load \/ Emit
    BY <2>2 DEF Load, Emit, ResolveFiles, Poll, ResolveWatermark
  <2>3. ASSUME NEW t \in Task, AttemptFails(t) PROVE ~disturbed
    BY <2>3 DEF AttemptFails
  <2>4. CASE Publish \/ PreFlight \/ Submit \/ SensorTimeout \/ ValidateCompute \/ ReadMetrics
    BY <2>4 DEF Publish, PreFlight, Submit, SensorTimeout, ValidateCompute, ReadMetrics
  <2>5. CASE QualityGate \/ PostLoad \/ Lineage \/ JobStep \/ UNCHANGED vars
    BY <2>5 DEF QualityGate, PostLoad, Lineage, JobStep, vars
  <2>6. ASSUME NEW r \in late, Deliver(r) PROVE ~disturbed
    BY <2>6 DEF Deliver
  <2>7. QED
    BY <2>1, <2>2, <2>3, <2>4, <2>5, <2>6, Tasks DEF Next, Progress, NewRun
<1>2. Load => Succeed("load") /\ xcom' = [xcom EXCEPT !.loaded = TRUE]
  BY DEF Load
<1>3. Emit => rows' = rows \union {FinalRow} /\ late' = late
  BY DEF Emit
<1>4. ResolveFiles => pending' = IF Incremental THEN {} ELSE (1 .. published) \ ProcessedHashes
  BY DEF ResolveFiles
<1>5. Poll => xcom'.result # "noMetrics"
  BY DEF Poll
<1>6. ResolveWatermark => ~(override # 0 /\ override < StoredWatermark)
  BY DEF ResolveWatermark
<1>7. QED
  BY <1>1, <1>2, <1>3, <1>4, <1>5, <1>6

(* A run that is about to record is not ended by anything but its record.  *)
LEMMA RecordingStays ==
  ASSUME TypeOK, [Next]_vars, ~disturbed', task \in Recording, ~Emit
  PROVE  task' \in Recording
<1> USE DEF runVars, platformVars, historyVars, Recording
<1>1. CASE PostLoad \/ Lineage
  BY <1>1, Successors DEF PostLoad, Lineage, Succeed
<1>2. ASSUME NEW t \in Task, AttemptFails(t) PROVE task' \in Recording
  <2>1. task = t /\ Fail(t) /\ ~(t = "emit" /\ tries = MaxTries)
    BY <1>2 DEF AttemptFails, Running
  <2>2. tries \in Nat /\ MaxTries \in Nat /\ tries <= MaxTries
    BY BoundAssumption DEF TypeOK
  <2>3. t = "emit" => tries < MaxTries
    BY <2>1, <2>2
  <2>4. QED
    BY <2>1, <2>3 DEF Fail
<1>3. CASE task' = task
  BY <1>3
<1>4. ~NewRun
  BY DEF NewRun, StartRun
<1>5. ~(PreFlight \/ ResolveWatermark \/ ResolveFiles \/ Submit \/ Poll \/ SensorTimeout
        \/ ValidateCompute \/ ReadMetrics \/ QualityGate \/ Load)
  BY DEF PreFlight, ResolveWatermark, ResolveFiles, Submit, Poll, SensorTimeout,
     ValidateCompute, ReadMetrics, QualityGate, Load, Running
<1>6. CASE Publish \/ JobStep \/ UNCHANGED vars
  BY <1>6 DEF Publish, JobStep, vars
<1>7. ASSUME NEW r \in late, Deliver(r) PROVE task' = task
  BY <1>7 DEF Deliver
<1>8. QED
  BY <1>1, <1>2, <1>3, <1>4, <1>5, <1>6, <1>7, Tasks DEF Next, Progress, NewRun

(* A run that has ended stays so until the next one starts.                *)
LEMMA EndStays ==
  ASSUME [Next]_vars, ~NewRun, task = "end"
  PROVE  task' = "end"
<1> USE DEF runVars, platformVars, historyVars
<1>1. ASSUME NEW t \in Task, AttemptFails(t) PROVE FALSE
  BY <1>1 DEF AttemptFails, Running
<1>2. ~(PreFlight \/ ResolveWatermark \/ ResolveFiles \/ Submit \/ Poll \/ SensorTimeout
        \/ ValidateCompute \/ ReadMetrics \/ QualityGate \/ Load)
  BY DEF PreFlight, ResolveWatermark, ResolveFiles, Submit, Poll, SensorTimeout,
     ValidateCompute, ReadMetrics, QualityGate, Load, Running
<1>3. ~(PostLoad \/ Lineage \/ Emit)
  BY DEF PostLoad, Lineage, Emit, Running
<1>4. CASE Publish \/ JobStep \/ UNCHANGED vars
  BY <1>4 DEF Publish, JobStep, vars
<1>5. ASSUME NEW r \in late, Deliver(r) PROVE task' = task
  BY <1>5 DEF Deliver
<1>6. QED
  BY <1>1, <1>2, <1>3, <1>4, <1>5, Tasks DEF Next, Progress, NewRun

(* Only Load sets the XCom of the load.                                    *)
LEMMA LoadedByLoad ==
  ASSUME TypeOK, [Next]_vars, ~Load, xcom'.loaded
  PROVE  xcom.loaded /\ ~NewRun
<1>1. ~NewRun
  BY DEF NewRun, StartRun, NoXCom
<1>2. ASSUME Poll \/ ValidateCompute \/ ReadMetrics \/ QualityGate
      PROVE  xcom.loaded
  BY <1>2 DEF Poll, ValidateCompute, ReadMetrics, QualityGate, TypeOK
<1>3. QED
  BY <1>1, <1>2, Changes

(* The queries change with the record of a run only.                       *)
LEMMA QueriesStay ==
  ASSUME [Next]_vars, late = {}, ~Emit
  PROVE  StoredWatermark' = StoredWatermark /\ ProcessedHashes' = ProcessedHashes
<1>1. CASE rows' = rows
  <2>1. WithWatermark' = WithWatermark
    BY <1>1 DEF WithWatermark
  <2>2. QED
    BY <1>1, <2>1 DEF StoredWatermark, ProcessedHashes
<1>2. CASE NewRun
  <2>1. PICK r : r.status = "running" /\ r.files = {} /\ rows' \in {rows, rows \union {r}}
    <3>1. PICK triggered \in BOOLEAN, v \in Mark : StartRun(triggered, v)
      BY <1>2 DEF NewRun
    <3>2. DEFINE r == [run |-> run + 1, status |-> "running", wm |-> 0, files |-> {}]
    <3>3. r.status = "running" /\ r.files = {} /\ rows' \in {rows, rows \union {r}}
      BY <3>1 DEF StartRun
    <3>4. QED
      BY <3>3
  <2>2. WithWatermark' = WithWatermark
    BY <2>1 DEF WithWatermark
  <2>3. ProcessedHashes' = ProcessedHashes
    BY <2>1 DEF ProcessedHashes
  <2>4. QED
    BY <2>2, <2>3 DEF StoredWatermark
<1>3. QED
  BY <1>1, <1>2, Changes

(* After the record of a success with a watermark, it is the stored one.   *)
LEMMA StoredAfterEmit ==
  ASSUME TypeOK, TypeOK', OrderInv, OrderInv', Emit, rows' = rows \union {FinalRow},
         FinalRow.status = "success", FinalRow.wm # 0
  PROVE  StoredWatermark' = FinalRow.wm
<1>1. FinalRow \in WithWatermark'
  BY DEF WithWatermark
<1>2. PICK r \in WithWatermark' :
        StoredWatermark' = r.wm /\ \A s \in WithWatermark' : s.run <= r.run
  BY <1>1, NextStoredWatermarkIsARow
<1>3. r.run \in Nat /\ run \in Nat /\ FinalRow.run = run /\ run <= r.run
  BY <1>1, <1>2, BoundAssumption DEF WithWatermark, TypeOK, Row, FinalRow
<1>4. r = FinalRow \/ r \in rows
  BY DEF WithWatermark
<1>5. r.run <= run
  BY <1>3, <1>4 DEF OrderInv, RecordsOfThisRun
<1>6. r \in Recorded' /\ FinalRow \in Recorded' /\ r.run = FinalRow.run
  BY <1>1, <1>3, <1>5 DEF Recorded, WithWatermark
<1>7. r = FinalRow
  BY <1>6 DEF OrderInv, RecordsInOrder
<1>8. QED
  BY <1>2, <1>7

(* A run's mark is at least the one it began with and all it has read.     *)
LEMMA MarkGrows ==
  ASSUME TypeOK, ReadIsAbove, Incremental
  PROVE  /\ MetricsWatermark \in Nat /\ wmIn <= MetricsWatermark
         /\ \A k \in job.read : k <= MetricsWatermark
<1>1. wmIn \in Nat /\ job.read \subseteq Item /\ \A i \in Item : i \in Nat
  BY BoundAssumption DEF TypeOK, Mark, Item
<1>2. CASE job.read = {}
  BY <1>1, <1>2 DEF MetricsWatermark
<1>3. CASE job.read # {}
  <2>1. MetricsWatermark \in job.read /\ \A k \in job.read : k <= MetricsWatermark
    BY <1>3, MetricsWatermarkIsGreatest
  <2>2. QED
    BY <1>1, <2>1 DEF ReadIsAbove
<1>4. QED
  BY <1>2, <1>3

(* An undisturbed record loses nothing that was known before.              *)
LEMMA EmitKeepsKnown ==
  ASSUME TypeOK, TypeOK', OrderInv, OrderInv', MarkIsFresh, ReadIsAbove,
         Emit, rows' = rows \union {FinalRow}, Incremental
  PROVE  StoredWatermark <= StoredWatermark'
<1>1. StoredWatermark \in Nat
  BY StoredWatermarkType, BoundAssumption DEF Mark
<1>2. CASE FinalRow \in rows \/ FinalRow \notin WithWatermark'
  <2>1. WithWatermark' = WithWatermark
    BY <1>2 DEF WithWatermark
  <2>2. QED
    BY <1>1, <2>1 DEF StoredWatermark
<1>3. CASE FinalRow \notin rows /\ FinalRow \in WithWatermark'
  <2>1. FinalStatus = "success" /\ FinalRow.wm # 0 /\ FinalRow.status = "success"
    BY <1>3 DEF WithWatermark, FinalRow
  <2>2. FinalRow.wm = MetricsWatermark /\ xcom.loaded
    BY <2>1 DEF FinalRow, FinalStatus
  <2>3. StoredWatermark <= wmIn
    BY <1>3, <2>2 DEF MarkIsFresh, Emit, Running, Recording
  <2>4. StoredWatermark' = MetricsWatermark
    BY <2>1, <2>2, StoredAfterEmit
  <2>5. wmIn \in Nat
    BY BoundAssumption DEF TypeOK, Mark
  <2>6. QED
    BY <1>1, <2>3, <2>4, <2>5, MarkGrows
<1>4. QED
  BY <1>2, <1>3

(* What every lemma below assumes of a step that is not disturbed.         *)
Undisturbed ==
  /\ TypeOK /\ DataInv /\ OrderInv /\ ExactInv
  /\ TypeOK' /\ OrderInv'
  /\ [Next]_vars
  /\ ~disturbed /\ ~disturbed'

(* Without a lost answer no record is late.                                *)
LEMMA LateStays == Undisturbed => late' = {}
<1> SUFFICES ASSUME Undisturbed PROVE late' = {}
  OBVIOUS
<1>1. late = {}
  BY DEF Undisturbed, ExactInv
<1>2. Emit => late' = late
  BY Quiet DEF Undisturbed
<1>3. QED
  BY <1>1, <1>2, Changes DEF Undisturbed

(* Without a late record only emit changes the answers.                    *)
LEMMA QueriesStayQuiet ==
  ASSUME Undisturbed, ~Emit
  PROVE  StoredWatermark' = StoredWatermark /\ ProcessedHashes' = ProcessedHashes
BY QueriesStay DEF Undisturbed, ExactInv

(* What the load adds was not in the warehouse: it is above the mark, or   *)
(* pending, and so not known.                                              *)
LEMMA LoadIsNew ==
  ASSUME Undisturbed, Load, NEW i \in job.read
  PROVE  dwh[i] = 0
<1>1. i \in Item /\ dwh[i] \in Nat
  BY DEF Undisturbed, TypeOK
<1>2. SUFFICES ASSUME dwh[i] > 0 PROVE FALSE
  BY <1>1
<1>3. task = "load"
  BY DEF Load, Running
<1>4. Known(i)
  BY <1>1, <1>2, <1>3 DEF Undisturbed, ExactInv, LoadedIsKnown, Recording
<1>5. CASE Incremental
  <2>1. i <= StoredWatermark /\ StoredWatermark <= wmIn /\ wmIn < i
    BY <1>3, <1>4, <1>5 DEF Known, Undisturbed, ExactInv, MarkIsFresh, ReadIsAbove, Extracting
  <2>2. i \in Nat /\ wmIn \in Nat /\ StoredWatermark \in Nat
    <3>1. TypeOK
      BY DEF Undisturbed
    <3>2. StoredWatermark \in Mark /\ wmIn \in Mark
      BY <3>1, StoredWatermarkType DEF TypeOK
    <3>3. QED
      BY <1>1, <3>2, BoundAssumption DEF Item, Mark
  <2>3. QED
    BY <2>1, <2>2
<1>6. CASE ~Incremental
  <2>1. i \in pending
    BY <1>6 DEF Load, FileReadable, Undisturbed, DataInv, FilesAreRead
  <2>2. QED
    BY <1>3, <1>4, <1>6, <2>1 DEF Known, Undisturbed, ExactInv, PendingIsFresh, Extracting
<1>7. QED
  BY <1>5, <1>6

(* A load adds to items that were not there.                               *)
LEMMA OnceStep == Undisturbed => \A i \in Item : dwh'[i] <= 1
<1> SUFFICES ASSUME Undisturbed, NEW i \in Item PROVE dwh'[i] <= 1
  OBVIOUS
<1>1. dwh[i] \in Nat /\ dwh[i] <= 1
  BY DEF Undisturbed, TypeOK, ExactInv
<1>2. CASE Load
  <2>1. dwh'[i] = dwh[i] + (IF i \in job.read THEN 1 ELSE 0)
    BY <1>2 DEF Load
  <2>2. i \in job.read => dwh[i] = 0
    BY <1>2, LoadIsNew
  <2>3. QED
    BY <1>1, <2>1, <2>2
<1>3. CASE ~Load
  BY <1>1, <1>3, Changes DEF Undisturbed
<1>4. QED
  BY <1>2, <1>3

(* What is known stays known.                                              *)
LEMMA KnownStays ==
  ASSUME Undisturbed, NEW i \in Item, Known(i)
  PROVE  IF Incremental THEN i <= StoredWatermark' ELSE i \in ProcessedHashes'
<1>1. CASE ~Emit
  BY <1>1, QueriesStayQuiet DEF Known
<1>2. CASE Emit
  <2>1. rows' = rows \union {FinalRow}
    BY <1>2, Quiet DEF Undisturbed
  <2>2. CASE Incremental
    <3>1. StoredWatermark <= StoredWatermark'
      BY <1>2, <2>1, <2>2, EmitKeepsKnown DEF Undisturbed, ExactInv
    <3>2. StoredWatermark \in Nat /\ i \in Nat
      BY StoredWatermarkType, BoundAssumption DEF Undisturbed, Item, Mark
    <3>3. StoredWatermark' \in Nat
      BY NextStoredWatermarkType, BoundAssumption DEF Undisturbed, Mark
    <3>4. QED
      BY <2>2, <3>1, <3>2, <3>3 DEF Known
  <2>3. CASE ~Incremental
    BY <2>1, <2>3 DEF Known, ProcessedHashes
  <2>4. QED
    BY <2>2, <2>3
<1>3. QED
  BY <1>1, <1>2

(* What is loaded is known, or will be when its run has recorded.          *)
LEMMA KnownStep == Undisturbed => LoadedIsKnown'
<1> SUFFICES ASSUME Undisturbed, NEW i \in Item, dwh'[i] > 0
             PROVE  \/ IF Incremental THEN i <= StoredWatermark' ELSE i \in ProcessedHashes'
                    \/ task' \in Recording /\ xcom'.loaded /\ i \in job'.read
  BY DEF LoadedIsKnown, Known
<1>1. CASE Load
  <2>1. CASE i \in job.read
    <3>1. task' = "postLoad" /\ xcom' = [xcom EXCEPT !.loaded = TRUE]
      BY <1>1, Quiet, Successors DEF Undisturbed, Succeed
    <3>2. job' = job
      BY <1>1 DEF Load
    <3>3. xcom'.loaded
      BY <3>1 DEF Undisturbed, TypeOK
    <3>4. QED
      BY <2>1, <3>1, <3>2, <3>3 DEF Recording
  <2>2. CASE i \notin job.read
    <3>1. dwh[i] > 0
      BY <1>1, <2>2 DEF Load, Undisturbed, TypeOK
    <3>2. Known(i)
      BY <1>1, <3>1 DEF Load, Running, Undisturbed, ExactInv, LoadedIsKnown, Recording
    <3>3. QED
      BY <3>2, KnownStays
  <2>3. QED
    BY <2>1, <2>2
<1>2. CASE ~Load
  <2>1. dwh[i] > 0
    BY <1>2, Changes DEF Undisturbed
  <2>2. CASE Known(i)
    BY <2>2, KnownStays
  <2>3. CASE task \in Recording /\ xcom.loaded /\ i \in job.read /\ ~Emit
    <3>1. ~NewRun
      BY <2>3 DEF NewRun, StartRun, Recording
    <3>2. xcom' = xcom /\ job'.read = job.read
      BY <2>3, <3>1, LoadedRunStays DEF Undisturbed, Recording
    <3>3. task' \in Recording
      BY <2>3, RecordingStays DEF Undisturbed
    <3>4. QED
      BY <2>3, <3>2, <3>3
  <2>4. CASE xcom.loaded /\ i \in job.read /\ Emit
    <3>1. rows' = rows \union {FinalRow}
      BY <2>4, Quiet DEF Undisturbed
    <3>2. CASE Incremental
      <4>1. xcom.computed /\ xcom.metrics = "read"
        BY <2>4 DEF Undisturbed, ExactInv, ResultIsFinal
      <4>2. FinalRow.status = "success" /\ FinalRow.wm = MetricsWatermark
        BY <2>4, <3>2, <4>1 DEF FinalRow, FinalStatus
      <4>3. i <= MetricsWatermark /\ MetricsWatermark \in Nat /\ i \in Nat /\ i > 0
        BY <2>4, <3>2, MarkGrows, BoundAssumption DEF Undisturbed, ExactInv, Item
      <4>4. StoredWatermark' = FinalRow.wm
        BY <2>4, <3>1, <4>2, <4>3, StoredAfterEmit DEF Undisturbed
      <4>5. QED
        BY <3>2, <4>2, <4>3, <4>4
    <3>3. CASE ~Incremental
      <4>1. i \in pending
        BY <2>4, <3>3 DEF Undisturbed, DataInv, LoadedIsInWarehouse, FilesAreRead
      <4>2. FinalRow.files = pending
        BY DEF FinalRow
      <4>3. QED
        BY <3>1, <3>3, <4>1, <4>2 DEF ProcessedHashes
    <3>4. QED
      BY <3>2, <3>3
  <2>5. QED
    BY <2>1, <2>2, <2>3, <2>4 DEF Undisturbed, ExactInv, LoadedIsKnown
<1>3. QED
  BY <1>1, <1>2

(* The mark of a run stays at or above what earlier runs recorded.         *)
LEMMA MarkFreshStep == Undisturbed => MarkIsFresh'
<1> SUFFICES ASSUME Undisturbed, Incremental
             PROVE  /\ task' \in {"resolveFiles", "submit"} \union Extracting =>
                         StoredWatermark' <= wmIn'
                    /\ task' \in Recording /\ xcom'.loaded =>
                         \/ StoredWatermark' <= wmIn'
                         \/ task' = "emit" /\ FinalRow' \in rows'
  BY DEF MarkIsFresh
<1> DEFINE Begun == {"resolveFiles", "submit"} \union Extracting
<1>1. ASSUME task' \in Begun
      PROVE  StoredWatermark' <= wmIn'
  <2>1. ~NewRun
    BY <1>1 DEF NewRun, StartRun, Extracting
  <2>2. ~Emit
    BY <1>1, EmitStays, <2>1 DEF Emit, Running, Extracting, Undisturbed
  <2>3. StoredWatermark' = StoredWatermark
    BY <2>2, QueriesStayQuiet
  <2>4. CASE ResolveWatermark
    <3>1. override # 0 => ~(override < StoredWatermark)
      BY <2>4, Quiet DEF Undisturbed
    <3>2. StoredWatermark \in Nat /\ override \in Nat
      BY StoredWatermarkType, BoundAssumption DEF Undisturbed, TypeOK, Mark
    <3>3. wmIn' = IF override # 0 THEN override ELSE StoredWatermark
      BY <2>4 DEF ResolveWatermark
    <3>4. QED
      BY <2>3, <3>1, <3>2, <3>3
  <2>5. CASE ~ResolveWatermark
    <3>1. task \in Begun
      <4>1. CASE task' = task
        BY <1>1, <4>1
      <4>2. CASE PreFlight \/ PostLoad
        BY <1>1, <4>2, Successors DEF PreFlight, PostLoad, Succeed, Extracting
      <4>3. CASE \/ ResolveFiles \/ Submit \/ Poll \/ ValidateCompute \/ ReadMetrics
                 \/ QualityGate \/ Load
        BY <4>3 DEF ResolveFiles, Submit, Poll, ValidateCompute, ReadMetrics, QualityGate,
           Load, Running, Extracting
      <4>4. QED
        BY <1>1, <2>1, <2>5, <4>1, <4>2, <4>3, TaskStep DEF Undisturbed, Extracting
    <3>2. StoredWatermark <= wmIn
      BY <3>1 DEF Undisturbed, ExactInv, MarkIsFresh
    <3>3. wmIn' = wmIn
      BY <2>1, <2>5, Changes DEF Undisturbed
    <3>4. QED
      BY <2>3, <3>2, <3>3
  <2>6. QED
    BY <2>4, <2>5
<1>2. ASSUME task' \in Recording, xcom'.loaded
      PROVE  StoredWatermark' <= wmIn' \/ (task' = "emit" /\ FinalRow' \in rows')
  <2>1. ~NewRun
    BY <1>2 DEF NewRun, StartRun, Recording
  <2>2. CASE Emit
    <3>1. FinalRow' = FinalRow
      BY <2>2 DEF Emit, runVars, FinalRow, FinalStatus, MetricsWatermark
    <3>2. task' = "emit"
      BY <1>2, <2>1, <2>2, EmitStays DEF Emit, Running, Undisturbed, Recording
    <3>3. QED
      BY <2>2, <3>1, <3>2, Quiet DEF Undisturbed
  <2>3. CASE Load
    <3>1. StoredWatermark' = StoredWatermark
      BY <2>3, QueriesStayQuiet DEF Load, Emit, Running
    <3>2. StoredWatermark <= wmIn /\ wmIn' = wmIn
      BY <2>3 DEF Load, Running, runVars, Undisturbed, ExactInv, MarkIsFresh, Extracting
    <3>3. QED
      BY <3>1, <3>2
  <2>4. CASE ~Emit /\ ~Load
    <3>1. xcom.loaded
      BY <1>2, <2>4, LoadedByLoad DEF Undisturbed
    <3>2. task \notin Extracting /\ task \notin Preparing
      BY <3>1 DEF Undisturbed, ExactInv, NotLoadedYet, DataInv, NothingYet, NoXCom
    <3>3. task \in Recording \union {"end"}
      BY <3>2, Tasks DEF Undisturbed, TypeOK, Extracting, Preparing, Recording
    <3>4. task # "end"
      BY <1>2, <2>1, EndStays DEF Undisturbed, Recording
    <3>5. wmIn' = wmIn /\ FinalRow' = FinalRow
      BY <2>1, <3>1, <3>3, LoadedRunStays DEF Undisturbed, Recording
    <3>6. StoredWatermark' = StoredWatermark
      BY <2>4, QueriesStayQuiet
    <3>7. CASE StoredWatermark <= wmIn
      BY <3>5, <3>6, <3>7
    <3>8. CASE task = "emit" /\ FinalRow \in rows
      <4>1. task' = "emit"
        BY <1>2, <2>1, <3>8, EmitStays DEF Undisturbed, Recording
      <4>2. FinalRow' \in rows'
        BY <3>5, <3>8, RowsGrow DEF Undisturbed
      <4>3. QED
        BY <4>1, <4>2
    <3>9. QED
      BY <3>1, <3>3, <3>4, <3>7, <3>8 DEF Undisturbed, ExactInv, MarkIsFresh
  <2>5. QED
    BY <2>2, <2>3, <2>4
<1>3. QED
  BY <1>1, <1>2

(* The pending files of a run stay unprocessed until it records.           *)
LEMMA PendingFreshStep == Undisturbed => PendingIsFresh'
<1> SUFFICES ASSUME Undisturbed, ~Incremental, task' \in {"submit"} \union Extracting
             PROVE  \A f \in pending' : f \notin ProcessedHashes'
  BY DEF PendingIsFresh
<1>1. ~NewRun
  BY DEF NewRun, StartRun, Extracting
<1>2. ~Emit
  BY <1>1, EmitStays DEF Emit, Running, Extracting, Undisturbed
<1>3. ProcessedHashes' = ProcessedHashes
  BY <1>2, QueriesStayQuiet
<1>4. CASE ResolveFiles
  <2>1. pending' = (1 .. published) \ ProcessedHashes
    BY <1>4, Quiet DEF Undisturbed
  <2>2. QED
    BY <1>3, <2>1
<1>5. CASE ~ResolveFiles
  <2>1. task \in {"submit"} \union Extracting
    <3>1. CASE task' = task
      BY <3>1
    <3>2. CASE PreFlight \/ ResolveWatermark \/ PostLoad
      BY <3>2, Successors DEF PreFlight, ResolveWatermark, PostLoad, Succeed, Extracting
    <3>3. CASE Submit \/ Poll \/ ValidateCompute \/ ReadMetrics \/ QualityGate \/ Load
      BY <3>3 DEF Submit, Poll, ValidateCompute, ReadMetrics, QualityGate,
         Load, Running, Extracting
    <3>4. QED
      BY <1>1, <1>5, <3>1, <3>2, <3>3, TaskStep DEF Undisturbed, Extracting
  <2>2. pending' = pending
    BY <1>1, <1>5, Changes DEF Undisturbed
  <2>3. QED
    BY <1>3, <2>1, <2>2 DEF Undisturbed, ExactInv, PendingIsFresh
<1>6. QED
  BY <1>4, <1>5

(* The extraction is strict: nothing at the mark or below is read.         *)
LEMMA AboveStep == Undisturbed => ReadIsAbove'
<1> SUFFICES ASSUME Undisturbed, Incremental, NEW k \in job'.read PROVE wmIn' < k
  BY DEF ReadIsAbove
<1>1. CASE job'.read = ToExtract /\ wmIn' = wmIn
  <2>1. wmIn \in Nat /\ published \in Nat
    BY BoundAssumption DEF Undisturbed, TypeOK, Mark
  <2>2. QED
    BY <1>1, <2>1 DEF ToExtract
<1>2. CASE job'.read = job.read
  <2>1. ~NewRun
    BY DEF NewRun, StartRun, NoJob
  <2>2. ~ResolveWatermark
    BY <1>2 DEF ResolveWatermark, Running, Undisturbed, DataInv, NothingYet, Preparing, NoJob
  <2>3. QED
    BY <1>2, <2>1, <2>2, Changes DEF Undisturbed, ExactInv, ReadIsAbove
<1>3. QED
  BY <1>1, <1>2, JobChanges DEF Undisturbed

(* A load that succeeded is not attempted again.                           *)
LEMMA NotLoadedStep == Undisturbed => NotLoadedYet'
<1> SUFFICES ASSUME Undisturbed, task' \in Extracting, xcom'.loaded PROVE FALSE
  BY DEF NotLoadedYet
<1>1. ~Load
  BY Quiet, Successors DEF Undisturbed, Succeed, Extracting
<1>2. xcom.loaded /\ ~NewRun
  BY <1>1, LoadedByLoad DEF Undisturbed
<1>3. task \notin Extracting /\ task \notin Preparing
  BY <1>2 DEF Undisturbed, ExactInv, NotLoadedYet, DataInv, NothingYet, NoXCom
<1>4. ~(PreFlight \/ ResolveWatermark \/ ResolveFiles \/ Submit \/ Poll \/ ValidateCompute
        \/ ReadMetrics \/ QualityGate)
  BY <1>3 DEF PreFlight, ResolveWatermark, ResolveFiles, Submit, Poll, ValidateCompute,
     ReadMetrics, QualityGate, Running, Extracting, Preparing
<1>5. ~PostLoad
  BY Successors DEF PostLoad, Succeed, Extracting
<1>6. QED
  BY <1>1, <1>2, <1>3, <1>4, <1>5, TaskStep DEF Undisturbed, Extracting

(* Each task finds the result that the tasks before it left.               *)
LEMMA ResultStep == Undisturbed => ResultIsFinal'
<1> SUFFICES ASSUME Undisturbed PROVE ResultIsFinal'
  OBVIOUS
<1>1. ResultIsFinal /\ (task \in Extracting => ~xcom.loaded)
  BY DEF Undisturbed, ExactInv, NotLoadedYet
<1>2. xcom \in [result : {"none", "failed", "noMetrics", "complete"},
               computed : BOOLEAN, metrics : {"none", "missing", "read"},
               gated : BOOLEAN, loaded : BOOLEAN]
  BY DEF Undisturbed, TypeOK
<1>3. CASE NewRun
  BY <1>3 DEF NewRun, StartRun, NoXCom, ResultIsFinal
<1>4. CASE Poll
  <2>1. task' = "validateCompute" /\ ~xcom.loaded
    BY <1>1, <1>4, Successors DEF Poll, Succeed, Running, Extracting
  <2>2. xcom'.result # "noMetrics"
    BY <1>4, Quiet DEF Undisturbed
  <2>3. xcom' \in {[xcom EXCEPT !.result = "failed"], [xcom EXCEPT !.result = "complete"]}
    BY <1>2, <1>4, <2>2 DEF Poll
  <2>4. xcom'.result \in {"failed", "complete"} /\ ~xcom'.loaded
    BY <1>2, <2>1, <2>3
  <2>5. QED
    BY <2>1, <2>4 DEF ResultIsFinal
<1>5. CASE ValidateCompute
  <2>1. task' = "readMetrics" /\ ~xcom.loaded
    BY <1>1, <1>5, Successors DEF ValidateCompute, Succeed, Running, Extracting
  <2>2. xcom.result = "complete"
    BY <1>1, <1>2, <1>5 DEF ValidateCompute, Running, JobSucceeded, ResultIsFinal
  <2>3. xcom'.result = "complete" /\ xcom'.computed /\ ~xcom'.loaded
    BY <1>2, <1>5, <2>1, <2>2 DEF ValidateCompute
  <2>4. QED
    BY <2>1, <2>3 DEF ResultIsFinal
<1>6. CASE ReadMetrics
  <2>1. task' = "qualityGate" /\ ~xcom.loaded
    BY <1>1, <1>6, Successors DEF ReadMetrics, Succeed, Running, Extracting
  <2>2. xcom.result = "complete" /\ xcom.computed
    BY <1>1, <1>6 DEF ReadMetrics, Running, ResultIsFinal
  <2>3. xcom'.result = "complete" /\ xcom'.computed /\ ~xcom'.loaded /\ xcom'.metrics = "read"
    BY <1>2, <1>6, <2>1, <2>2 DEF ReadMetrics
  <2>4. QED
    BY <2>1, <2>3 DEF ResultIsFinal
<1>7. CASE QualityGate
  <2>1. task' = "load" /\ ~xcom.loaded
    BY <1>1, <1>7, Successors DEF QualityGate, Succeed, Running, Extracting
  <2>2. xcom.result = "complete" /\ xcom.computed /\ xcom.metrics = "read"
    BY <1>1, <1>7 DEF QualityGate, Running, ResultIsFinal
  <2>3. xcom'.result = "complete" /\ xcom'.computed /\ ~xcom'.loaded /\ xcom'.metrics = "read"
    BY <1>2, <1>7, <2>1, <2>2 DEF QualityGate
  <2>4. QED
    BY <2>1, <2>3 DEF ResultIsFinal
<1>8. CASE Load
  <2>1. task' = "postLoad" /\ xcom' = [xcom EXCEPT !.loaded = TRUE]
    BY <1>8, Quiet, Successors DEF Undisturbed, Succeed
  <2>2. xcom.result = "complete" /\ xcom.computed /\ xcom.metrics = "read"
    BY <1>1, <1>8 DEF Load, Running, ResultIsFinal
  <2>3. xcom'.result = "complete" /\ xcom'.computed /\ xcom'.metrics = "read"
    BY <1>2, <2>1, <2>2
  <2>4. QED
    BY <2>1, <2>3 DEF ResultIsFinal
<1>9. CASE ~(NewRun \/ Poll \/ ValidateCompute \/ ReadMetrics \/ QualityGate \/ Load)
  <2>1. xcom' = xcom
    BY <1>9, Changes DEF Undisturbed
  <2>2. task' \in {"validateCompute", "readMetrics", "qualityGate", "load"} => task' = task
    <3>1. CASE PreFlight \/ ResolveWatermark \/ ResolveFiles \/ Submit \/ PostLoad
      BY <3>1, Successors DEF PreFlight, ResolveWatermark, ResolveFiles, Submit,
         PostLoad, Succeed
    <3>2. QED
      BY <1>9, <3>1, TaskStep DEF Undisturbed
  <2>3. QED
    BY <1>1, <2>1, <2>2 DEF ResultIsFinal
<1>10. QED
  BY <1>3, <1>4, <1>5, <1>6, <1>7, <1>8, <1>9

(* ExactInv is inductive, given the other invariants.                      *)
LEMMA ExactStep ==
  TypeOK /\ DataInv /\ OrderInv /\ ExactInv /\ TypeOK' /\ OrderInv' /\ [Next]_vars => ExactInv'
<1> SUFFICES ASSUME TypeOK, DataInv, OrderInv, ExactInv, TypeOK', OrderInv', [Next]_vars,
                    ~disturbed'
             PROVE  ExactInv'
  BY DEF ExactInv
<1>1. Undisturbed
  BY Quiet DEF Undisturbed
<1>2. QED
  BY <1>1, LateStays, OnceStep, KnownStep, MarkFreshStep, PendingFreshStep, AboveStep,
     NotLoadedStep, ResultStep DEF ExactInv

(* ExactInv holds throughout.                                              *)
LEMMA ExactInvariant == Spec => []ExactInv
BY InitExact, IngestionTypes, DataInvariant, OrderInvariant, ExactStep, PTL DEF Spec

(* Failures of tasks and their retries alone never load an item twice: it  *)
(* takes a lost answer, a job polled before its end or a rewound mark.     *)
THEOREM LoadedExactlyOnce == Spec => []ExactlyOnceUndisturbed
<1>1. ExactInv => ExactlyOnceUndisturbed
  BY DEF ExactInv, ExactlyOnceUndisturbed
<1>2. QED
  BY <1>1, ExactInvariant, PTL
=============================================================================
