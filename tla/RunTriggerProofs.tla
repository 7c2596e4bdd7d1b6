-------------------------- MODULE RunTriggerProofs --------------------------
(***************************************************************************)
(* Proofs about RunTrigger, for every set of requests and keys and every   *)
(* number of retries.                                                      *)
(***************************************************************************)
EXTENDS RunTrigger, TLAPS

(* What a request has done is visible from where it is.                    *)
Progress ==
  \A r \in Request :
     /\ pc[r] \in {"idle", "lookup", "insert"} => r \notin rows
     /\ pc[r] \in {"writeDag", "done"} \union InAdapter => r \in rows
     /\ pc[r] = "done" =>
          reply[r] = "201" \/ (reply[r] = "2xx" /\ attempt[r] = MaxAttempts)
     /\ reply[r] = "201" => DagRunId(r, 0) \in dagRuns

(* Whatever travels to Airflow, or was created there, has a row.           *)
Recorded ==
  /\ \A p \in inflight : p[1] \in rows
  /\ \A d \in dagRuns : d[1] \in rows /\ d = DagRunId(d[1], 0)

(* A lookup's snapshot is of committed rows, and a request that goes on to *)
(* insert saw no row of its key.                                           *)
Snapshot ==
  \A r \in Request :
     /\ seen[r] \subseteq rows
     /\ pc[r] \in {"idle", "lookup"} => seen[r] = {}
     /\ (pc[r] = "insert" /\ key[r] # NoKey) =>
            \A x \in seen[r] : key[x] # key[r]

IInv == TypeOK /\ Progress /\ Recorded /\ Snapshot /\ NoDuplicateAfterCommit

(* Attempts within their bounds number the POSTs within theirs.            *)
LEMMA PostNoRange ==
  ASSUME NEW a \in 1 .. MaxAttempts, NEW o \in 1 .. MaxOuter
  PROVE  /\ MaxAttempts * MaxOuter \in Nat
         /\ (o - 1) * MaxAttempts + a \in 1 .. (MaxAttempts * MaxOuter)
<1>1. /\ MaxAttempts \in Nat /\ MaxOuter \in Nat
      /\ a \in Nat /\ 1 <= a /\ a <= MaxAttempts
      /\ o \in Nat /\ 1 <= o /\ o <= MaxOuter
  BY RetryAssumption
<1>2. PICK k \in Nat : MaxOuter = o + k
  <2>1. MaxOuter - o \in Nat /\ MaxOuter = o + (MaxOuter - o)
    BY <1>1
  <2>2. QED
    BY <2>1
<1>3. /\ MaxAttempts * MaxOuter = MaxAttempts * o + MaxAttempts * k
      /\ (o - 1) * MaxAttempts = MaxAttempts * o - MaxAttempts
      /\ MaxAttempts * k \in Nat /\ MaxAttempts * o \in Nat
      /\ (o - 1) * MaxAttempts \in Nat
  BY <1>1, <1>2
<1>4. QED
  BY <1>1, <1>3

(* The number of a POST is one of those that can be.                       *)
LEMMA PostNoType ==
  ASSUME TypeOK, NEW r \in Request
  PROVE  PostNo(r) \in PostNos
<1>1. attempt[r] \in 1 .. MaxAttempts /\ outer[r] \in 1 .. MaxOuter
  BY DEF TypeOK
<1>2. QED
  BY <1>1, PostNoRange DEF PostNo, PostNos

(* No request has been made.                                               *)
LEMMA InitIInv == Init => IInv
<1> SUFFICES ASSUME Init PROVE IInv
  OBVIOUS
<1>1. TypeOK
  <2>1. 1 \in 1 .. MaxAttempts /\ 1 \in 1 .. MaxOuter
    BY RetryAssumption
  <2>2. QED
    BY <2>1 DEF Init, TypeOK, Location, InAdapter, Ended, Status
<1>2. Progress /\ Recorded
  BY DEF Init, Progress, Recorded, InAdapter
<1>3. Snapshot /\ NoDuplicateAfterCommit
  BY DEF Init, Snapshot, NoDuplicateAfterCommit
<1>4. QED
  BY <1>1, <1>2, <1>3 DEF IInv

(* Type correctness is preserved by every action.                          *)
LEMMA TypeStep == TypeOK /\ [Next]_vars => TypeOK'
<1> SUFFICES ASSUME TypeOK, [Next]_vars PROVE TypeOK'
  OBVIOUS
<1> USE DEF Location, InAdapter, Ended, Status, Goto, tableVars, adapterVars, airflowVars
<1>1. ASSUME NEW r \in Request, NEW k \in Key \union {NoKey}, Receive(r, k)
      PROVE TypeOK'
  BY <1>1 DEF TypeOK, Receive
<1>2. ASSUME NEW r \in Request, Lookup(r) PROVE TypeOK'
  BY <1>2 DEF TypeOK, Lookup
<1>3. ASSUME NEW r \in Request, Insert(r) PROVE TypeOK'
  BY <1>3 DEF TypeOK, Insert
<1>4. ASSUME NEW r \in Request, WriteDag(r) PROVE TypeOK'
  BY <1>4 DEF TypeOK, WriteDag
<1>5. ASSUME NEW r \in Request, Post(r) PROVE TypeOK'
  BY <1>5, PostNoType DEF TypeOK, Post
<1>6. ASSUME NEW r \in Request, NetworkError(r) PROVE TypeOK'
  <2>1. attempt' \in [Request -> 1 .. MaxAttempts]
    BY <1>6, RetryAssumption DEF TypeOK, NetworkError
  <2>2. outer' \in [Request -> 1 .. MaxOuter]
    BY <1>6, RetryAssumption DEF TypeOK, NetworkError
  <2>3. QED
    BY <1>6, <2>1, <2>2 DEF TypeOK, NetworkError
<1>7. ASSUME NEW r \in Request, Answered(r) PROVE TypeOK'
  <2>1. attempt' \in [Request -> 1 .. MaxAttempts]
    BY <1>7, RetryAssumption DEF TypeOK, Answered
  <2>2. QED
    BY <1>7, <2>1 DEF TypeOK, Answered
<1>8. ASSUME NEW r \in Request, Crash(r) PROVE TypeOK'
  BY <1>8 DEF TypeOK, Crash
<1>9. CASE ParseDag
  BY <1>9 DEF TypeOK, ParseDag
<1>10. ASSUME NEW r \in Request, NEW n \in PostNos, AirflowHandles(r, n)
       PROVE TypeOK'
  BY <1>10 DEF TypeOK, AirflowHandles, Serve, DagRunId
<1>11. CASE UNCHANGED vars
  BY <1>11 DEF TypeOK, vars
<1>12. QED
  BY <1>1, <1>2, <1>3, <1>4, <1>5, <1>6, <1>7, <1>8, <1>9, <1>10, <1>11
     DEF Next, WorkerStep

(* The rest of the inductive invariant, action by action.                  *)
LEMMA InvStep == IInv /\ [Next]_vars => IInv'
<1> SUFFICES ASSUME IInv, [Next]_vars PROVE IInv'
  OBVIOUS
<1>0. TypeOK'
  BY TypeStep DEF IInv
<1> USE <1>0 DEF Location, InAdapter, Ended, Goto, tableVars, adapterVars, airflowVars
<1>1. ASSUME NEW r \in Request, NEW k \in Key \union {NoKey}, Receive(r, k)
      PROVE IInv'
  <2>1. Progress' /\ Recorded'
    BY <1>1 DEF IInv, TypeOK, Progress, Recorded, Receive, DagRunId
  <2>2. \A x \in rows : x # r
    BY <1>1 DEF IInv, Progress, Receive
  <2>3. UNCHANGED <<rows, seen>> /\ \A x \in rows : x \in Request /\ key'[x] = key[x]
    BY <1>1, <2>2 DEF IInv, TypeOK, Receive
  <2>4. Snapshot'
    <3>1. SUFFICES ASSUME NEW q \in Request
                   PROVE  /\ seen[q] \subseteq rows
                          /\ pc'[q] \in {"idle", "lookup"} => seen[q] = {}
                          /\ (pc'[q] = "insert" /\ key'[q] # NoKey) =>
                                \A x \in seen[q] : key'[x] # key'[q]
      BY <2>3 DEF Snapshot
    <3>2. CASE q = r
      BY <1>1, <3>2 DEF IInv, TypeOK, Snapshot, Receive
    <3>3. CASE q # r
      BY <1>1, <2>3, <3>3 DEF IInv, TypeOK, Snapshot, Receive
    <3>4. QED
      BY <3>2, <3>3
  <2>5. NoDuplicateAfterCommit'
    BY <2>3 DEF IInv, NoDuplicateAfterCommit
  <2>6. QED
    BY <2>1, <2>4, <2>5 DEF IInv
<1>2. ASSUME NEW r \in Request, Lookup(r) PROVE IInv'
  <2>1. Progress' /\ Recorded'
    BY <1>2 DEF IInv, TypeOK, Progress, Recorded, Lookup, DagRunId
  <2>2. Snapshot'
    BY <1>2 DEF IInv, TypeOK, Snapshot, Lookup, Matching
  <2>3. NoDuplicateAfterCommit'
    BY <1>2 DEF IInv, TypeOK, Progress, NoDuplicateAfterCommit, Lookup
  <2>4. QED
    BY <2>1, <2>2, <2>3 DEF IInv
<1>3. ASSUME NEW r \in Request, Insert(r) PROVE IInv'
  <2>1. Progress' /\ Recorded'
    BY <1>3 DEF IInv, TypeOK, Progress, Recorded, Insert, DagRunId
  <2>2. Snapshot'
    BY <1>3 DEF IInv, TypeOK, Snapshot, Insert
  <2>3. NoDuplicateAfterCommit'
    BY <1>3 DEF IInv, TypeOK, Progress, Snapshot, NoDuplicateAfterCommit, Insert
  <2>4. QED
    BY <2>1, <2>2, <2>3 DEF IInv
<1>4. ASSUME NEW r \in Request, WriteDag(r) PROVE IInv'
  BY <1>4 DEF IInv, TypeOK, Progress, Recorded, Snapshot, NoDuplicateAfterCommit,
              WriteDag, DagRunId
<1>5. ASSUME NEW r \in Request, Post(r) PROVE IInv'
  <2>1. Progress'
    BY <1>5 DEF IInv, TypeOK, Progress, Post, DagRunId
  <2>2. Recorded'
    BY <1>5 DEF IInv, TypeOK, Progress, Recorded, Post, DagRunId
  <2>3. Snapshot' /\ NoDuplicateAfterCommit'
    BY <1>5 DEF IInv, TypeOK, Snapshot, NoDuplicateAfterCommit, Post
  <2>4. QED
    BY <2>1, <2>2, <2>3 DEF IInv
<1>6. ASSUME NEW r \in Request, NetworkError(r) PROVE IInv'
  BY <1>6 DEF IInv, TypeOK, Progress, Recorded, Snapshot, NoDuplicateAfterCommit,
              NetworkError, DagRunId
<1>7. ASSUME NEW r \in Request, Answered(r) PROVE IInv'
  BY <1>7 DEF IInv, TypeOK, Progress, Recorded, Snapshot, NoDuplicateAfterCommit,
              Answered, DagRunId
<1>8. ASSUME NEW r \in Request, Crash(r) PROVE IInv'
  BY <1>8 DEF IInv, TypeOK, Progress, Recorded, Snapshot, NoDuplicateAfterCommit,
              Crash, DagRunId
<1>9. CASE ParseDag
  BY <1>9 DEF IInv, TypeOK, Progress, Recorded, Snapshot, NoDuplicateAfterCommit,
              ParseDag, DagRunId
<1>10. ASSUME NEW r \in Request, NEW n \in PostNos, AirflowHandles(r, n)
       PROVE IInv'
  <2>1. Recorded' /\ dagRuns \subseteq dagRuns'
    BY <1>10 DEF IInv, TypeOK, Recorded, AirflowHandles, Serve, DagRunId
  <2>2. Progress'
    BY <1>10, <2>1 DEF IInv, TypeOK, Progress, AirflowHandles, Serve, DagRunId
  <2>3. Snapshot' /\ NoDuplicateAfterCommit'
    BY <1>10 DEF IInv, TypeOK, Snapshot, NoDuplicateAfterCommit, AirflowHandles
  <2>4. QED
    BY <2>1, <2>2, <2>3 DEF IInv
<1>11. CASE UNCHANGED vars
  BY <1>11 DEF vars, IInv, TypeOK, Progress, Recorded, Snapshot,
               NoDuplicateAfterCommit, DagRunId
<1>12. QED
  BY <1>1, <1>2, <1>3, <1>4, <1>5, <1>6, <1>7, <1>8, <1>9, <1>10, <1>11
     DEF Next, WorkerStep

(* The invariant holds in every state.                                     *)
LEMMA Invariance == Spec => []IInv
<1>1. QED
  BY InitIInv, InvStep, PTL DEF Spec

(* Type correctness of the trigger and its adapter.                        *)
THEOREM TypeCorrect == Spec => []TypeOK
<1>1. IInv => TypeOK
  BY DEF IInv
<1>2. QED
  BY <1>1, Invariance, PTL

(* No DAG run without a committed row, for every number of requests, POSTs *)
(* and crashes.                                                            *)
THEOREM DagRunsAreRecorded == Spec => []DagRunsHaveRows
<1>1. IInv => DagRunsHaveRows
  BY DEF IInv, Recorded, DagRunsHaveRows
<1>2. QED
  BY <1>1, Invariance, PTL

(* At most one DAG run per platform run, however often the trigger is      *)
(* retried.                                                                *)
THEOREM OneDagRun == Spec => []OneDagRunPerRow
<1>1. IInv => OneDagRunPerRow
  BY DEF IInv, Recorded, OneDagRunPerRow, DagRunId
<1>2. QED
  BY <1>1, Invariance, PTL

(* A success answer is only given when the DAG run exists, or when the     *)
(* last attempt of the inner loop was answered with another 2xx.           *)
THEOREM SuccessIsExplained == Spec => []SuccessIsAnswered
<1>1. IInv => SuccessIsAnswered
  BY DEF IInv, Progress, SuccessIsAnswered, DagRunId
<1>2. QED
  BY <1>1, Invariance, PTL

(* Sequential idempotency: no second run of a key for a request that       *)
(* looked it up after the first was committed.                             *)
THEOREM SequentialIdempotency == Spec => []NoDuplicateAfterCommit
<1>1. IInv => NoDuplicateAfterCommit
  BY DEF IInv
<1>2. QED
  BY <1>1, Invariance, PTL

(* The trigger implements the run ledger: recorded before launched, each   *)
(* at most once.                                                           *)
THEOREM ImplementsLedger == Spec => LedgerSpec
<1> DEFINE Launched == {d[1] : d \in dagRuns}
<1>1. Init => Ledger!Init
  BY DEF Init, Ledger!Init
<1>2. IInv /\ [Next]_vars => [Ledger!Next]_(Ledger!ledgerVars)
  <2> SUFFICES ASSUME IInv, [Next]_vars
               PROVE  Ledger!Next \/ UNCHANGED <<rows, Launched>>
    BY DEF Ledger!ledgerVars
  <2> USE DEF tableVars, adapterVars, airflowVars
  <2>1. ASSUME NEW r \in Request, Insert(r)
        PROVE  Ledger!Next \/ UNCHANGED <<rows, Launched>>
    <3>1. UNCHANGED Launched
      BY <2>1 DEF Insert
    <3>2. r \notin rows
      BY <2>1 DEF Insert, IInv, Progress
    <3>3. Ledger!Record(r) \/ UNCHANGED rows
      BY <2>1, <3>1, <3>2 DEF Insert, Ledger!Record
    <3>4. QED
      BY <3>1, <3>3 DEF Ledger!Next
  <2>2. ASSUME NEW r \in Request, NEW n \in PostNos, AirflowHandles(r, n)
        PROVE  Ledger!Next \/ UNCHANGED <<rows, Launched>>
    <3>1. UNCHANGED rows /\ r \in rows
      BY <2>2 DEF AirflowHandles, IInv, Recorded
    <3>2. CASE dagRuns' = dagRuns
      BY <3>1, <3>2
    <3>3. CASE <<r, 0>> \notin dagRuns /\ dagRuns' = dagRuns \union {<<r, 0>>}
      <4>1. r \notin Launched
        BY <3>3 DEF IInv, Recorded, DagRunId
      <4>2. Launched' = Launched \union {r}
        BY <3>3
      <4>3. Ledger!Launch(r)
        BY <3>1, <4>1, <4>2 DEF Ledger!Launch
      <4>4. QED
        BY <4>3 DEF Ledger!Next
    <3>4. QED
      BY <2>2, <3>2, <3>3 DEF AirflowHandles, Serve, DagRunId
  <2>3. CASE \E r \in Request : \E k \in Key \union {NoKey} : Receive(r, k)
    BY <2>3 DEF Receive
  <2>4. ASSUME NEW r \in Request,
               Lookup(r) \/ WriteDag(r) \/ Post(r) \/ NetworkError(r) \/ Answered(r)
                         \/ Crash(r)
        PROVE  UNCHANGED <<rows, Launched>>
    BY <2>4 DEF Lookup, WriteDag, Post, NetworkError, Answered, Crash
  <2>5. CASE ParseDag
    BY <2>5 DEF ParseDag
  <2>6. CASE UNCHANGED vars
    BY <2>6 DEF vars
  <2>7. QED
    BY <2>1, <2>2, <2>3, <2>4, <2>5, <2>6 DEF Next, WorkerStep
<1>3. QED
  BY <1>1, <1>2, Invariance, PTL DEF Spec, LedgerSpec, Ledger!Spec
-----------------------------------------------------------------------------
(* The retry loops.                                                        *)

(* A retry of either loop is the next POST: the outer loop goes on where   *)
(* the inner one stopped.                                                  *)
LEMMA RetryIsNextPost ==
  ASSUME TypeOK, NEW r \in Request, NetworkError(r) \/ Answered(r), pc'[r] = "sending"
  PROVE  PostNo(r)' = PostNo(r) + 1
<1>1. /\ MaxAttempts \in Nat /\ attempt[r] \in Nat /\ outer[r] \in Nat
      /\ attempt \in [Request -> 1 .. MaxAttempts] /\ outer \in [Request -> 1 .. MaxOuter]
      /\ pc \in [Request -> Location]
  BY RetryAssumption DEF TypeOK
<1>2. \A m, o, a \in Nat : /\ (o - 1) * m + (a + 1) = (o - 1) * m + a + 1
                           /\ (o + 1 - 1) * m + 1 = (o - 1) * m + m + 1
  OBVIOUS
<1>3. \/ attempt'[r] = attempt[r] + 1 /\ outer'[r] = outer[r]
      \/ attempt[r] = MaxAttempts /\ attempt'[r] = 1 /\ outer'[r] = outer[r] + 1
  <2>1. CASE NetworkError(r)
    BY <1>1, <2>1 DEF NetworkError, Goto
  <2>2. CASE Answered(r)
    BY <1>1, <2>2 DEF Answered, Goto
  <2>3. QED
    BY <2>1, <2>2
<1>4. QED
  BY <1>1, <1>2, <1>3 DEF PostNo

(* A move of a request uses up one of its moves.                           *)
LEMMA MoveIsUsedUp ==
  ASSUME TypeOK, TypeOK', NEW r \in Request,
         \/ \E k \in Key \union {NoKey} : Receive(r, k)
         \/ WorkerStep(r)
         \/ Crash(r)
  PROVE  MovesLeft(r)' \in 0 .. MovesLeft(r) - 1
<1> DEFINE posts == MaxAttempts * MaxOuter
           before == PostNo(r)
           after == PostNo(r)'
<1>1. pc \in [Request -> Location] /\ pc'[r] \in Location
  BY DEF TypeOK
<1>2. /\ posts \in Nat
      /\ before \in Nat /\ 1 <= before /\ before <= posts
      /\ after \in Nat /\ 1 <= after /\ after <= posts
  <2>1. /\ attempt[r] \in 1 .. MaxAttempts /\ outer[r] \in 1 .. MaxOuter
        /\ attempt'[r] \in 1 .. MaxAttempts /\ outer'[r] \in 1 .. MaxOuter
    BY DEF TypeOK
  <2>2. posts \in Nat /\ before \in 1 .. posts /\ after \in 1 .. posts
    BY <2>1, PostNoRange DEF PostNo
  <2>3. QED
    BY <2>2
<1>3. MovesLeft(r) = CASE pc[r] = "idle"     -> 2 * posts + 4
                       [] pc[r] = "lookup"   -> 2 * posts + 3
                       [] pc[r] = "insert"   -> 2 * posts + 2
                       [] pc[r] = "writeDag" -> 2 * posts + 1
                       [] pc[r] = "sending"  -> 2 * (posts - before) + 2
                       [] pc[r] = "posting"  -> 2 * (posts - before) + 1
                       [] pc[r] \in Ended    -> 0
  BY DEF MovesLeft
<1>4. MovesLeft(r)' = CASE pc'[r] = "idle"     -> 2 * posts + 4
                        [] pc'[r] = "lookup"   -> 2 * posts + 3
                        [] pc'[r] = "insert"   -> 2 * posts + 2
                        [] pc'[r] = "writeDag" -> 2 * posts + 1
                        [] pc'[r] = "sending"  -> 2 * (posts - after) + 2
                        [] pc'[r] = "posting"  -> 2 * (posts - after) + 1
                        [] pc'[r] \in Ended    -> 0
  BY DEF MovesLeft
<1>5. \/ pc'[r] \in Ended /\ pc[r] \notin Ended
      \/ pc[r] = "idle" /\ pc'[r] = "lookup"
      \/ pc[r] = "lookup" /\ pc'[r] = "insert"
      \/ pc[r] = "insert" /\ pc'[r] = "writeDag"
      \/ pc[r] = "writeDag" /\ pc'[r] = "sending"
      \/ pc[r] = "sending" /\ pc'[r] = "posting" /\ after = before
      \/ pc[r] = "posting" /\ pc'[r] = "sending" /\ after = before + 1
  <2> USE DEF Goto, Ended
  <2>1. CASE \E k \in Key \union {NoKey} : Receive(r, k)
    BY <1>1, <2>1 DEF Receive
  <2>2. CASE Lookup(r)
    BY <1>1, <2>2 DEF Lookup
  <2>3. CASE Insert(r)
    BY <1>1, <2>3 DEF Insert
  <2>4. CASE WriteDag(r)
    BY <1>1, <2>4 DEF WriteDag
  <2>5. CASE Post(r)
    <3>1. pc[r] = "sending" /\ pc'[r] = "posting" /\ UNCHANGED <<attempt, outer>>
      BY <1>1, <2>5 DEF Post
    <3>2. QED
      BY <3>1 DEF PostNo
  <2>6. CASE NetworkError(r) \/ Answered(r)
    <3>1. pc[r] = "posting" /\ (pc'[r] = "sending" \/ pc'[r] \in Ended)
      BY <1>1, <2>6 DEF NetworkError, Answered
    <3>2. CASE pc'[r] = "sending"
      BY <2>6, <3>1, <3>2, RetryIsNextPost
    <3>3. CASE pc'[r] \in Ended
      BY <3>1, <3>3
    <3>4. QED
      BY <3>1, <3>2, <3>3
  <2>7. CASE Crash(r)
    BY <1>1, <2>7 DEF Crash
  <2>8. QED
    BY <2>1, <2>2, <2>3, <2>4, <2>5, <2>6, <2>7 DEF WorkerStep
<1>6. pc[r] \in Location
  BY <1>1
<1> HIDE DEF posts, before, after
<1>7. QED
  BY <1>2, <1>3, <1>4, <1>5, <1>6 DEF Location, InAdapter, Ended

(* A request that does not move keeps its moves.                           *)
LEMMA OthersKeepTheirMoves ==
  ASSUME NEW r \in Request,
         pc'[r] = pc[r], attempt'[r] = attempt[r], outer'[r] = outer[r]
  PROVE  MovesLeft(r)' = MovesLeft(r)
<1>1. PostNo(r)' = PostNo(r)
  BY DEF PostNo
<1>2. QED
  BY <1>1 DEF MovesLeft

(* Every move of every request uses up one of the moves its two retry      *)
(* loops allow, and nothing gives one back, whatever the bounds are.       *)
THEOREM MovesAreBounded == Spec => MovesAreUsedUp
<1> DEFINE Counted == \A r \in Request : IF pc'[r] = pc[r]
                                         THEN MovesLeft(r)' = MovesLeft(r)
                                         ELSE MovesLeft(r)' \in 0 .. MovesLeft(r) - 1
<1>1. IInv /\ IInv' /\ [Next]_vars => [Counted]_vars
  <2> SUFFICES ASSUME IInv, IInv', [Next]_vars, NEW q \in Request
               PROVE  IF pc'[q] = pc[q]
                      THEN MovesLeft(q)' = MovesLeft(q)
                      ELSE MovesLeft(q)' \in 0 .. MovesLeft(q) - 1
    OBVIOUS
  <2>0. TypeOK /\ TypeOK'
    BY DEF IInv
  <2>1. ASSUME NEW r \in Request,
               \/ \E k \in Key \union {NoKey} : Receive(r, k)
               \/ WorkerStep(r)
               \/ Crash(r)
        PROVE  IF pc'[q] = pc[q]
               THEN MovesLeft(q)' = MovesLeft(q)
               ELSE MovesLeft(q)' \in 0 .. MovesLeft(q) - 1
    <3>1. CASE q = r
      <4>1. MovesLeft(r)' \in 0 .. MovesLeft(r) - 1
        BY <2>0, <2>1, MoveIsUsedUp
      <4>2. pc'[r] # pc[r]
        BY <2>0, <2>1 DEF TypeOK, WorkerStep, Receive, Lookup, Insert, WriteDag, Post,
                    NetworkError, Answered, Crash, Goto, Ended
      <4>3. QED
        BY <3>1, <4>1, <4>2
    <3>2. CASE q # r
      <4>1. pc'[q] = pc[q] /\ attempt'[q] = attempt[q] /\ outer'[q] = outer[q]
        BY <2>0, <2>1, <3>2 DEF TypeOK, WorkerStep, Receive, Lookup, Insert, WriteDag, Post,
                          NetworkError, Answered, Crash, Goto, tableVars, adapterVars
      <4>2. QED
        BY <4>1, OthersKeepTheirMoves
    <3>3. QED
      BY <3>1, <3>2
  <2>2. CASE ParseDag \/ \E r \in Request : \E n \in PostNos : AirflowHandles(r, n)
    <3>1. UNCHANGED <<pc, attempt, outer>>
      BY <2>2 DEF ParseDag, AirflowHandles, adapterVars
    <3>2. QED
      BY <3>1, OthersKeepTheirMoves
  <2>3. CASE UNCHANGED vars
    BY <2>3, OthersKeepTheirMoves DEF vars
  <2>4. QED
    BY <2>1, <2>2, <2>3 DEF Next
<1>2. QED
  BY <1>1, Invariance, PTL DEF Spec, MovesAreUsedUp
=============================================================================
