----------------------------- MODULE RunTrigger -----------------------------
(***************************************************************************)
(* Triggering a pipeline execution: POST /v1/pipelines/{id}/run.           *)
(*                                                                         *)
(* Each request runs TriggerPipelineRunUseCase.execute in some worker of   *)
(* the platform API: look the idempotency key up, insert a RUNNING row and *)
(* commit, write the DAG file, then call Airflow through                   *)
(* AirflowOrchestratorAdapter.trigger_dag, which retries.  Requests        *)
(* interleave at every await; a worker may crash between any two steps; a  *)
(* POST to Airflow may be lost, answered too late, or arrive after its     *)
(* sender has given up.                                                    *)
(*                                                                         *)
(* A request creates at most one run, so the run's uuid is named by the    *)
(* request.  A Key stands for a (pipeline, Idempotency-Key) pair, which is *)
(* what the lookup filters on.                                             *)
(***************************************************************************)
EXTENDS Naturals, FiniteSets

CONSTANTS Request,      \* HTTP requests, and the runs they create
          Key,          \* idempotency keys
          NoKey,        \* the header is absent
          MaxAttempts,  \* max_retries of the adapter's inner loop (10 in the code)
          MaxOuter      \* attempts of the tenacity decorator (3 in the code)

ASSUME KeyAssumption == NoKey \notin Key
ASSUME RetryAssumption == MaxAttempts \in Nat \ {0} /\ MaxOuter \in Nat \ {0}

VARIABLES pc,        \* where each request is
          key,       \* its Idempotency-Key header
          rows,      \* committed rows of pipeline_runs
          seen,      \* rows visible to the request's lookup (history)
          attempt,   \* inner attempt number of the adapter
          outer,     \* tenacity attempt number
          inflight,  \* POSTs travelling to Airflow: <<request, number>>
          reply,     \* status the current POST was answered with
          dagParsed, \* Airflow's scheduler knows the DAG
          dagFile,   \* the DAG file is on the shared volume
          dagRuns    \* Airflow's dag_run_ids

vars == <<pc, key, rows, seen, attempt, outer, inflight, reply,
          dagParsed, dagFile, dagRuns>>
tableVars == <<key, rows, seen>>
adapterVars == <<attempt, outer, inflight, reply>>
airflowVars == <<dagParsed, dagFile, dagRuns>>

Ended == {"done", "replayed", "failed", "crashed"}
InAdapter == {"sending", "posting"}
Location == {"idle", "lookup", "insert", "writeDag"} \union InAdapter \union Ended
(* "201" is 200 or 201, "2xx" any other status that raise_for_status lets  *)
(* through.                                                                *)
Status == {"none", "201", "2xx", "404", "409", "error"}

(* The number of a POST: unique over both retry loops.                     *)
PostNo(r) == (outer[r] - 1) * MaxAttempts + attempt[r]
PostNos == 1 .. (MaxAttempts * MaxOuter)

(* Mutant: a new dag_run_id for every attempt.                             *)
FreshDagRunId(r, n) == <<r, n>>

(* The dag_run_id is generated once, with the row, so that every POST of   *)
(* the request carries the same one whatever its number n.                 *)
DagRunId(r, n) == <<r, 0>>

TypeOK ==
  /\ pc \in [Request -> Location]
  /\ key \in [Request -> Key \union {NoKey}]
  /\ rows \subseteq Request
  /\ seen \in [Request -> SUBSET Request]
  /\ attempt \in [Request -> 1 .. MaxAttempts]
  /\ outer \in [Request -> 1 .. MaxOuter]
  /\ inflight \subseteq Request \X PostNos
  /\ reply \in [Request -> Status]
  /\ dagParsed \in BOOLEAN
  /\ dagFile \in BOOLEAN
  /\ dagRuns \subseteq Request \X Nat

Init ==
  /\ pc = [r \in Request |-> "idle"]
  /\ key = [r \in Request |-> NoKey]
  /\ rows = {}
  /\ seen = [r \in Request |-> {}]
  /\ attempt = [r \in Request |-> 1]
  /\ outer = [r \in Request |-> 1]
  /\ inflight = {}
  /\ reply = [r \in Request |-> "none"]
  /\ dagParsed = FALSE
  /\ dagFile \in BOOLEAN      \* registration may have written it already
  /\ dagRuns = {}

Goto(r, l) == pc' = [pc EXCEPT ![r] = l]

-----------------------------------------------------------------------------
(* The use case.                                                           *)

(* The request arrives.  A pipeline that does not exist ends it with 404.  *)
Receive(r, k) ==
  /\ pc[r] = "idle"
  /\ key' = [key EXCEPT ![r] = k]
  /\ Goto(r, "lookup") \/ Goto(r, "failed")
  /\ UNCHANGED <<rows, seen, adapterVars, airflowVars>>

(* Mutant: only runs that reached Airflow are found.                       *)
MatchingLaunched(r) == {x \in rows : key[x] = key[r] /\ <<x, 0>> \in dagRuns}

Matching(r) == {x \in rows : key[x] = key[r]}

(* find_by_idempotency_key sees the committed rows.  Nothing found: go on. *)
(* One row: return it.  Several: scalar_one_or_none raises.                *)
Lookup(r) ==
  /\ pc[r] = "lookup"
  /\ seen' = [seen EXCEPT ![r] = rows]
  /\ \/ /\ key[r] = NoKey \/ Matching(r) = {}
        /\ Goto(r, "insert")
     \/ /\ key[r] # NoKey
        /\ Cardinality(Matching(r)) = 1
        /\ Goto(r, "replayed")
     \/ /\ key[r] # NoKey
        /\ Cardinality(Matching(r)) > 1
        /\ Goto(r, "failed")
  /\ UNCHANGED <<key, rows, adapterVars, airflowVars>>

(* Mutant: the commit is missing.                                          *)
InsertWithoutCommit(r) ==
  /\ pc[r] = "insert"
  /\ Goto(r, "writeDag")
  /\ UNCHANGED <<key, seen, rows, adapterVars, airflowVars>>

(* save and commit.  The index on (pipeline_id, idempotency_key) is not    *)
(* unique, so the insert never conflicts; a database error rolls back.     *)
Insert(r) ==
  /\ pc[r] = "insert"
  /\ \/ Goto(r, "writeDag") /\ rows' = rows \union {r}
     \/ Goto(r, "failed") /\ UNCHANGED rows
  /\ UNCHANGED <<key, seen, adapterVars, airflowVars>>

(* Generate the DAG and write its file; either may raise.                  *)
WriteDag(r) ==
  /\ pc[r] = "writeDag"
  /\ \/ Goto(r, "sending") /\ dagFile' = TRUE
     \/ Goto(r, "failed") /\ UNCHANGED dagFile
  /\ UNCHANGED <<tableVars, adapterVars, dagParsed, dagRuns>>

-----------------------------------------------------------------------------
(* The adapter.                                                            *)

Post(r) ==
  /\ pc[r] = "sending"
  /\ inflight' = inflight \union {<<r, PostNo(r)>>}
  /\ reply' = [reply EXCEPT ![r] = "none"]
  /\ Goto(r, "posting")
  /\ UNCHANGED <<tableVars, attempt, outer, airflowVars>>

(* Mutant: one attempt too many.                                           *)
NetworkErrorOffByOne(r) ==
  /\ pc[r] = "posting"
  /\ attempt[r] <= MaxAttempts
  /\ attempt' = [attempt EXCEPT ![r] = @ + 1]
  /\ Goto(r, "sending")
  /\ UNCHANGED <<outer, tableVars, inflight, reply, airflowVars>>

(* A RequestError: refused, timed out, or the connection was cut.  The     *)
(* inner loop retries; its last attempt raises and tenacity starts the     *)
(* whole call again, until its own attempts are used up.                   *)
NetworkError(r) ==
  /\ pc[r] = "posting"
  /\ \/ /\ attempt[r] < MaxAttempts
        /\ attempt' = [attempt EXCEPT ![r] = @ + 1]
        /\ Goto(r, "sending")
        /\ UNCHANGED outer
     \/ /\ attempt[r] = MaxAttempts
        /\ outer[r] < MaxOuter
        /\ attempt' = [attempt EXCEPT ![r] = 1]
        /\ outer' = [outer EXCEPT ![r] = @ + 1]
        /\ Goto(r, "sending")
     \/ /\ attempt[r] = MaxAttempts
        /\ outer[r] = MaxOuter
        /\ Goto(r, "failed")
        /\ UNCHANGED <<attempt, outer>>
  /\ UNCHANGED <<tableVars, inflight, reply, airflowVars>>

(* Mutant: the loop falls through after the last 404.                      *)
AnsweredFallThrough(r) ==
  /\ pc[r] = "posting" /\ reply[r] # "none"
  /\ IF reply[r] = "404" /\ attempt[r] < MaxAttempts
     THEN Goto(r, "sending") /\ attempt' = [attempt EXCEPT ![r] = @ + 1]
     ELSE Goto(r, IF reply[r] \in {"201", "404"} THEN "done" ELSE "failed")
          /\ UNCHANGED attempt
  /\ UNCHANGED <<tableVars, outer, inflight, reply, airflowVars>>

(* Mutant: a 404 is retried without counting the attempt.                  *)
AnsweredUncounted(r) ==
  /\ pc[r] = "posting" /\ reply[r] # "none"
  /\ Goto(r, CASE reply[r] = "404" -> "sending"
               [] reply[r] = "201" -> "done"
               [] OTHER -> "failed")
  /\ UNCHANGED <<tableVars, attempt, outer, inflight, reply, airflowVars>>

(* An HTTP answer: 200/201 returns, 404 is retried while attempts are      *)
(* left, and so is a 2xx that is neither: after the last attempt it falls  *)
(* out of the loop, and trigger_dag returns.  Anything else (409 too)      *)
(* raises HTTPStatusError, which tenacity does not retry.                  *)
Answered(r) ==
  /\ pc[r] = "posting"
  /\ \/ /\ \/ reply[r] = "201"
           \/ reply[r] = "2xx" /\ attempt[r] = MaxAttempts
        /\ Goto(r, "done")
        /\ UNCHANGED attempt
     \/ /\ reply[r] \in {"404", "2xx"} /\ attempt[r] < MaxAttempts
        /\ attempt' = [attempt EXCEPT ![r] = @ + 1]
        /\ Goto(r, "sending")
     \/ /\ \/ reply[r] = "404" /\ attempt[r] = MaxAttempts
           \/ reply[r] \in {"409", "error"}
        /\ Goto(r, "failed")
        /\ UNCHANGED attempt
  /\ UNCHANGED <<tableVars, outer, inflight, reply, airflowVars>>

(* The worker dies; POSTs already sent stay in the network.                *)
Crash(r) ==
  /\ pc[r] \notin Ended \union {"idle"}
  /\ Goto(r, "crashed")
  /\ UNCHANGED <<tableVars, adapterVars, airflowVars>>

-----------------------------------------------------------------------------
(* Airflow, external.                                                      *)

ParseDag ==
  /\ dagFile /\ ~dagParsed
  /\ dagParsed' = TRUE
  /\ UNCHANGED <<pc, tableVars, adapterVars, dagFile, dagRuns>>

(* Airflow creates a DAG run unless it does not know the DAG (404), has a  *)
(* DAG run of that id (409) or fails.  Another 2xx is the answer of what   *)
(* stands before Airflow and says nothing about the DAG run.               *)
Serve(id, status) ==
  \/ /\ status = "404" /\ ~dagParsed
     /\ UNCHANGED dagRuns
  \/ /\ status = "409" /\ dagParsed /\ id \in dagRuns
     /\ UNCHANGED dagRuns
  \/ /\ status \in {"201", "2xx"} /\ dagParsed /\ id \notin dagRuns
     /\ dagRuns' = dagRuns \union {id}
  \/ /\ status \in {"2xx", "error"}
     /\ UNCHANGED dagRuns

(* A POST reaches Airflow, possibly after its sender stopped waiting: only *)
(* the POST the adapter is waiting for is answered.                        *)
AirflowHandles(r, n) ==
  /\ <<r, n>> \in inflight
  /\ inflight' = inflight \ {<<r, n>>}
  /\ \E status \in Status \ {"none"} :
       /\ Serve(DagRunId(r, n), status)
       /\ reply' = IF pc[r] = "posting" /\ n = PostNo(r)
                   THEN [reply EXCEPT ![r] = status] ELSE reply
  /\ UNCHANGED <<pc, tableVars, attempt, outer, dagParsed, dagFile>>

-----------------------------------------------------------------------------
(* What a live worker does next.  It never waits for Airflow for ever: the *)
(* HTTP client times out.                                                  *)
WorkerStep(r) ==
  \/ Lookup(r)
  \/ Insert(r)
  \/ WriteDag(r)
  \/ Post(r)
  \/ NetworkError(r)
  \/ Answered(r)

Next ==
  \/ \E r \in Request : \E k \in Key \union {NoKey} : Receive(r, k)
  \/ \E r \in Request : WorkerStep(r)
  \/ \E r \in Request : Crash(r)
  \/ ParseDag
  \/ \E r \in Request : \E n \in PostNos : AirflowHandles(r, n)

Spec == Init /\ [][Next]_vars

(* A worker that has not crashed keeps running: its awaits are database    *)
(* calls, sleeps and HTTP calls with a timeout.  Nothing is assumed of     *)
(* clients, of the network or of Airflow.                                  *)
Fairness == \A r \in Request : WF_vars(WorkerStep(r))

FairSpec == Spec /\ Fairness

-----------------------------------------------------------------------------
(* Properties.                                                             *)

(* Nothing runs in Airflow that the platform has no row for: the commit    *)
(* comes before the trigger, in every retry and after every crash.         *)
DagRunsHaveRows == \A d \in dagRuns : d[1] \in rows

(* However often the trigger is retried, with lost answers and late POSTs, *)
(* a platform run is executed by at most one DAG run.                      *)
OneDagRunPerRow == \A d, e \in dagRuns : d[1] = e[1] => d = e

(* The success answer is only given when the DAG run exists, through both  *)
(* nested retry loops, with one exception: the inner loop is used up and   *)
(* its last answer was a 2xx other than 200 and 201.                       *)
SuccessIsAnswered ==
  \A r \in Request :
    pc[r] = "done" =>
      \/ \E d \in dagRuns : d[1] = r
      \/ reply[r] = "2xx" /\ attempt[r] = MaxAttempts

(* docs/c4_model/flows/trigger_pipeline.md:35 lets only 200 and 201 end    *)
(* the loop in success, with the id of the DAG run that Airflow created.   *)
SuccessMeansDagRun ==
  \A r \in Request : pc[r] = "done" => \E d \in dagRuns : d[1] = r

(* Sequential idempotency: a request that looked its key up after a run of *)
(* that key was committed never creates another run.                       *)
NoDuplicateAfterCommit ==
  \A r, x \in rows :
     (r # x /\ key[r] = key[x] /\ key[r] # NoKey) => x \notin seen[r]

(* Every accepted request ends: the bounded retries of the adapter are     *)
(* really bounded.                                                         *)
RequestsEnd == \A r \in Request : pc[r] # "idle" ~> pc[r] \in Ended

(* A bound on the moves the request's worker can still make: two for every *)
(* POST left in the two nested loops, and those before the first POST.     *)
MovesLeft(r) ==
  LET posts == MaxAttempts * MaxOuter
  IN  CASE pc[r] = "idle"     -> 2 * posts + 4
        [] pc[r] = "lookup"   -> 2 * posts + 3
        [] pc[r] = "insert"   -> 2 * posts + 2
        [] pc[r] = "writeDag" -> 2 * posts + 1
        [] pc[r] = "sending"  -> 2 * (posts - PostNo(r)) + 2
        [] pc[r] = "posting"  -> 2 * (posts - PostNo(r)) + 1
        [] pc[r] \in Ended    -> 0

(* Every move of a request, whatever Airflow answers and however late,     *)
(* uses up a move, and nothing ever gives one back: together the two retry *)
(* loops send at most MaxAttempts * MaxOuter POSTs.                        *)
MovesAreUsedUp ==
  [][\A r \in Request : IF pc'[r] = pc[r]
                         THEN MovesLeft(r)' = MovesLeft(r)
                         ELSE MovesLeft(r)' \in 0 .. MovesLeft(r) - 1]_vars

Ledger == INSTANCE RunLedger WITH
            Run <- Request, recorded <- rows, launched <- {d[1] : d \in dagRuns}

(* The trigger implements the run ledger: record first, launch after.      *)
LedgerSpec == Ledger!Spec

(* docs/business_rules.md:90 and docs/todo_list.md:298 state a composite   *)
(* unique index on (pipeline_id, idempotency_key).                         *)
IdempotencyKeyUnique ==
  \A r, x \in rows : (key[r] = key[x] /\ key[r] # NoKey) => r = x
=============================================================================
