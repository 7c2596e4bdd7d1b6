----------------------------- MODULE RunLedger -----------------------------
(***************************************************************************)
(* What the platform promises about a pipeline execution, independent of   *)
(* HTTP, retries and crashes: an execution is recorded in the platform's   *)
(* database, and only a recorded execution is ever launched in the         *)
(* orchestrator.  It is launched at most once and neither fact is undone.  *)
(***************************************************************************)
CONSTANT Run           \* identities of executions

VARIABLES recorded,    \* executions that have a row in pipeline_runs
          launched     \* executions that have a DAG run in the orchestrator

ledgerVars == <<recorded, launched>>

LedgerTypeOK == recorded \subseteq Run /\ launched \subseteq Run

Init == recorded = {} /\ launched = {}

Record(r) ==
  /\ r \notin recorded
  /\ recorded' = recorded \union {r}
  /\ UNCHANGED launched

Launch(r) ==
  /\ r \in recorded \ launched
  /\ launched' = launched \union {r}
  /\ UNCHANGED recorded

Next == \E r \in Run : Record(r) \/ Launch(r)

Spec == Init /\ [][Next]_ledgerVars
=============================================================================
