------------------------ MODULE CircuitBreakerProofs ------------------------
(***************************************************************************)
(* Proofs about CircuitBreaker, for every set of calls, every threshold    *)
(* and every recovery time.                                                *)
(***************************************************************************)
EXTENDS CircuitBreaker, TLAPS

(* Every failure the breaker counts is one of the current streak: no       *)
(* success came between them, whatever state each outcome arrived in.      *)
CountIsWitnessed == count <= streak

IInv == BreakerTypeOK /\ OpenedAtMatchesState /\ CountIsWitnessed

(* A step that opens the circuit has a reason.                             *)
Evidence ==
  state # "OPEN" /\ state' = "OPEN" => state = "HALF_OPEN" \/ streak' = Threshold

(* A new breaker is closed and has counted nothing.                        *)
LEMMA InitIInv == BreakerInit => IInv
BY BreakerAssumption
DEF BreakerInit, IInv, BreakerTypeOK, OpenedAtMatchesState, CountIsWitnessed, None

(* A failure, the only step that counts and that opens the circuit.        *)
LEMMA FailStep ==
  ASSUME IInv, NEW c \in Call, Fail(c)
  PROVE  IInv' /\ Evidence
<1>1. /\ Threshold \in Nat \ {0} /\ MaxTime \in Nat
      /\ count \in 0 .. Threshold - 1 /\ streak \in 0 .. Threshold
      /\ now \in 0 .. MaxTime /\ now # None /\ now \in 0 .. None
      /\ inCall' \subseteq Call /\ now' = now
  BY BreakerAssumption DEF IInv, BreakerTypeOK, None, Fail
<1>2. streak' \in 0 .. Threshold /\ streak <= streak'
  BY <1>1 DEF Fail
<1>3. CASE state = "HALF_OPEN" \/ count + 1 >= Threshold
  <2>1. state' = "OPEN" /\ openedAt' = now /\ count' = 0
    BY <1>3 DEF Fail, OnFailure, Open
  <2>2. IInv'
    BY <1>1, <1>2, <2>1 DEF IInv, BreakerTypeOK, OpenedAtMatchesState, CountIsWitnessed, None
  <2>3. state = "HALF_OPEN" \/ streak' = Threshold
    BY <1>1, <1>3 DEF IInv, CountIsWitnessed, Fail
  <2>4. QED
    BY <2>2, <2>3 DEF Evidence
<1>4. CASE ~(state = "HALF_OPEN" \/ count + 1 >= Threshold)
  <2>1. count' = count + 1 /\ state' = state /\ openedAt' = openedAt
    BY <1>4 DEF Fail, OnFailure
  <2>2. count' \in 0 .. Threshold - 1 /\ count' <= streak'
    BY <1>1, <1>4, <2>1 DEF IInv, CountIsWitnessed, Fail
  <2>3. QED
    BY <1>1, <1>2, <2>1, <2>2
    DEF IInv, BreakerTypeOK, OpenedAtMatchesState, CountIsWitnessed, None, Evidence
<1>5. QED
  BY <1>3, <1>4

(* Every step keeps the count, and opens the circuit only with evidence.   *)
LEMMA InvStep == IInv /\ [BreakerNext]_breakerVars => IInv' /\ Evidence
<1> SUFFICES ASSUME IInv, [BreakerNext]_breakerVars PROVE IInv' /\ Evidence
  OBVIOUS
<1> USE DEF IInv, BreakerTypeOK, OpenedAtMatchesState, CountIsWitnessed, None, Evidence
<1>1. ASSUME NEW c \in Call, Admit(c) PROVE IInv' /\ Evidence
  BY <1>1, BreakerAssumption DEF Admit
<1>2. ASSUME NEW c \in Call, Succeed(c) PROVE IInv' /\ Evidence
  BY <1>2, BreakerAssumption DEF Succeed, OnSuccess
<1>3. ASSUME NEW c \in Call, Fail(c) PROVE IInv' /\ Evidence
  BY <1>3, FailStep
<1>4. ASSUME NEW c \in Call, Cancel(c) PROVE IInv' /\ Evidence
  BY <1>4 DEF Cancel
<1>5. CASE Tick
  BY <1>5, BreakerAssumption DEF Tick
<1>6. CASE UNCHANGED breakerVars
  BY <1>6 DEF breakerVars
<1>7. QED
  BY <1>1, <1>2, <1>3, <1>4, <1>5, <1>6 DEF BreakerNext

(* The invariant holds in every state.                                     *)
LEMMA Invariance == BreakerSpec => []IInv
BY InitIInv, InvStep, PTL DEF BreakerSpec

(* The breaker's fields keep their types; in particular the count stays    *)
(* below the threshold, so that no outcome is ever the one too many.       *)
THEOREM BreakerTypes == BreakerSpec => []BreakerTypeOK
<1>1. IInv => BreakerTypeOK
  BY DEF IInv
<1>2. QED
  BY <1>1, Invariance, PTL

(* An open or half-open circuit always knows when it opened, a closed one  *)
(* never does, after outcomes in any order and in any state.               *)
THEOREM OpenedAtIsKnown == BreakerSpec => []OpenedAtMatchesState
<1>1. IInv => OpenedAtMatchesState
  BY DEF IInv
<1>2. QED
  BY <1>1, Invariance, PTL

(* The circuit opens only on a failure in half open or on as many failures *)
(* as the threshold with no success between them.                          *)
THEOREM OpensWithReason == BreakerSpec => OpensOnEvidence
<1>1. IInv /\ [BreakerNext]_breakerVars => [Evidence]_breakerVars
  BY InvStep
<1>2. BreakerSpec => [][Evidence]_breakerVars
  BY <1>1, Invariance, PTL DEF BreakerSpec
<1>3. QED
  BY <1>2 DEF OpensOnEvidence, Evidence
=============================================================================
