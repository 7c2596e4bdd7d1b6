--------------------------- MODULE CircuitBreaker ---------------------------
(***************************************************************************)
(* AsyncCircuitBreaker: one breaker object shared by the coroutines of an  *)
(* event loop.  call() checks the state without awaiting, then awaits the  *)
(* protected coroutine; other calls run meanwhile, so an outcome may meet  *)
(* a state different from the one its call was admitted in.  A cancelled   *)
(* call raises CancelledError, which `except Exception` does not catch.    *)
(***************************************************************************)
EXTENDS Naturals, FiniteSets

CONSTANTS Call,       \* coroutines that use the breaker, again and again
          Threshold,  \* failure_threshold
          Recovery,   \* recovery_timeout_seconds
          MaxTime     \* bound on the monotonic clock

ASSUME BreakerAssumption ==
  Threshold \in Nat \ {0} /\ Recovery \in Nat \ {0} /\ MaxTime \in Nat

None == MaxTime + 1   \* _opened_at is None

VARIABLES state,     \* _state
          count,     \* _failure_count
          openedAt,  \* _opened_at
          now,       \* time.monotonic()
          inCall,    \* calls awaiting their coroutine
          streak     \* failures since the last success (history)

breakerVars == <<state, count, openedAt, now, inCall, streak>>

BreakerTypeOK ==
  /\ state \in {"CLOSED", "OPEN", "HALF_OPEN"}
  /\ count \in 0 .. Threshold - 1
  /\ openedAt \in 0 .. None
  /\ now \in 0 .. MaxTime
  /\ inCall \subseteq Call
  /\ streak \in 0 .. Threshold

BreakerInit ==
  /\ state = "CLOSED"
  /\ count = 0
  /\ openedAt = None
  /\ now = 0
  /\ inCall = {}
  /\ streak = 0

Elapsed == now >= openedAt + Recovery

(* call() up to its await.  An open circuit becomes half open once the     *)
(* recovery time is over; until then the call is refused, which changes    *)
(* nothing.                                                                *)
Admit(c) ==
  /\ c \notin inCall
  /\ state = "OPEN" => Elapsed
  /\ state' = IF state = "OPEN" THEN "HALF_OPEN" ELSE state
  /\ inCall' = inCall \union {c}
  /\ UNCHANGED <<count, openedAt, now, streak>>

(* Mutant: the failure count survives a success.                           *)
OnSuccessKeepsCount ==
  /\ state' = "CLOSED"
  /\ openedAt' = None
  /\ UNCHANGED count

OnSuccess ==
  /\ state' = "CLOSED"
  /\ count' = 0
  /\ openedAt' = None

(* Mutant: opening does not note the time.                                 *)
OpenUntimed ==
  /\ state' = "OPEN"
  /\ count' = 0
  /\ UNCHANGED openedAt

(* _transition_to(OPEN).                                                   *)
Open ==
  /\ state' = "OPEN"
  /\ openedAt' = now
  /\ count' = 0

OnFailure ==
  IF state = "HALF_OPEN" \/ count + 1 >= Threshold
  THEN Open
  ELSE count' = count + 1 /\ UNCHANGED <<state, openedAt>>

Succeed(c) ==
  /\ c \in inCall
  /\ inCall' = inCall \ {c}
  /\ OnSuccess
  /\ streak' = 0
  /\ UNCHANGED now

(* The history counter stops at the threshold.                             *)
Fail(c) ==
  /\ c \in inCall
  /\ inCall' = inCall \ {c}
  /\ OnFailure
  /\ streak' = IF streak < Threshold THEN streak + 1 ELSE streak
  /\ UNCHANGED now

Cancel(c) ==
  /\ c \in inCall
  /\ inCall' = inCall \ {c}
  /\ UNCHANGED <<state, count, openedAt, now, streak>>

Tick ==
  /\ now < MaxTime
  /\ now' = now + 1
  /\ UNCHANGED <<state, count, openedAt, inCall, streak>>

BreakerNext ==
  \/ \E c \in Call : Admit(c)
  \/ \E c \in Call : Succeed(c)
  \/ \E c \in Call : Fail(c)
  \/ \E c \in Call : Cancel(c)
  \/ Tick

BreakerSpec == BreakerInit /\ [][BreakerNext]_breakerVars

-----------------------------------------------------------------------------
(* Properties.                                                             *)

(* An open or half-open circuit knows when it opened, and a closed one has *)
(* forgotten it, also after late outcomes of calls admitted earlier: else  *)
(* `opened_at or 0` would let calls through at once.                       *)
OpenedAtMatchesState == openedAt = None <=> state = "CLOSED"

(* A circuit opens on evidence only: a failure in half open, or as many    *)
(* failures as the threshold with no success between them.                 *)
OpensOnEvidence ==
  [][state # "OPEN" /\ state' = "OPEN"
       => state = "HALF_OPEN" \/ streak' = Threshold]_breakerVars
=============================================================================
