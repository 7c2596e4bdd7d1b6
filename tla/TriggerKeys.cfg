\* Three requests, so that a lookup may meet two rows of its key; no retries.
\* Beside them a breaker with three concurrent calls, threshold 2 and time for
\* two recoveries.
SPECIFICATION MCSpec
CONSTANTS
  Request = {q1, q2, q3}
  Key = {k1}
  NoKey = NoKey
  MaxAttempts = 1
  MaxOuter = 1
  Call = {c1, c2, c3}
  Threshold = 2
  Recovery = 2
  MaxTime = 5
SYMMETRY Symmetric
INVARIANTS
  TypeOK
  DagRunsHaveRows
  SuccessIsAnswered
  NoDuplicateAfterCommit
  OpenedAtMatchesState
PROPERTIES
  OpensOnEvidence
CHECK_DEADLOCK FALSE
