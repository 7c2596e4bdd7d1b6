\* Two concurrent requests with one key.
SPECIFICATION Spec
CONSTANTS
  Request = {q1, q2}
  Key = {k1}
  NoKey = NoKey
  MaxAttempts = 1
  MaxOuter = 1
INVARIANTS
  IdempotencyKeyUnique
CHECK_DEADLOCK FALSE
