\* One request whose POSTs are answered with a 2xx other than 200 and 201.
SPECIFICATION Spec
CONSTANTS
  Request = {q1}
  Key = {k1}
  NoKey = NoKey
  MaxAttempts = 2
  MaxOuter = 1
INVARIANTS
  SuccessMeansDagRun
CHECK_DEADLOCK FALSE
