\* One request through both retry loops, its POSTs lost, late or answered.
SPECIFICATION FairSpec
CONSTANTS
  Request = {q1}
  Key = {k1}
  NoKey = NoKey
  MaxAttempts = 3
  MaxOuter = 2
INVARIANTS
  OneDagRunPerRow
PROPERTIES
  RequestsEnd
  MovesAreUsedUp
  LedgerSpec
CHECK_DEADLOCK FALSE
