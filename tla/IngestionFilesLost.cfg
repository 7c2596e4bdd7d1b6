\* Hashes of failed runs count as processed.
SPECIFICATION Spec
CONSTANTS
  MaxItem = 1
  MaxRuns = 2
  MaxTries = 2
  Incremental = FALSE
  Background = FALSE
  HasRules = TRUE
  Bad = {1}
  Overrides = FALSE
INVARIANTS
  ProcessedFilesWereLoaded
CHECK_DEADLOCK FALSE
