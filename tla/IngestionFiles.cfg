\* File ingestion by a blocking engine, a rule the second file breaks.
SPECIFICATION Spec
CONSTANTS
  MaxItem = 2
  MaxRuns = 3
  MaxTries = 2
  Incremental = FALSE
  Background = FALSE
  HasRules = TRUE
  Bad = {2}
  Overrides = FALSE
INVARIANTS
  SuccessfulFilesAreLoaded
  NoBadDataLoaded
CHECK_DEADLOCK FALSE
