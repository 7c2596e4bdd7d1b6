\* Watermark extraction by the background engine, whose jobs may die; overrides
\* allowed, fair specification.
SPECIFICATION FairSpec
CONSTANTS
  MaxItem = 2
  MaxRuns = 2
  MaxTries = 2
  Incremental = TRUE
  Background = TRUE
  HasRules = FALSE
  Bad = {}
  Overrides = TRUE
INVARIANTS
  TypeOK
  NoDataLoss
  ExactlyOnceUndisturbed
PROPERTIES
  StoredWatermarkNeverRegresses
  RunsEnd
CHECK_DEADLOCK FALSE
