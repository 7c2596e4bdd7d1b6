\* The same requests: the contract with OmniBeam.
SPECIFICATION MCSpec
CONSTANTS
  MaxRow = 4
  PageSize = 2
  MaxFetches = 2
  MaxRuns = 2
  MaxTries = 2
  Cases <- MCCases
  Secret <- MCSecret
  DefaultRef = "pg"
  MongoRefs = {"mongo", "mongopg"}
  DefaultEngine = "duckdb"
  Request <- MCRequest
  MaxJobs = 2
  MaxMark = 3
INVARIANT
  IncrementalManifestsAskForWatermark
CHECK_DEADLOCK FALSE
