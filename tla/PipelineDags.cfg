\* Two runs of each kind of DAG, up to four rows, pages of two; of the
\* definitions every request of MCRequest, with two jobs each.
SPECIFICATION MCSpec
CONSTANTS
  MaxRow = 4
  PageSize = 2
  MaxFetches = 2
  MaxRuns = 2
  MaxTries = 2
  Cases <- MCCases
  Secret <- MCSecret
  DefaultRef = "pg"
  MongoRefs = {"mongo", "mongopg"}
  DefaultEngine = "duckdb"
  Request <- MCRequest
  MaxJobs = 2
  MaxMark = 3
INVARIANTS
  TypeOK
  PollsAgree
  SuccessIsComplete
  ReportsAreEarned
  JobReadsDeclaration
  RegeneratedDagsAgree
PROPERTIES
  RunsEnd
CHECK_DEADLOCK FALSE
