CONSTANTS
  c1 = c1
  c2 = c2
  Client = {c1, c2}
  Endpoint <- MCEndpoint
  Asset <- MCAsset
  Object <- MCObject
  Pipeline <- MCPipeline
  FileOf <- MCFileOf
  SourceOf <- MCSourceOf
  Filled <- MCFilled
  Team <- MCTeam
  MaxFaults = 1
SPECIFICATION Spec
INVARIANTS
  TypeOK
  UndisturbedAssetsAgree
  CatalogNeverAhead
  RegistrationIsComplete
  FilesFollowPipelines
  CleanPassSetsUp
PROPERTIES
  StateOnlyAdvances
  ScriptsEnd
