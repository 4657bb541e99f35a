SPECIFICATION Spec
CONSTANTS
  Rows <- MCRows
  TableOf <- MCTableOf
  RefsOf <- MCRefsOf
  SourceSeeds = {"setting"}
  TargetSeeds = {"setting"}
  TargetOwn = {}
  Files = {"vectors"}
  Backups = {"copy"}
  Options <- MCOptions
  Environments <- MCEnvironments
  MaxVersion = 2
  MaxWrites = 2
  MaxCrashes = 1
INVARIANTS TypeOK ServedIsWhole BackedUpBeforeStamp
PROPERTIES CompletedMeansFiles NothingOverwritten CommitsSnapshot CompletedIsSnapshot
CHECK_DEADLOCK FALSE
