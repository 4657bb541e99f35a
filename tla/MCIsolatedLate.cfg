SPECIFICATION Spec
CONSTANTS
  Runs = {r1}
  NoRun = NoRun
  MaxWorkers = 1
  MaxStops = 0
  Faults = {"late"}
INVARIANT NoResultMeansNoUpload
CHECK_DEADLOCK FALSE
