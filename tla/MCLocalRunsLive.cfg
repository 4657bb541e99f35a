\* Liveness: working storage, so every queued run must reach an outcome.
SPECIFICATION FairSpec
CONSTANTS
  Runs = {r1, r2}
  NoRun = NoRun
  MaxWorkers = 1
  MaxStops = 1
  StorageFaults = FALSE
INVARIANT DirectoryWhole
PROPERTIES RunsSettle ExpiredRunsGo
