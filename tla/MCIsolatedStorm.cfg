SPECIFICATION AppSpec
CONSTANTS
  Runs = {r1}
  NoRun = NoRun
  MaxWorkers = 1
  MaxStops = 2
  Faults = {"lost", "late", "api", "fast", "crash"}
INVARIANTS CompletedMeansUploaded
PROPERTIES CancelledBeforeRemoved ThreadsReturn
CHECK_DEADLOCK FALSE
