SPECIFICATION FairSpec
CONSTANTS
  Runs = {r1, r2}
  NoRun = NoRun
  MaxWorkers = 1
  MaxStops = 1
  Faults = {"lost"}
INVARIANTS TypeOK ActiveRunHasExecutor HeardCurrent
PROPERTIES FollowsLifecycle RunsSettle
CHECK_DEADLOCK FALSE
