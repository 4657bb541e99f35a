\* Safety: more runs than worker threads, two crashes or stops, failing storage.
SPECIFICATION Spec
CONSTANTS
  Runs = {r1, r2}
  NoRun = NoRun
  MaxWorkers = 1
  MaxStops = 2
  StorageFaults = TRUE
SYMMETRY Symmetry
INVARIANTS TypeOK ActiveRunHasOwner FuturesForgotten CountedOnce
PROPERTIES FollowsLifecycle EventsInOrder
