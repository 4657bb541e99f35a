SPECIFICATION Spec
CONSTANTS
  Final = 2
  QueueMax = 1
  MaxEvents = 2
  MaxSockets = 3
  MaxMounts = 1
  MaxPolls = 1
  MaxFailures = 2
INVARIANT CaughtUp
PROPERTY CatchUp

CHECK_DEADLOCK FALSE
