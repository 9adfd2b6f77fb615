SPECIFICATION AlertsSpec
CONSTANTS
  Jobs = {1, 2}
  Projects = {}
  NoProject = NoProject
  RetryLimit = 0
  Capacities = {1}
  MaxStarts = 1
  MaxAborts = 1
  MaxConfirms = 1
  MaxAttempts = 1
  MaxDecisions = 1
  Browsers = {b1}
  Gone = Gone
  LowStock = 1
  Interval = 3
  Period = 2
  Cut = 1
  MaxGone = 1
  MaxReboots = 1
INVARIANTS
  StoppedQueueIsHeard
  SnapshotShowsEnds
  PagesShowEnds
PROPERTIES
  NoNagging
CHECK_DEADLOCK FALSE
CONSTRAINT Bounded
