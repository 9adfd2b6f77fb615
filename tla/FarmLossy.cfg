SPECIFICATION FairSpec
CONSTANTS
  Jobs = {1, 2, 3}
  Projects = {}
  NoProject = NoProject
  RetryLimit = 1
  Plates = 2
  Eject = Eject
  Dry = Dry
  NoTask = NoTask
  Limits <- Lossy
CHECK_DEADLOCK FALSE
INVARIANTS
  FarmIsConsistent
  FailureAsksHuman
PROPERTIES
  FinishIsNoticed
  QueueDrains
CONSTRAINT Restocked
