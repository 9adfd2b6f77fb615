SPECIFICATION Spec
CONSTANTS
  Jobs = {1, 2}
  Projects = {}
  NoProject = NoProject
  RetryLimit = 1
  Plates = 2
  Eject = Eject
  Dry = Dry
  NoTask = NoTask
  Limits <- Refusing
CHECK_DEADLOCK FALSE
INVARIANT NoPhantomPrinting
