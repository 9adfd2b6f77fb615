SPECIFICATION Spec
CONSTANTS
  Jobs = {1, 2}
  Projects = {}
  NoProject = NoProject
  RetryLimit = 1
  Plates = 1
  Eject = Eject
  Dry = Dry
  NoTask = NoTask
  Limits <- AllKinds
CHECK_DEADLOCK FALSE
CONSTRAINT FewEvents
INVARIANTS
  SuccessWasPrinted
  FailuresAreCountedOnce
PROPERTIES
  ImplementsDispatcher
  WizardSparesJobs
  RefinesLifecycle
