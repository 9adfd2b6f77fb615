SPECIFICATION Spec
CONSTANTS
  Jobs = {1, 2}
  p1 = p1
  Projects = {p1}
  NoProject = NoProject
  RetryLimit = 0
  Capacities = {2}
  MaxStarts = 1
  MaxAborts = 1
  MaxConfirms = 1
  MaxAttempts = 1
  MaxDecisions = 1
INVARIANTS
  TypeOK
  AtMostOnePrinting
  RefillOnlyWhenEmpty
PROPERTY StartsAreLegal
CONSTRAINT FewSuspended
