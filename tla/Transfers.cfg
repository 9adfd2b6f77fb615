SPECIFICATION FairSpec
CONSTANTS
  upload = upload
  check = check
  retried = retried
  Calls = {upload, check, retried}
  Kind <- Kinds
  Attempts = 3
  Settings <- FourSettings
  MaxChunks = 2
  MaxFaults = 1
  MaxWedges = 1
  Free = Free
  Abandoned = Abandoned
  Wedged = Wedged
  Probe = Probe
CHECK_DEADLOCK FALSE
INVARIANTS
  OutcomesAreTrue
  LeavesNothingBehind
  OneInteraction
PROPERTIES
  ServesInOrder
