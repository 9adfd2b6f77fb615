SPECIFICATION FairSpec
CONSTANTS
  Slots = {0}
  FullSpool = 8
  SimMinutes = 2
  Commands <- Plates
  Grams <- Spools
  Categories = {"swap"}
  Minutes = {1}
  MaxCalls = 3
  MaxWire = 1
  MaxDrops = 1
  MaxDeltas = 1
INVARIANTS
  ClientCatchesUp
PROPERTIES
  EdgesAreSeen
  TrailTellsStates
  EndIsNoticed
CHECK_DEADLOCK FALSE
