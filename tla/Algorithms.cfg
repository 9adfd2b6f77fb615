SPECIFICATION Spec

CONSTANTS
  PaintDepthCap = 2
  RootPath = "3D/3dmodel.model"
  Unread = Unread
  Corrupt = Corrupt
  Missing = Missing
  None = None
  NoTime = NoTime
  RetentionDays = 2
  MaxBytes = 5
  MaxFiles = 2
  Null = Null
  NotYet = NotYet
  PaintInputs <- MCPaintInputs
  MeshInputs <- MCMeshInputs
  ArchiveInputs <- MCArchiveInputs
  ProgramInputs <- MCProgramInputs
  CalibrationInputs <- MCCalibrationInputs
  TimerInputs <- MCTimerInputs
  EtaInputs <- MCEtaInputs
  ThrottleInputs <- MCThrottleInputs
  LogInputs <- MCLogInputs
  RunoutInputs <- MCRunoutInputs
  ColourInputs <- MCColourInputs

INVARIANTS
  PaintIsFaithful
  PreviewShowsThePlate
  ArchivesPrint
  TimesAreRight
  LogsKeepTheNewest
  FilamentsMatch
  ProgramsAreSafe

CHECK_DEADLOCK FALSE
