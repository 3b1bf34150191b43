SPECIFICATION GuideSpec
CONSTANTS
  p1 = p1  p2 = p2
  NoComponent = NoComponent
  Components = {p1, p2}
  MaxStopAttempts = 2
  MaxRequests = 3
  MaxCommands = 1
  MaxFaults = 2
  RoutineScans = TRUE
  Objects = {11, 12, 13, 14, 15, 16, 17}
  Object <- MCObject
  Carousels <- MCCarousels
  Withheld <- MCWithheld
  Stations = {1, 2}
  NumContexts = 2
  MaxProgrammes = 2
  TextSize = 4
  EpochMod = 4
  MaxBrowse = 1
  LastDay = 2
  MaxEpgEvents = 3
INVARIANTS
  GuideTypeOK
  StreamQuarantined
  CleanupBeforeSwitch
  AutoSuspensionSound
  GuideAsBroadcast
PROPERTIES
  StartInContext
SYMMETRY MCSymmetry
