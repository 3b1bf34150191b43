SPECIFICATION GuideFairSpec
CONSTANTS
  p1 = p1  p2 = p2
  NoComponent = NoComponent
  Components = {p1}
  MaxStopAttempts = 2
  MaxRequests = 3
  MaxCommands = 0
  MaxFaults = 1
  RoutineScans = FALSE
  Objects = {11, 12, 14, 15}
  Object <- MCObject
  Carousels <- MCFewCarousels
  Withheld <- MCWithheld
  Stations = {1}
  NumContexts = 2
  MaxProgrammes = 2
  TextSize = 4
  EpochMod = 4
  MaxBrowse = 1
  LastDay = 2
  MaxEpgEvents = 2
PROPERTIES
  CleanupEnds
  GuideAcquired
