SPECIFICATION FairSpec
CONSTANTS
  p1 = p1  p2 = p2
  NoComponent = NoComponent
  Components = {p1}
  MaxStopAttempts = 2
  MaxRequests = 2
  MaxCommands = 0
  MaxFaults = 0
  RoutineScans = TRUE
PROPERTIES
  RecheckIsLimited
