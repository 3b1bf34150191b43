SPECIFICATION PartsSpec
CONSTANTS
  QueueSize = 2
  BurstLimit = 2
  MaxErrors = 1
  MaxTunes = 1
  QuietVerify = TRUE
  Kinds = {"Event", "List", "Type", "Ensemble", "Audio", "Component"}
  MaxServices = 2
  Unanswered = {}
  FastRetries = 1
  Faulty = {"Type", "Audio", "Component", "Ensemble"}
  MaxFailures = 1
  MaxEvents = 3
  MaxGeneration = 2
  MaxClockFaults = 5
  NumComponents = 3
  OwnComponents = {1, 2}
  PadComponents = {3}
  MaxVersions = 3
  MaxRestarts = 1
  MaxUaFaults = 1
  Tids = {1, 2}
  Size <- MCSize
  BufferSize = 3
  MaxSwitches = 1
  MaxDamaged = 1
  MaxUses = 2
  NumChannels = 2
  Ensemble <- MCStations
  Capacity = 2
  ListRequests = 2
  EarlyLock = FALSE
  MaxScanEvents = 3
  Options = {"a", "b"}
  Defaults <- MCDefaults
  TuneAfterEdit = FALSE
  MaxSettingEvents = 3
CHECK_DEADLOCK FALSE
INVARIANTS
  PartsTypeOK
  InterruptNotLost
  ClockOfThisEnsemble
  SelectedIsTheOnlyOne
  OfferedIsWhole HeldWhileDecoded
  StationsOnTheirChannel ListSurvives
  RunsAsKept
PROPERTIES
  TurnsTaken
  MetadataServed
  JumpCorroborated ClockPublished
  ScanConcludes
  CarouselShown
  ScanEnds
  SettingsStored
