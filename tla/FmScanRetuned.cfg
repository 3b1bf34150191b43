SPECIFICATION FmScanSpec
CONSTANTS
  Freqs = {1, 2, 3}
  Programme <- MCProgramme
  Announced <- MCAnnounced
  ProbeRequests = FALSE
  MaxFmEvents = 2
  BandEnd = 3
  Regions = {1, 2}
  StationLimit = 2
  MaxSeeks = 3
  FineTuneInScan = TRUE
INVARIANT ListedAsReceived
