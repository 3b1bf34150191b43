SPECIFICATION FairSpec
CONSTANTS
  s1 = s1  s2 = s2  s3 = s3  f1 = f1  f2 = f2
  None = None
  Services = {s1, s2}
  Freqs = {f1}
  Ensemble <- MCEnsemble
  MaxStopRetries = 1
  MaxAudioRetries = 1
  MaxDataRetries = 1
  MaxBusyRetries = 1
  FailureLimit = 2
  StallLimit = 4
  MaxRequests = 3
  MaxFaults = 2
  FaultyOps = {"StartAudio", "Tune"}
  EarlySignal = FALSE
PROPERTIES
  ServiceRequestResolved
  RetuneConcluded
