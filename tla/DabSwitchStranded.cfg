SPECIFICATION Spec
CONSTANTS
  s1 = s1  s2 = s2  s3 = s3  f1 = f1  f2 = f2
  None = None
  Services = {s1, s2, s3}
  Freqs = {f1, f2}
  Ensemble <- MCEnsemble
  MaxStopRetries = 1
  MaxAudioRetries = 1
  MaxDataRetries = 1
  MaxBusyRetries = 1
  FailureLimit = 3
  StallLimit = 4
  MaxRequests = 2
  MaxFaults = 1
  FaultyOps <- AllOps
  EarlySignal = FALSE
SYMMETRY MCSymmetry
INVARIANTS
  NoStrandedRequest
