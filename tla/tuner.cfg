SPECIFICATION TunerSpec
CONSTANTS
  MinTunedBytes = 1
  MaxTunedBytes = 22
  Threshold = 1
  MinSamples = 3
  MaxSamples = 5
  MaxBatchBytesSet = 30
  MaxSkipped = 1
  Networks <- MCNetworks
PROPERTIES
  SearchNarrows 
CHECK_DEADLOCK FALSE
