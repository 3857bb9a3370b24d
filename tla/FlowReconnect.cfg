\* A user connects again while the start of a job has saved no sandbox yet.
CONSTANTS
  EarlyReconnect = TRUE
  MaxConnects = 1
  MaxCrashes = 0
  MaxFaults = 0
  MaxStops = 1
SPECIFICATION FairSpec
PROPERTIES
  FailedMeansStopped
