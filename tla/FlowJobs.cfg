\* One connection and one more after each crash, at any time but while a start has
\* not saved its sandbox yet; two crashes, a call of the provider that fails, two
\* stops.
CONSTANTS
  EarlyReconnect = FALSE
  MaxConnects = 1
  MaxCrashes = 2
  MaxFaults = 1
  MaxStops = 2
SPECIFICATION FairSpec
INVARIANTS
  OneWatcher
  FinishedIsOver
  Attended
PROPERTIES
  StopEnds
