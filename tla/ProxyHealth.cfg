CONSTANTS
  MaxAlpha = 10
  MaxBeta = 58
  TickMinutes = 360
  Residence = 1
  CounterCap = 3
SPECIFICATION Spec
INVARIANT TypeOK
PROPERTIES HysteresisOnDemotion DownloadFailuresNeverDemote
CHECK_DEADLOCK FALSE
