SPECIFICATION FairSpec
CONSTANTS
  Interval = 3
  HttpTimeout = 2
  WatchdogSec = 5
  HttpBind = TRUE
INVARIANTS
  TypeOK
  KilledForFailures
  DetectedInTime
PROPERTIES
  DownServiceKilled
