CONSTANTS
  MaxHeartbeat = 3
  PayloadLen <- MCPayloadLen
  MaxBytes = 7
  Faults <- ShortWrites
  MaxDuration = 7
  Interval = 2
  Jitter = 0
  MinDelay = 1
  CallTimes = {0}
  MaxLost = 0
  MaxFaults = 1
  MaxCrashes = 0
  MaxStops = 1
SPECIFICATION FairSpec
PROPERTIES Drains
