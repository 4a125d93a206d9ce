CONSTANTS
  MaxHeartbeat = 2
  PayloadLen <- MCPayloadLen
  MaxBytes = 7
  Faults <- CleanFaults
  MaxDuration = 7
  Interval = 2
  Jitter = 2
  MinDelay = 1
  CallTimes = {0, 2}
  MaxLost = 1
  MaxFaults = 1
  MaxCrashes = 1
  MaxStops = 1
SPECIFICATION FairSpec
PROPERTIES CollectionNotStarved Drains ShutdownCompletes
