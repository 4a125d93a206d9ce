CONSTANTS
  MaxHeartbeat = 3
  PayloadLen <- MCPayloadLen
  MaxBytes = 7
  Faults = {}
  MaxDuration = 7
  Interval = 2
  Jitter = 0
  MinDelay = 1
  CallTimes = {0}
  MaxLost = 0
  MaxFaults = 0
  MaxCrashes = 0
  MaxStops = 0
SPECIFICATION Spec
INVARIANTS RetryTimerCoversBacklog
