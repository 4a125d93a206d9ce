CONSTANTS
  MaxHeartbeat = 4
  PayloadLen <- OversizedSecond
  MaxBytes = 7
  Faults <- FaultKinds
  MaxDuration = 7
  Interval = 2
  Jitter = 0
  MinDelay = 1
  CallTimes = {1}
  MaxLost = 1
  MaxFaults = 1
  MaxCrashes = 1
  MaxStops = 1
SPECIFICATION Spec
INVARIANTS TypeOK NoLoss Settled DuplicatesExplained
PROPERTIES BufferContract ImplementsDelivery
