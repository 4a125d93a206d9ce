CONSTANTS
  MaxHeartbeat = 4
  PayloadLen <- MCPayloadLen
  MaxBytes = 9
  MaxFragments = 6
  MaxTorn = 3
  Faults <- FaultKinds
SPECIFICATION MCSpec
INVARIANTS BufferTypeOK SizeAccurate CapRespected Durable Recovered OldestFirst BytesKept
PROPERTIES ImplementsQueue
