CONSTANTS
  MaxHeartbeat = 3
  PayloadLen <- MCPayloadLen
  MaxBytes = 9
  MaxFragments = 3
  MaxTorn = 3
  Faults <- ShortWrites
SPECIFICATION MCSpec
INVARIANTS SurvivesRestart
