CONSTANTS
  MaxDuration = 63
  MaxCalls = 8
  Limits <- MCLimits
  MaxInt = 63
  Second = 4
  MB = 1
  MountPoints <- MCMountPoints
  VirtualOnes <- MCVirtualOnes
  MountPrefixes <- MCMountPrefixes
  Lower <- MCLower
  Allowed <- MCAllowed
  Levels = {1, 2}
  Designs = {0, 2}
  Sources <- MCSources
  MaxRequest = 4
  DefaultTimeout = 2
  Kinds <- MCKinds
SPECIFICATION MCSpec
INVARIANTS
  PartsTypeOK ClosedForm VolumesTold BatteryTold ReadingsTold
  AckedIsRecorded LateIsGivenUp
PROPERTIES SendRawReturnsAlways
CHECK_DEADLOCK FALSE
