CONSTANTS
  meter = meter
  home = home
  away = away
  Names <- OneCollector
  Factories <- OneCollector
  Configs <- ItsConfig
  IPs <- TwoIPs
  MaxCycles = 3
  Word = 8
  MaxTraffic = 2
  MaxClock = 3
  CounterRange = 3
  MaxEnergy = 3
SPECIFICATION MCSpec
INVARIANTS MetersTypeOK NoByteCountedTwice ChangeReported EnergyCountedOnce
CHECK_DEADLOCK FALSE
