CONSTANTS
  network = network
  home = home
  away = away
  Names <- OnlyNetwork
  Factories <- OnlyNetwork
  Configs <- ItsConfig
  IPs <- TwoIPs
  MaxCycles = 3
  Word = 8
  MaxTraffic = 1
  MaxClock = 1
SPECIFICATION NetworkSpec
INVARIANTS SlowCheckOmitted
CHECK_DEADLOCK FALSE
