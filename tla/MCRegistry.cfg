CONSTANTS
  cpu = cpu
  disk = disk
  typo = typo
  Names <- MCNames
  Factories <- MCFactories
  Configs <- MCConfigs
  Gives <- MCGives
  MaxMetrics = 4
  MaxCycles = 2
SPECIFICATION FairSpec
INVARIANTS TypeOK FreshMetrics FilledToTheCap TellsTheCycle
PROPERTIES CycleCompletes NoGoroutineLeak ImplementsCollection
CHECK_DEADLOCK FALSE
