CONSTANTS
  CollectorTimeout = 10
  CPUWindow = 1
  ReadTimeout = 10
  Replies <- MCReplies
SPECIFICATION TurnSpec
INVARIANTS SilentCLIOmitted
CHECK_DEADLOCK FALSE
