CONSTANTS
  CollectorTimeout = 10
  CPUWindow = 1
  ReadTimeout = 10
  Replies <- MCReplies
SPECIFICATION TurnFairSpec
INVARIANTS TurnTypeOK NumbersOfWholeReply OnlyLastLineCut
PROPERTIES ReaderEnds
CHECK_DEADLOCK FALSE
