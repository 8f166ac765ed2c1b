CONSTANTS
  Graphs <- ShortCall
  InCap = 2
  FilterCap = 3
  LookAhead = 1
  Block = 2
  MainCap = 3
  MainKeep = 1
  OutChunk = 2
  SideBudget = 6
SPECIFICATION ChainSpec
PROPERTY PullReturns
CHECK_DEADLOCK FALSE
