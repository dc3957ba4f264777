SPECIFICATION FairSpec
CONSTANTS
  p1 = p1
  Publishers = {p1}
  PoolSize = 1
  MaxConns = 8
  MaxLoops = 3
  MaxLosses = 1
  MaxErrors = 1
  AppCloses = FALSE
PROPERTIES
  ReconnectsOrFillBlocks
CHECK_DEADLOCK FALSE
