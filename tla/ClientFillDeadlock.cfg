SPECIFICATION FairSpec
CONSTANTS
  p1 = p1
  Publishers = {p1}
  PoolSize = 1
  MaxConns = 6
  MaxLoops = 2
  MaxLosses = 1
  MaxErrors = 0
  AppCloses = FALSE
PROPERTIES
  AutoReconnects
CHECK_DEADLOCK FALSE
