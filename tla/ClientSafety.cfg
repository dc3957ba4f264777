SPECIFICATION Spec
CONSTANTS
  p1 = p1
  Publishers = {p1}
  PoolSize = 1
  MaxConns = 6
  MaxLoops = 2
  MaxLosses = 1
  MaxErrors = 1
  AppCloses = TRUE
INVARIANTS
  TypeOK
  SingleConnector
  LossIsNoticed
  NoChannelLeak
  ChannelsBounded
  ClosedPoolStaysEmpty
  FillWaitsForOthers
CHECK_DEADLOCK FALSE
