SPECIFICATION FairSpec
CONSTANTS
  Callers = {c1, c2}
  c1 = c1
  c2 = c2
  MaxCalls = 3
  MaxWrites = 2
  MaxExpiries = 1
  MaxFaults = 1
INVARIANTS
  TypeOK
  OneLeader
  ReturnsAreTrue
  FnOnce
PROPERTIES
  NeverStoresOlder
  EveryCallReturns
CHECK_DEADLOCK FALSE
