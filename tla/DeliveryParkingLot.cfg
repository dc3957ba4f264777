SPECIFICATION FairSpec
CONSTANTS
  s1 = s1
  m1 = m1
  m2 = m2
  Singles = {s1}
  Reconnecting = {s1}
  Batchers = {}
  Messages = {m1, m2}
  Poison = {}
  Hopeless = {m1}
  Returned = {}
  Prefetch = 2
  BatchSize = 2
  MaxRetries = 1
  MaxFaults = 0
PROPERTIES
  FailingIsParked
CHECK_DEADLOCK FALSE
