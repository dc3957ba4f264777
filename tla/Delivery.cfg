SPECIFICATION FairSpec
CONSTANTS
  s1 = s1
  b1 = b1
  m1 = m1
  m2 = m2
  x = x
  Singles = {s1}
  Reconnecting = {s1}
  Batchers = {b1}
  Messages = {m1, m2, x}
  Poison = {x}
  Hopeless = {}
  Returned = {m2}
  Prefetch = 2
  BatchSize = 2
  MaxRetries = 1
  MaxFaults = 2
INVARIANTS
  TypeOK
  AckedWasHandled
  HeldIsUnacked
  HandledOnce
PROPERTIES
  ImplementsWorkQueue
  EveryMessageIsHandled
CHECK_DEADLOCK FALSE
