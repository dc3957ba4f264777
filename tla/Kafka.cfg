SPECIFICATION FairSpec
CONSTANTS
  Members = {m1, m2}
  m1 = m1
  m2 = m2
  Partitions = {p1}
  p1 = p1
  MaxRetries = 1
  WithDLQ = TRUE
  FreshGroup = FALSE
  MaxRecords = 2
  MaxSignals = 2
  MaxFaults = 2
INVARIANTS
  TypeOK
  CommittedIsSettled
  HandledInOrder
PROPERTIES
  ImplementsGroupLog
  EveryRecordIsHandled
CHECK_DEADLOCK FALSE
