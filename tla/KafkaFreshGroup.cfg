SPECIFICATION Spec
CONSTANTS
  Members = {m1, m2}
  m1 = m1
  m2 = m2
  Partitions = {p1}
  p1 = p1
  MaxRetries = 1
  WithDLQ = TRUE
  FreshGroup = TRUE
  MaxRecords = 2
  MaxSignals = 2
  MaxFaults = 0
INVARIANT InFlightIsRedelivered
CHECK_DEADLOCK FALSE
