SPECIFICATION FairSpec
CONSTANTS
  Callers = {c1}
  c1 = c1
  MaxCalls = 1
  MaxLosses = 2
  MaxFaults = 1
INVARIANTS
  TypeOK
  Conserved
  FirstRestoreSucceeds
PROPERTIES
  CachedIsRestored
CHECK_DEADLOCK FALSE
