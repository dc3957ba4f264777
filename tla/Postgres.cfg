SPECIFICATION FairSpec
CONSTANTS
  Statements = {s1}
  Transactions = {t1}
  MaxOpenConns = 1
  QueryTimeout = TRUE
  MaxFaults = 1
INVARIANTS
  TypeOK
  OutcomeIsTrue
  NothingLeftOpen
  KindSurvives
PROPERTIES
  ImplementsAtomicTx
  BoundedCallsEnd
CHECK_DEADLOCK FALSE
