SPECIFICATION FairSpec
CONSTANTS
  Logins = {l1, l2}
  l1 = l1
  l2 = l2
  Requests = {r1, r2}
  r1 = r1
  r2 = r2
  StateTimeout = 2
  EnforcesPKCE = FALSE
  MaxTime = 3
INVARIANTS
  TypeOK
  SessionsMatch
  RetrievedInTime
  UsedIsGone
PROPERTIES
  ExpiredAreRemoved
CHECK_DEADLOCK FALSE
