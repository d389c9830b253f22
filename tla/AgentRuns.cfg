SPECIFICATION FairSpec
CONSTANTS
  r1 = r1
  r2 = r2
  c1 = c1
  c2 = c2
  None = None
  Run = {r1, r2}
  Conn = {c1, c2}
  Owner <- OwnerOf
  brokerMaxConnections = 1
  brokerMaxConcurrentRequests = 1
  Granted = {r1}
  MaxCrashes = 1
INVARIANTS CleanMeansReleased StaleRecordsEnd
PROPERTY EveryRunEnds
CHECK_DEADLOCK FALSE
