SPECIFICATION FairSpec
CONSTANTS
  s1 = s1
  s2 = s2
  t1 = t1
  t2 = t2
  w1 = w1
  w2 = w2
  Session = {s1, s2}
  Token = {t1, t2}
  Workload = {w1, w2}
  WorkloadOf <- TokenWorkload
  Usable = {t1, t2}
  FailureMode = "closed"
  maxConcurrentSSHSessions = 2
  maxConcurrentSSHSessionsPerToken = 1
  maxConcurrentSSHSessionsPerWorkload = 2
INVARIANTS SlotsExact DialIsAuthorized NothingLeftBehind InvalidationRecorded
PROPERTY LapsedSessionsEnd
CHECK_DEADLOCK FALSE
