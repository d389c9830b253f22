SPECIFICATION FairSpec
CONSTANTS
  r1 = r1
  t1 = t1
  t2 = t2
  Request = {r1}
  Token = {t1, t2}
  Usable = {t1}
  FailureMode = "closed"
INVARIANTS
  DoomedNeverUsed
  AuthorityIsAudited
  WholeMeansWhole
  LastRecordIsAnswer
PROPERTY
  EveryRequestEnds
CHECK_DEADLOCK FALSE
