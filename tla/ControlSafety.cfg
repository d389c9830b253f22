SPECIFICATION Spec
CONSTANTS
  c1 = c1
  c2 = c2
  c3 = c3
  t0 = t0
  t1 = t1
  t2 = t2
  None = None
  Call = {c1, c2, c3}
  Token = {t0, t1, t2}
  Root = t0
  FailureMode = "closed"
SYMMETRY Interchangeable
INVARIANTS BearerIsAudited UndeliveredIsRevoked DelegatedFromUsable RevokedMeansRevoked
CHECK_DEADLOCK FALSE
