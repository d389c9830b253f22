SPECIFICATION LogSpec
CONSTANTS
  r1 = r1
  r2 = r2
  r3 = r3
  Nobody = Nobody
  Record = {r1, r2, r3}
  Length = 3
  LogFailureMode = "closed"
  MaxCrashes = 2
SYMMETRY Interchangeable
INVARIANT AcknowledgedIsLine
CHECK_DEADLOCK FALSE
