SPECIFICATION Spec
CONSTANTS
  g1 = g1
  g2 = g2
  closer = closer
  a = a
  b = b
  None = None
  Getter = {g1, g2}
  Closer = closer
  Reference = {a, b}
  SecretId = {1, 2, 3, 4}
  TTL = 2
  MaxEntries = 1
  LoadBound = 1
  MaxTime = 3
  MaxVersion = 1
SYMMETRY Interchangeable
INVARIANTS CacheIsSound OneOwner StaleBound
CHECK_DEADLOCK FALSE
