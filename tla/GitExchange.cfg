SPECIFICATION Spec
CONSTANTS
  Repository <- repo
  Item <- items
  Policies <- policies
  Secret <- secret
  Byte = {1, 2}
  MaxResponse = 6
  MaxChunk = 2
  MaxIdle = 2
  MaxPrefix = 6
  MaxCommands = 2
  MaxShallowOIDs = 2
  MaxPushOptions = 1
  MaxCapabilities = 3
  maximum = 6
  MaxRead = 2
INVARIANTS
  UpdatesAreAuthorized
  BodyIsWhole
  ResponseIsClean
CHECK_DEADLOCK FALSE
