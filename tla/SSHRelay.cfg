SPECIFICATION FairRelaySpec
CONSTANTS
  Policy <- policy
  maxRequests = 3
  fatalCapacity = 8
  repliedCapacity = 1
  MaxOutput <- outputs
  Ask <- ask
INVARIANT
  OneProgram
PROPERTIES
  OrderlyEnd
  
CHECK_DEADLOCK FALSE
