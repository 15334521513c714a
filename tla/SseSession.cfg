\* A subscription and one reconnection, a ring of one and two messages; MaxItems never binds.
SPECIFICATION FairSession
CONSTANTS
  Clients = {c1, c2}
  First = c1
  Readers = {}
  path = "sse"
  RequestUris <- SessionUris
  capacity = 1
  MaxMessages = 2
  Nothing = Nothing
  max_retries = 1
  NoLimit = NoLimit
  NoFuture = NoFuture
  MaxItems = 8
  MaxCalls = 1
CHECK_DEADLOCK FALSE
INVARIANTS
  OwnerInOrder
  OwnerMissesOnlyOverwritten
PROPERTIES
  OwnerServed
  EndReachesOwner
