\* Two endpoints, one retry allowed, four items, four calls of the owner.
SPECIFICATION FairSpec
CONSTANTS
  Endpoints = {e1, e2}
  InitialEndpoint = e1
  max_retries = 1
  NoLimit = NoLimit
  NoFuture = NoFuture
  MaxItems = 4
  MaxCalls = 4
CHECK_DEADLOCK FALSE
INVARIANTS
  TypeOK
  NoPanic
  ManualRetriesBounded
PROPERTIES
  ContractImplemented
  RetryResolves
