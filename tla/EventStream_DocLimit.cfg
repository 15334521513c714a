\* The server asks for a retry twice.
SPECIFICATION Spec
CONSTANTS
  Endpoints = {e1, e2}
  InitialEndpoint = e1
  max_retries = 1
  NoLimit = NoLimit
  NoFuture = NoFuture
  MaxItems = 2
  MaxCalls = 0
CHECK_DEADLOCK FALSE
INVARIANT RetryLimitHolds
