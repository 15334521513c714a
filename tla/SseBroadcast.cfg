\* A client that reads and one that may stall, a ring of two and four messages.
SPECIFICATION FairSpec
CONSTANTS
  Clients = {c1, c2}
  Readers = {c1}
  capacity = 2
  path = "sse"
  RequestUris <- PlainUris
  Nothing = Nothing
  MaxMessages = 4
CHECK_DEADLOCK FALSE
INVARIANTS
  TypeOK
  InOrder
  OnlyOverwrittenLost
PROPERTIES
  BroadcastImplemented
  ReaderServed
  TasksEnd
