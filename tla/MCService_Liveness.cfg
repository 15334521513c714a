\* One bundle among two others at a time, and no end of them.
SPECIFICATION FairLoad
CONSTANTS
  Requests = {r1, r2, r3}
  Load = {r2, r3}
  Inclusions <- AnytimeOrLater
  NoMaxBlock = NoMaxBlock
  Listeners = {}
  BlockNumbers = {}
  InitialBlock = 1
  max_retries = 1
  max_normal_prio_queue_len = 1
  max_high_prio_queue_len = 1
  max_concurrent_simulations = 1
  MaxBlockUpdates = 0
  MaxClears = 0
CHECK_DEADLOCK FALSE
PROPERTIES
  CallerAnswered
  RequestSettles
