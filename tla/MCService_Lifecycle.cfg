\* Two bundles, block 1 is reported again or block 2, the queues are cleared.
SPECIFICATION Spec
CONSTANTS
  Requests = {r1, r2}
  Load = {}
  Inclusions <- NowOrLater
  NoMaxBlock = NoMaxBlock
  Listeners = {}
  BlockNumbers = {1, 2}
  InitialBlock = 1
  max_retries = 1
  max_normal_prio_queue_len = 1
  max_high_prio_queue_len = 1
  max_concurrent_simulations = 1
  MaxBlockUpdates = 1
  MaxClears = 1
SYMMETRY RequestSymmetry
CHECK_DEADLOCK FALSE
INVARIANTS
  NoLostWakeup
  WindowRespected
PROPERTIES
  LifecycleImplemented
