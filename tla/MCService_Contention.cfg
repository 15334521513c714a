\* Four bundles, some not eligible yet, two slots, queues of length one.
SPECIFICATION SentSpec
CONSTANTS
  Requests = {r1, r2, r3, r4}
  Load = {}
  Inclusions <- AnytimeOrLater
  NoMaxBlock = NoMaxBlock
  Listeners = {}
  BlockNumbers = {}
  InitialBlock = 1
  max_retries = 1
  max_normal_prio_queue_len = 1
  max_high_prio_queue_len = 1
  max_concurrent_simulations = 2
  MaxBlockUpdates = 0
  MaxClears = 0
CHECK_DEADLOCK FALSE
SYMMETRY RequestSymmetry
INVARIANTS
  ConcurrencyBound
  NoPriorityInversion
  OverflowBound
