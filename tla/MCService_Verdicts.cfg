\* Two bundles for block 2 and one listener, while block 2 is reported.
SPECIFICATION Spec
CONSTANTS
  Requests = {r1, r2}
  Load = {}
  Inclusions <- NowOnly
  NoMaxBlock = NoMaxBlock
  Listeners = {l1}
  BlockNumbers = {2}
  InitialBlock = 1
  max_retries = 1
  max_normal_prio_queue_len = 1
  max_high_prio_queue_len = 1
  max_concurrent_simulations = 1
  MaxBlockUpdates = 1
  MaxClears = 0
CHECK_DEADLOCK FALSE
SYMMETRY RequestSymmetry
INVARIANTS
  TypeOK
  OneVerdict
  RetryAccounting
  AnswersTruthful
  NoSilentLoss
  ResultsExplained
