\* What an eth_callBundle request carries.
SPECIFICATION Spec
CONSTANTS
  Passed <- MCPassed
  u128_MAX = 1
INVARIANT
  CallBundleTakesABundle
