\* Every method, with params and results around a first and a full value.
SPECIFICATION Spec
CONSTANTS
  Passed <- MCPassed
  u128_MAX = 1
INVARIANTS
  RequestUnderstood
  AnswerUnderstood
  PanicsAreKnown
