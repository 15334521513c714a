\* Three calls and two slots.
SPECIFICATION FairSpec
CONSTANTS
  Calls = {c1, c2, c3}
  Slots = 2
  NoRequest = NoRequest
CHECK_DEADLOCK FALSE
INVARIANTS
  TypeOK
  CalledWhenReady
  SlotsAccounted
  ProperlySigned
PROPERTY BecomesReady
