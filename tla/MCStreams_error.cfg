CONSTANTS
  Reqs = {r1}
  Translating = {r1}
  Cap = 2
  MaxParts = 3
  Reader = Reader
  Nobody = Nobody
SPECIFICATION Spec
INVARIANT RefusesIncomplete
CHECK_DEADLOCK FALSE
