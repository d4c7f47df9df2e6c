CONSTANTS
  Reqs = {r1}
  Translating = {r1}
  Cap = 2
  MaxParts = 4
  Reader = Reader
  Nobody = Nobody
SPECIFICATION StreamSpec
INVARIANTS NoPanic Gapless CompleteUnlessFull
PROPERTIES Closes ReaderReturns
CHECK_DEADLOCK FALSE
