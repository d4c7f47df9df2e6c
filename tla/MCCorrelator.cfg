CONSTANTS
  Calls = {c1, c2}
  BareCalls = {c1}
  Ids = {i1, i2}
  NoCall = NoCall
  NoId = NoId
  Reader = Reader
SPECIFICATION FairSpec
INVARIANTS SingleOwner AnswerMatches
PROPERTIES Returns ImplementsQueryService
CHECK_DEADLOCK FALSE
