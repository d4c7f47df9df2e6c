CONSTANTS
  Calls = {c1, c2}
  Addrs = {a1}
  NoSession = NoSession
SPECIFICATION FairSpec
INVARIANTS ClosedStaysEmpty Accounted
PROPERTIES ConnectReturns DeadLeavesMap CloseSticks
CHECK_DEADLOCK FALSE
