CONSTANTS
  Proxies = {p1, p2}
  Requests = {r1}
  Data = {d1}
  Times <- MCTimes
  None = None
SPECIFICATION MCSpec
PROPERTIES MemoryImplementsStore ImplementsStore
