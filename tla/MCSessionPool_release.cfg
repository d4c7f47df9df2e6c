CONSTANTS
  Calls = {c1, c2, c3}
  Addrs = {a1}
  NoSession = NoSession
SPECIFICATION HealthyCloseSpec
PROPERTY CloseReleasesAll
CHECK_DEADLOCK FALSE
