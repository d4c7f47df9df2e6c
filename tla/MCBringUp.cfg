CONSTANTS
  Width = 3
  MaxDifficulty = 2
  MaxNonce = 2
  Bits = 3
  TCPTimeout = 3
  AppTimeout = 3
  AuthTimeout = 30
  IdleLimit = 6
  Secret = TRUE
SPECIFICATION MCSpec
INVARIANTS NoLeak ReadyMeansAccepted KeptAlive
PROPERTIES BringUpEnds BrokenIsClosed
CHECK_DEADLOCK FALSE
