CONSTANTS
  MaxTx = 3
  MaxBalance = 3
  RunnerRuns = TRUE
  Commands = {i1, i2, f1, g1}
  Forced = {f1}
  Generators = {g1}
  Concurrent = FALSE
SPECIFICATION MCSpec
INVARIANTS QuietConfirmation
PROPERTIES SweepConfirmed SuccessMeansPair KeepsWallet
CHECK_DEADLOCK FALSE
