CONSTANTS
  MaxTx = 3
  MaxBalance = 3
  RunnerRuns = FALSE
  Commands = {i1, i2, f1, g1}
  Forced = {f1}
  Generators = {g1}
  Concurrent = FALSE
SPECIFICATION MCSpec
INVARIANTS ConfirmedMeansDrained
CHECK_DEADLOCK FALSE
