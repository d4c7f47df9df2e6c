CONSTANTS
  Calls = {c1, c2}
  MaxForeign = 1
  WalletCode = TRUE
  Attempts = {a1, a2}
  MinClientStake = 2
  MaxCharge = 1
  Requests <- MCRequests
  Amounts = {0, 1}
  DefaultTopUp = 10
  DefaultValue = 5
  Versions = {0, 1, 2, 3, 4, 5, 6}
  Codes = {1, 2}
SPECIFICATION MCSpec
INVARIANTS StakeReached SentMeansConfirmed AddressAgrees CodecsAgree
PROPERTIES ImplementsWalletService NeverOverpays
CHECK_DEADLOCK FALSE
