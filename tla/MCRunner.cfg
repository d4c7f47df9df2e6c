CONSTANTS
  NumEndpoints = 2
  Balances = {1, 2}
  Models <- MCModels
  NumSessions = 2
  Requests <- MCRequests
  Calls <- MCCalls
  Messages <- LongMessages
  Pieces <- MCPieces
  Precision = 3
  MaxMessages = 2
  MaxPieces = 4
SPECIFICATION MCSpec
INVARIANTS NeverMixed SentAsResolved AnswerSplit HistoryKept
PROPERTIES LossIsReported
CHECK_DEADLOCK FALSE
