CONSTANTS
  Base = 6
  Messages <- MCMessages
  Responses <- HTTPResponses
  Writers = {w1, w2}
  Reader = Reader
  Free = Free
  Sizes <- MCSizes
  MaxWrites = 2
  SeqnoBits = 2
  MinPayload = 2
  MaxPayload = 3
  Window = 1
  MaxPings = 2
SPECIFICATION MCSpec
INVARIANTS RoundTrips DeliveredInOrder
PROPERTIES CloseFreesAll Served
CHECK_DEADLOCK FALSE
