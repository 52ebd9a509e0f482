SPECIFICATION FairSpec
CONSTANTS
  Notifiers = {1, 2}
  TraceLength = 3
  Buys = {0}
  Sells = {1}
  BufferLen = 2
  MaxSlot = 2
INVARIANTS TypeOK RowsInOrder
PROPERTIES ImplementsAgent BidderReturns
CHECK_DEADLOCK FALSE
