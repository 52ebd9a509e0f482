SPECIFICATION Spec
CONSTANTS
  buy1 = buy1
  buy2 = buy2
  sell1 = sell1
  Trace <- OneSlot
  Buyers = {buy1, buy2}
  TraceLength = 1
  Copies = 2
  BufferLen = 1
  MaxBlock = 1
INVARIANTS GridBalance TradedUnlessLate AllCounted BlocksFedOnce
CHECK_DEADLOCK FALSE
