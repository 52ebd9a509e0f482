SPECIFICATION FairSpec
CONSTANTS
  Bidders = {b1}
  Regulator = reg
  Notifiers = {1, 2}
  TraceLength = 2
  BufferLen = 1
  MaxSlot = 1
INVARIANTS SendersGone 
PROPERTIES RunEnds
CHECK_DEADLOCK FALSE
