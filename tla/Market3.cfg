SPECIFICATION FairSpec
CONSTANTS
  ExpNum = 3
  SlotCount = 2
  RetryCount = 1
  MaxFaults = 0
  b1 = b1
  b2 = b2
  Bidders = {b1}
  Trace <- OneBuyer
  NoTx = NoTx
  NoSim = NoSim
INVARIANTS Serializable KeyOnlyAfterBid ClearedOnce
PROPERTIES SettlesTheLedger AccountedFor WorkConcludes
CHECK_DEADLOCK FALSE
