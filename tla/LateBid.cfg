SPECIFICATION Spec
CONSTANTS
  ExpNum = 1
  SlotCount = 1
  RetryCount = 1
  MaxFaults = 1
  b1 = b1
  b2 = b2
  Bidders = {b1, b2}
  Trace <- BuyerSeller
  NoTx = NoTx
  NoSim = NoSim
PROPERTY LateBidRefused
CHECK_DEADLOCK FALSE
