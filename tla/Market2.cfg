SPECIFICATION Spec
CONSTANTS
  ExpNum = 2
  SlotCount = 1
  RetryCount = 2
  MaxFaults = 3
  b1 = b1
  b2 = b2
  Bidders = {b1, b2}
  Trace <- BuyerSeller
  NoTx = NoTx
  NoSim = NoSim
CONSTRAINT FewFaults
INVARIANTS Serializable
PROPERTIES SettlesTheLedger
CHECK_DEADLOCK FALSE
