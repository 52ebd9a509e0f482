SPECIFICATION Spec
CONSTANTS
  ExpNum = 1
  SlotCount = 1
  RetryCount = 1
  MaxFaults = 1
  b1 = b1
  b2 = b2
  Bidders = {b1, b2}
  Trace <- TwoBuyers
  NoTx = NoTx
  NoSim = NoSim
SYMMETRY Symmetry
CONSTRAINT FewFaults
INVARIANTS TypeOK Serializable NoLostUpdate KeyOnlyAfterBid
PROPERTIES SettlesTheLedger AccountedFor
CHECK_DEADLOCK FALSE
