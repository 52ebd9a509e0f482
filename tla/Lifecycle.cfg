SPECIFICATION FairSpec
CONSTANTS
  Bidders = {b1, b2}
  Regulator = reg
  Notifiers = {1}
  TraceLength = 1
  BufferLen = 1
  MaxSlot = 2
INVARIANTS TypeOK NobodyCutShort
PROPERTIES RegulatorConcludes
CHECK_DEADLOCK FALSE
