SPECIFICATION FairSpec
CONSTANTS
  Notifiers = {1}
  StartFromBlock = 1
  BlocksPerSlot = 4
  BlockOffset = 2
  MaxLag = 1
  MaxHeight = 6
PROPERTIES NotifiersConclude
CHECK_DEADLOCK FALSE
