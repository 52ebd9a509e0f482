SPECIFICATION FairSpec
CONSTANTS
  Notifiers = {1, 2}
  StartFromBlock = 1
  BlocksPerSlot = 8
  BlockOffset = 4
  MaxLag = 2
  MaxHeight = 9
INVARIANTS TypeOK SlotsSeenAreTold
PROPERTIES ImplementsSource SlotsComeUp
CHECK_DEADLOCK FALSE
