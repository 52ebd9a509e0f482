SPECIFICATION Spec
CONSTANTS
  Prices = {1, 2, 4}
  Units = {1, 2}
  MaxBids = 3
INVARIANTS ClearsTheMarket Acceptable NoPriceOnlyIfApart
CHECK_DEADLOCK FALSE
