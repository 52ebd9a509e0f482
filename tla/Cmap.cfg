SPECIFICATION Spec
CONSTANTS
  Key = {k1, k2, k3}
  Readers = {r1, r2}
  Cap = 2
  MaxPuts = 4
  MaxGets = 3
INVARIANTS Consistent OnlyEvictionPanics
PROPERTIES ImplementsLossyLru
SYMMETRY Symmetry
CHECK_DEADLOCK FALSE
