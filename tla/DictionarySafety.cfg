CONSTANTS
  k1 = k1
  k2 = k2
  k3 = k3
  Keys <- KeySet
  Hash <- HashOf
  Vals = {v1, v2}
  NULL = NULL
  MinSize = 2
  MaxSize = 4
  MaxFaults = 2
CHECK_DEADLOCK FALSE
SPECIFICATION Spec
INVARIANTS Consistent OrphansExplained
PROPERTIES Implements
