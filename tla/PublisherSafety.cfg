CONSTANTS
  MaxRounds = 3
  MaxFaults = 1
CHECK_DEADLOCK FALSE
SPECIFICATION Spec
INVARIANTS Consistent DeliveredUnlessCut
PROPERTIES CallbackLeavesLoop
