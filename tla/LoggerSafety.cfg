CONSTANTS
  client = client
  quiet = quiet
  Procs <- ProcSet
  Level <- LevelOf
  Locked = {quiet}
  Limit = 2
  MaxCalls = 3
  MaxSignals = 1
  MaxFaults = 1
CHECK_DEADLOCK FALSE
SPECIFICATION Spec
INVARIANTS Consistent LostExplained Bounded
PROPERTIES CallReturns
