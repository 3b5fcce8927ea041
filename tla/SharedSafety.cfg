CONSTANTS
  Procs = {p1, p2, p3}
  Files = {f1, f2}
  NoFile = NoFile
  MaxRows = 3
  MaxFaults = 1
  MaxKills = 1
CHECK_DEADLOCK FALSE
SYMMETRY Symmetric
SPECIFICATION Spec
INVARIANTS Consistent LossIsPaid
