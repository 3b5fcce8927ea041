CONSTANTS
  Lines <- LineSet
  Settings <- SettingSet
  Odd = Odd
  Default = Default
  NULL = NULL
  Cap = 9
  MaxLines = 4
  MaxFaults = 1
CHECK_DEADLOCK FALSE
SPECIFICATION Spec
INVARIANTS Consistent AsWritten ReadBack
