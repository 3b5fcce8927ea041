CONSTANTS
  Conns = {c1, c2, c3}
  NoConn = NoConn
  Fds = {f1, f2}
  WholeReads = TRUE
  EchoCap = 1
  MaxMsgs = 2
  MaxFaults = 1
  MaxAddFaults = 1
  MaxRuns = 2
CHECK_DEADLOCK FALSE
SYMMETRY Symmetric
SPECIFICATION Spec
INVARIANTS Consistent  StoredInOrder Accounted
