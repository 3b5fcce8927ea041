CONSTANTS
  Clients = {a1}
  Conns = {c1, c2}
  NoConn = NoConn
  Fds = {f1, f2}
  WholeReads = TRUE
  EchoCap = 1
  SockCap = 2
  MaxMsgs = 3
  MaxFaults = 1
  MaxAddFaults = 0
  MaxRuns = 2
  MaxSamples = 2
  MaxDbFaults = 1
  MaxBoots = 2
CHECK_DEADLOCK FALSE
SYMMETRY TelemetrySymmetric
SPECIFICATION TelemetrySpec
INVARIANTS  TwiceExplained 
PROPERTIES ClientsImplement
