CONSTANTS
  Fds = {f1, f2}
  NoFd = NoFd
  Widths <- CloseWidths
  IntervalGiven = TRUE
  MaxSamples = 3
  MaxFaults = 2
  MaxDrops = 1
  MaxRuns = 1
SPECIFICATION FairSpec
INVARIANTS TypeOK Conserved SpoolOrder ServesHead NoDescriptorLeak ResentExplained
PROPERTIES RowLeavesOnlySent Implements Drains StopTerminates
