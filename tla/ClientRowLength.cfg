CONSTANTS
  Fds = {f1, f2}
  NoFd = NoFd
  Widths <- WideWidths
  IntervalGiven = TRUE
  MaxSamples = 2
  MaxFaults = 0
  MaxDrops = 1
  MaxRuns = 0
SPECIFICATION Spec
PROPERTY RowLeavesOnlySent
