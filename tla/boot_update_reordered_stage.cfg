SPECIFICATION Spec
CONSTANTS
  sbl1 = sbl1
  tz = tz
  aboot = aboot
  Parts <- MCParts
  Files <- MCFiles
  Ordered = FALSE
  MaxCrashes = 1
  MaxFaults = 0
  MaxBadImages = 0
  MaxReruns = 0
INVARIANT ZeroMeansPrepared
CHECK_DEADLOCK FALSE
