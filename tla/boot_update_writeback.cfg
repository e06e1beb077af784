SPECIFICATION Spec
CONSTANTS
  sbl1 = sbl1
  tz = tz
  aboot = aboot
  Parts <- MCParts
  Files <- MCFiles
  Ordered = FALSE
  MaxCrashes = 0
  MaxFaults = 2
  MaxBadImages = 2
  MaxReruns = 1
SYMMETRY MCSymmetry
INVARIANT ZeroMeansPrepared
