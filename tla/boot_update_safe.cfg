SPECIFICATION FairSpec
CONSTANTS
  sbl1 = sbl1
  tz = tz
  aboot = aboot
  Parts <- MCParts
  Files <- MCFiles
  Ordered = TRUE
  MaxCrashes = 2
  MaxFaults = 0
  MaxBadImages = 0
  MaxReruns = 1
INVARIANTS Bootable ChainUniform
PROPERTIES LiveCopyNeverWritten UpdateCompletes ImplementsAB
