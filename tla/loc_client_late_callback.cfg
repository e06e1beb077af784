SPECIFICATION LcSpec
CONSTANTS
  NData = 2
  MaxTries = 1
  InitFails = FALSE
  RegisterFails = FALSE
  ReleaseFails = FALSE
CHECK_DEADLOCK FALSE
INVARIANT NotCalledAfterClose
