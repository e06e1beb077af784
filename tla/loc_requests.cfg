SPECIFICATION RequestsSpec
CONSTANTS
  NData = 4
  MaxTries = 1
  InitFails = TRUE
  RegisterFails = TRUE
  ReleaseFails = TRUE
  t1 = t1
  t2 = t2
  k1 = k1
  k2 = k2
  NoKey = NoKey
  NoBuf = NoBuf
  Threads <- MCThreads
  Keys <- MCKeys
  KeysOf <- MCKeysOf
  NSlots = 2
  Timeouts = FALSE
  Spurious = FALSE
  SendFails = FALSE
  MaxCalls = 2
CHECK_DEADLOCK FALSE
INVARIANTS
  ReadsLiveData NothingLeft
  SuccessMeansAnswered
PROPERTIES
  OpenAndCloseReturn
  CallsReturn
