SPECIFICATION Spec
CONSTANTS
  t1 = t1
  t2 = t2
  t3 = t3
  k1 = k1
  k2 = k2
  NoKey = NoKey
  NoBuf = NoBuf
  Threads <- MCThreads2
  Keys <- MCKeys
  KeysOf <- MCSame2
  NSlots = 2
  Timeouts = FALSE
  Spurious = FALSE
  SendFails = FALSE
  MaxCalls = 1
INVARIANT AnsweredOnce
