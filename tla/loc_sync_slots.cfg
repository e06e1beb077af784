SPECIFICATION Spec
CONSTANTS
  t1 = t1
  t2 = t2
  t3 = t3
  k1 = k1
  k2 = k2
  NoKey = NoKey
  NoBuf = NoBuf
  Threads <- MCThreads3
  Keys <- MCKeys
  KeysOf <- MCSame3
  NSlots = 2
  Timeouts = TRUE
  Spurious = TRUE
  SendFails = TRUE
  MaxCalls = 1
SYMMETRY MCSymmetry3
INVARIANTS BufferAlive OneOwner InUseCoversSlots
