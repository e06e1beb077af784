SPECIFICATION FairSpec
CONSTANTS
  Bits <- MCBits
  Events <- MCEvents
  EventsOf <- MCEventsOf
  SessionEvents <- MCSessionEvents
  EngineState = "ENGINE_STATE"
  Position = "POSITION"
  mExcludedMask <- MCExcluded
  Masks <- MCMasks
  Fails = TRUE
  LostAcks = TRUE
  MaxStarts = 3
  MaxToggles = 2
  MaxDowns = 1
  MaxOpens = 2
CHECK_DEADLOCK FALSE
INVARIANTS
  MasksAgree
  RegisteredIsWanted
  SessionGetsEvents
PROPERTY
  SessionWindsUp
