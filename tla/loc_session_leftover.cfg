SPECIFICATION Spec
CONSTANTS
  Bits <- MCBits
  Events <- MCEvents
  EventsOf <- MCEventsOf
  SessionEvents <- MCSessionEvents
  EngineState = "ENGINE_STATE"
  Position = "POSITION"
  mExcludedMask <- MCExcluded
  Masks <- MCMasks
  Fails = FALSE
  LostAcks = FALSE
  MaxStarts = 2
  MaxToggles = 1
  MaxDowns = 0
  MaxOpens = 2
CHECK_DEADLOCK FALSE
INVARIANT LeftoverIsTransient
