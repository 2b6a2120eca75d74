CONSTANTS
  u1 = u1
  u2 = u2
  u3 = u3
  Ut = {u1, u2, u3}
  Rc = {0, 1}
  Frame = {f1, f2}
  CarrierSymbols = 7
  Carrier = {1, 2}
  TargetLoad <- MCTarget
  BurstLengths <- MCBursts
  RobustLength = 2
  MaxTbtpSize = 15
  BodySize = 3
  FrameSize = 3
  SlotSize = 2
  MinimumRate <- MCRates
  Demands <- MCDemands
  CtrlSlotPeriod = TRUE
  RaChannels <- MCRaChannels
SPECIFICATION MCSpec
INVARIANTS
  SlotsDoNotClash
  WithinTargetLoad
  TbtpsFit
  GrantsAreServed
PROPERTIES
  UtLoopEnds
