SPECIFICATION ReceptionSpec
CONSTANTS
  a = a
  b = b
  f = f
  Sender = {a, b, f}
  OwnBeam = {a, b}
  RxPower <- MCRxPower
  Noise = 1
  Scale = 4
  SinrAlways = 6
  SinrNever = 4
  Slot <- MCSlot
  SlotDuration = 2
  GuardTime = 1
  PacketDuration = 2
  m_windowDuration = 4
  m_windowStep = 2
  m_windowDelay = 1
  m_detectionThreshold = 1
  Saturation = 8
  NumOfInstances = 2
  MaxFramePackets <- MCMaxFramePackets
  MaxEssaPackets <- MCMaxEssaPackets
  Horizon = 10
INVARIANTS
  InterferenceIsExact
  OutcomeJustified
  HandedUpOnce
CHECK_DEADLOCK FALSE
