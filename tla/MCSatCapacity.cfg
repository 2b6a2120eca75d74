CONSTANTS
  volume = volume
  rate = rate
  MaxRate = 3
  MaxBacklog = 12
  Rc = {volume, rate}
  LlsConf <- MCLlsConf
  DynamicRatePersistence = 2
  VolumeBacklogPersistence = 2
  W16 = 64
  OverEstimation <- MCDouble
  Rtt = 1
  NumValues = 8
  ScalingFactors <- MCScaling
  MaxElapsed = 2
  SlotPayload = 3
  SlotOverhead = 1
  ControlSize = 1
  MaxReports = 1
  PacketSizes = {3}
  MaxPackets = 2
  MaxCrs = 1
  MaxTbtps = 1
  MaxSlots = 2
  MaxFaults = 1
SPECIFICATION MCFairSpec
INVARIANTS
  BacklogIsAskedFor
PROPERTIES
  BacklogServed
  CapacityReleased
CHECK_DEADLOCK FALSE
