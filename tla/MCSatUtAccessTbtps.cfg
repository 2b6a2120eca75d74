CONSTANTS
  Channel = {0, 1}
  InUse = {0}
  ModelsInUse = {"CRDSA"}
  RaSlots = {0, 1, 2, 3}
  NumOfInstances = 2
  MaxUniquePayload = 2
  MaxConsecutive <- MCMaxConsecutive
  MinIdle <- MCMinIdle
  BackoffTime <- MCBackoffTime
  ReleaseTimes = {0, 1}
  EssaWaits = {0, 3}
  N = 4
  Ahead = 1
  MaxTbtps = 2
  MaxDaSlots = 1
  EssaDuration = 2
  MaxBuffered = 2
  MaxEvents = 6
  MaxMessages = 1
SPECIFICATION MCSpec
CHECK_DEADLOCK FALSE
INVARIANT
  OneTransmissionAtATime
