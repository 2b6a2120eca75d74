\* Two fragment ids, so that they repeat with the third packet that is cut; a
\* packet that fits into small opportunities and one that is cut into two to four.
CONSTANTS
  MaxPackets = 2
  Encapsulations <- MCEncapsulations
  PacketSizes = {1, 4}
  TxOpportunities = {2, 3, 4}
  MaxBurst = 3
  NoPdu = NoPdu
  MaxAccepted = 3
  MaxOnAir = 2
SPECIFICATION MCSpec
INVARIANTS
  NothingVanishes
  QueueBytesExact
  StatisticsBalance
PROPERTIES
  ImplementsService
  EveryPacketResolved
CHECK_DEADLOCK FALSE
