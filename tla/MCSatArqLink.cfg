\* The smallest number space that a window of one allows; nine PDUs, so the
\* one-byte number wraps twice.
CONSTANTS
  WindowSize = 1
  MaxSn = 5
  U32 = 64
  FirstSn = 3
  MaxNoOfRetransmissions = 1
  HeaderSize = 1
  PacketSizes = {1}
  TxOpportunities = {2}
  Pdu <- Nat
  NoPdu = NoPdu
  LastSn = 8
  MaxQueueBytes = 1
  MaxInChannel = 2
SPECIFICATION MCFairSpec
INVARIANTS
  ConversionExact
  ReceiverConsistent
PROPERTIES
  NothingLetGoEarly
  ImplementsService
  ReorderingEnds
CHECK_DEADLOCK FALSE
