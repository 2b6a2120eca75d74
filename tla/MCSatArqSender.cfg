\* A window of three numbers in a space of four, numbers from just before the
\* one-byte number wraps, and retransmissions that may not fit.
CONSTANTS
  WindowSize = 3
  MaxSn = 4
  U32 = 64
  FirstSn = 2
  MaxNoOfRetransmissions = 2
  HeaderSize = 1
  PacketSizes = {1, 2}
  TxOpportunities = {2, 3}
  LastSn = 8
  MaxQueueBytes = 3
SPECIFICATION MCFairSpec
INVARIANTS
  SenderConsistent
  RetxBytesExact
PROPERTIES
  EveryPduResolved
CHECK_DEADLOCK FALSE
