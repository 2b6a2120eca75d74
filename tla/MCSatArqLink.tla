---------------------------- MODULE MCSatArqLink ----------------------------
EXTENDS SatArqLink

CONSTANTS
  LastSn,        \* bound: the last number that can be handed out
  MaxQueueBytes, \* bound: the bytes that wait in m_txQueue
  MaxInChannel   \* bound: messages on their way in one direction

Bounded ==
  /\ m_currSeqNo' + txQueueBytes' <= LastSn
  /\ txQueueBytes' <= MaxQueueBytes
  /\ Cardinality(pduChannel') <= MaxInChannel
  /\ Cardinality(ackChannel') <= MaxInChannel

\* A waiting timer always expires, unless it is cancelled.
MCFairSpec ==
  /\ LinkInit
  /\ [][LinkNext /\ Bounded]_linkVars
  /\ WF_linkVars(WaitingEnds)

\* No PDU that was received waits for ever behind one that never arrives: the
\* numbers are bounded, so what waits for ever would keep the buffer filled.
ReorderingEnds == []<>(DOMAIN m_reorderingBuffer = {})
=============================================================================
