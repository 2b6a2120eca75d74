--------------------------- MODULE MCSatArqSender ---------------------------
EXTENDS SatArqSender

CONSTANTS
  LastSn,        \* bound: the last number that can be handed out
  MaxQueueBytes  \* bound: the bytes that wait in m_txQueue

\* Every PDU carries at least a byte, so only EnquePdu is ever held back.
Bounded ==
  /\ m_currSeqNo' + txQueueBytes' <= LastSn
  /\ txQueueBytes' <= MaxQueueBytes

MCSpec == SenderInit /\ [][SenderNext /\ Bounded]_senderVars

\* A timer carries the one-byte number of its PDU (NumbersMatchContexts).
MCTimers == {[seqNo |-> pdu % MaxSn, pdu |-> pdu] : pdu \in FirstSn .. LastSn}

\* Timers always expire.  The scheduler of the MAC offers opportunities again
\* and again while GetTxBufferSizeInBytes is not zero, and is assumed to come
\* around to ones that hold any PDU.
MCFairSpec ==
  /\ MCSpec
  /\ \A timer \in MCTimers : WF_senderVars(ArqReTxTimerExpired(timer))
  /\ \E bytes \in TxOpportunities :
       /\ \A other \in TxOpportunities : other <= bytes
       /\ WF_senderVars(NotifyTxOpportunity(bytes))

\* Every PDU is eventually acknowledged or given up, whatever is lost; and the
\* queue drains: the window never closes for good, and retransmissions do not
\* starve new PDUs.
EveryPduResolved ==
  /\ \A p \in FirstSn .. LastSn : p \in InFlight ~> p \notin InFlight
  /\ []<>(txQueueBytes = 0)
=============================================================================
