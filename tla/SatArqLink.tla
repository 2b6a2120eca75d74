----------------------------- MODULE SatArqLink -----------------------------
(***************************************************************************)
(* One ARQ connection: a transmitter, a receiver, and between them a       *)
(* satellite link that loses and reorders PDUs and ACKs.  The same         *)
(* composition stands for the forward link, where the GW transmits, and    *)
(* for the return link.                                                    *)
(***************************************************************************)
EXTENDS SatArqSender, SatArqReceiver

\* The receiver is sent PDUs, which are identified by their numbers.
ASSUME LinkAssumption ==
  /\ Pdu = Nat
  /\ MaxSn > 4 * WindowSize

VARIABLES
  pduChannel,  \* copies of PDUs on their way
  ackChannel   \* ACKs on their way, by the number of the PDU

linkVars == <<senderVars, receiverVars, pduChannel, ackChannel>>

LinkInit ==
  /\ SenderInit
  /\ ReceiverInit
  /\ pduChannel = {}
  /\ ackChannel = {}

Put(pdu, count) ==
  pduChannel' = pduChannel \cup {[pdu |-> pdu, m_retransmissionCount |-> count]}

Enque ==
  /\ \E bytes \in PacketSizes : EnquePdu(bytes)
  /\ UNCHANGED <<receiverVars, pduChannel, ackChannel>>

SendNew ==
  /\ NumbersLeft
  /\ \E bytes \in TxOpportunities, payload \in 1 .. txQueueBytes : TransmitNew(bytes, payload)
  /\ Put(m_currSeqNo + 1, 0)
  /\ UNCHANGED <<receiverVars, ackChannel>>

SendAgain ==
  /\ \E bytes \in TxOpportunities : Retransmit(bytes)
  /\ LET context == m_retxBuffer[Begin(m_retxBuffer)]
     IN  Put(context.pdu, context.m_retransmissionCount + 1)
  /\ UNCHANGED <<receiverVars, ackChannel>>

TimerExpires ==
  /\ \E timer \in waitingTimers : ArqReTxTimerExpired(timer)
  /\ UNCHANGED <<receiverVars, pduChannel, ackChannel>>

\* ReceivePdu acknowledges whatever arrives before it looks at the number.
Arrive(copy) ==
  /\ pduChannel' = pduChannel \ {copy}
  /\ ackChannel' = ackChannel \cup {copy.pdu}
  /\ ReceivePdu(copy.pdu % MaxSn, copy.pdu)
  /\ UNCHANGED senderVars

ArriveAck(pdu) ==
  /\ ackChannel' = ackChannel \ {pdu}
  /\ ReceiveAck(pdu % MaxSn)
  /\ UNCHANGED <<receiverVars, pduChannel>>

Lose ==
  /\ \/ /\ \E copy \in pduChannel : pduChannel' = pduChannel \ {copy}
        /\ UNCHANGED ackChannel
     \/ /\ \E pdu \in ackChannel : ackChannel' = ackChannel \ {pdu}
        /\ UNCHANGED pduChannel
  /\ UNCHANGED <<senderVars, receiverVars>>

WaitingEnds ==
  /\ \E sn \in rxWaitingTimers : RxWaitingTimerExpired(sn)
  /\ UNCHANGED <<senderVars, pduChannel, ackChannel>>

(***************************************************************************)
(* What the code leaves to its timers: a new PDU is at most two windows    *)
(* ahead of the one the receiver expects, no copy arrives that is further  *)
(* behind it than that, and no ACK takes as long as a cycle of numbers.    *)
(***************************************************************************)
InStep == m_currSeqNo + 1 <= m_nextExpectedSeqNo + 2 * WindowSize

InTime(copy) == copy.pdu + 2 * WindowSize >= m_nextExpectedSeqNo

AckInTime(pdu) == pdu + MaxSn > m_currSeqNo

LinkNext ==
  \/ Enque
  \/ InStep /\ SendNew
  \/ SendAgain
  \/ TimerExpires
  \/ \E copy \in pduChannel : InTime(copy) /\ Arrive(copy)
  \/ \E pdu \in ackChannel : AckInTime(pdu) /\ ArriveAck(pdu)
  \/ Lose
  \/ WaitingEnds

LinkSpec == LinkInit /\ [][LinkNext]_linkVars

-----------------------------------------------------------------------------
\* A PDU has reached the receiver when it waits in the reordering buffer, or
\* the stream is past it.
HasReached(p) ==
  \/ p < m_nextExpectedSeqNo
  \/ p \in DOMAIN m_reorderingBuffer /\ m_reorderingBuffer[p] = Received(p)

\* ConvertSeqNo "Convert[s] the 8-bit sequence number value from ARQ header
\* into 32-bit continuous sequence number stream at the receiver": a PDU that
\* arrives is given the number it was sent with.
ConversionExact ==
  \A copy \in pduChannel :
    InTime(copy) => ConvertSeqNo(copy.pdu % MaxSn) = copy.pdu

\* The transmitter lets go of a PDU only when the receiver has it, or has
\* moved past it, or every retransmission is used up: no ACK of another PDU
\* with the same one-byte number ever frees it.
NothingLetGoEarly ==
  [][\A p \in InFlight \ InFlight' :
       \/ HasReached(p)
       \/ \E s \in DOMAIN m_txedBuffer :
            /\ m_txedBuffer[s].pdu = p
            /\ m_txedBuffer[s].m_retransmissionCount = MaxNoOfRetransmissions]_linkVars

\* The connection keeps the promise of SatDeliveryService.
Service == INSTANCE SatDeliveryService WITH sent <- m_currSeqNo, next <- m_nextExpectedSeqNo
ImplementsService == Service!ServiceSpec
=============================================================================
