---------------------------- MODULE SatArqSender ----------------------------
(***************************************************************************)
(* The transmitting half of the ARQ encapsulators of the forward link      *)
(* (GSE) and of the return link (RLE), which share one algorithm: a PDU    *)
(* waits for its ACK in the transmitted buffer, moves to the               *)
(* retransmission buffer when its timer expires, and is given up after the *)
(* last retransmission.                                                    *)
(*                                                                         *)
(* A PDU is identified by the continuous sequence number it is sent with.  *)
(***************************************************************************)
EXTENDS SatArqSequenceNumber, Functions

CONSTANTS
  MaxNoOfRetransmissions,  \* m_maxNoOfRetransmissions
  HeaderSize,              \* encapsulation header plus m_arqHeaderSize, bytes
  PacketSizes,             \* sizes of the packets from the upper layer, bytes
  TxOpportunities          \* sizes of the transmission opportunities, bytes

ASSUME SenderAssumption ==
  /\ MaxNoOfRetransmissions \in Nat
  /\ HeaderSize \in Nat \ {0}
  /\ PacketSizes \subseteq Nat \ {0}
  /\ TxOpportunities \subseteq Nat

VARIABLES
  m_txedBuffer,      \* one-byte number -> context waiting for an ACK
  m_retxBuffer,      \* one-byte number -> context waiting for retransmission
  m_retxBufferSize,  \* bytes, as the code accounts for m_retxBuffer
  txQueueBytes,      \* m_txQueue->GetNBytes ()
  waitingTimers      \* retransmission timer events scheduled and not cancelled

senderVars == <<m_seqNoMap, m_currSeqNo, m_txedBuffer, m_retxBuffer,
                m_retxBufferSize, txQueueBytes, waitingTimers>>

Context == [pdu : Nat, size : Nat, m_retransmissionCount : Nat]
TimerEvent == [seqNo : SeqNo, pdu : Nat]

Min(S) == CHOOSE x \in S : \A y \in S : x <= y

\* Keys of a std::map<uint8_t, ...> are visited in increasing order.
Begin(map) == Min(DOMAIN map)

SenderInit ==
  /\ SeqNoInit
  /\ m_txedBuffer = EmptyMap
  /\ m_retxBuffer = EmptyMap
  /\ m_retxBufferSize = 0
  /\ txQueueBytes = 0
  /\ waitingTimers = {}

\* EnquePdu of the base encapsulator; m_txQueue accepts the packet.
EnquePdu(bytes) ==
  /\ txQueueBytes' = txQueueBytes + bytes
  /\ UNCHANGED <<m_seqNoMap, m_currSeqNo, m_txedBuffer, m_retxBuffer,
                 m_retxBufferSize, waitingTimers>>

\* Mutant: the retransmission counter is not increased.
RetransmittedUncounted(context) == context

\* A context that is sent again.
Retransmitted(context) == [context EXCEPT !.m_retransmissionCount = @ + 1]

\* First branch of NotifyTxOpportunity: the first context of the
\* retransmission buffer fits and is sent again.
Retransmit(bytes) ==
  /\ m_retxBuffer # EmptyMap
  /\ LET seqNo == Begin(m_retxBuffer)
         context == Retransmitted(m_retxBuffer[seqNo])
     IN  /\ context.size <= bytes
         /\ m_retxBuffer' = MapErase(m_retxBuffer, seqNo)
         /\ m_retxBufferSize' = m_retxBufferSize - context.size
         /\ m_txedBuffer' = MapInsert(m_txedBuffer, seqNo, context)
         /\ waitingTimers' = waitingTimers \cup {[seqNo |-> seqNo, pdu |-> context.pdu]}
  /\ UNCHANGED <<m_seqNoMap, m_currSeqNo, txQueueBytes>>

\* Second branch: a new PDU of the given payload is cut from the queue.
\* GetNewGsePdu and GetNewRlePdu return NULL unless the opportunity exceeds
\* the headers, and never more than the opportunity holds.
TransmitNew(bytes, payload) ==
  /\ m_retxBuffer = EmptyMap
  /\ txQueueBytes > 0
  /\ SeqNoAvailable
  /\ payload \in 1 .. txQueueBytes
  /\ payload + HeaderSize <= bytes
  /\ LET size == payload + HeaderSize
         context == [pdu |-> m_currSeqNo + 1, size |-> size, m_retransmissionCount |-> 0]
     IN  /\ m_txedBuffer' = MapInsert(m_txedBuffer, NextSeqNo, context)
         /\ waitingTimers' = waitingTimers \cup {[seqNo |-> NextSeqNo, pdu |-> context.pdu]}
  /\ NextSequenceNumber
  /\ txQueueBytes' = txQueueBytes - payload
  /\ UNCHANGED <<m_retxBuffer, m_retxBufferSize>>

\* Mutant: the bytes of an acknowledged context stay in the count.
RetxBytesOfNone(seqNo) == 0

\* The bytes that leave the retransmission buffer with a number.
RetxBytesOf(seqNo) ==
  IF seqNo \in DOMAIN m_retxBuffer THEN m_retxBuffer[seqNo].size ELSE 0

\* CleanUp: the number is released, and its context disposed of wherever it
\* is; disposing of a context cancels the timer event stored in it.
CleanUp(seqNo) ==
  /\ Release(seqNo)
  /\ m_txedBuffer' = MapErase(m_txedBuffer, seqNo)
  /\ m_retxBuffer' = MapErase(m_retxBuffer, seqNo)
  /\ m_retxBufferSize' = m_retxBufferSize - RetxBytesOf(seqNo)
  /\ UNCHANGED txQueueBytes

\* The timer events of the contexts that CleanUp disposes of.
DisposedTimers(seqNo) ==
  {t \in waitingTimers :
     \/ seqNo \in DOMAIN m_txedBuffer /\ t = [seqNo |-> seqNo, pdu |-> m_txedBuffer[seqNo].pdu]
     \/ seqNo \in DOMAIN m_retxBuffer /\ t = [seqNo |-> seqNo, pdu |-> m_retxBuffer[seqNo].pdu]}

ReceiveAck(seqNo) ==
  /\ CleanUp(seqNo)
  /\ waitingTimers' = waitingTimers \ DisposedTimers(seqNo)

\* Mutant: one retransmission too few.
RetransmissionsLeftButOne(context) == context.m_retransmissionCount + 1 < MaxNoOfRetransmissions

RetransmissionsLeft(context) == context.m_retransmissionCount < MaxNoOfRetransmissions

\* ArqReTxTimerExpired, while retransmissions are left.
MoveToRetxBuffer(timer) ==
  /\ timer.seqNo \in DOMAIN m_txedBuffer
  /\ LET context == m_txedBuffer[timer.seqNo]
     IN  /\ RetransmissionsLeft(context)
         /\ m_txedBuffer' = MapErase(m_txedBuffer, timer.seqNo)
         /\ m_retxBufferSize' = m_retxBufferSize + context.size
         /\ m_retxBuffer' = MapInsert(m_retxBuffer, timer.seqNo, context)
  /\ waitingTimers' = waitingTimers \ {timer}
  /\ UNCHANGED <<m_seqNoMap, m_currSeqNo, txQueueBytes>>

\* ArqReTxTimerExpired, after the last retransmission.
GiveUp(timer) ==
  /\ timer.seqNo \in DOMAIN m_txedBuffer
  /\ ~RetransmissionsLeft(m_txedBuffer[timer.seqNo])
  /\ CleanUp(timer.seqNo)
  /\ waitingTimers' = waitingTimers \ ({timer} \cup DisposedTimers(timer.seqNo))

\* The handler's remaining branch, for a timer whose context is gone, only
\* logs; TimersMatchContexts says that it is never taken.
ArqReTxTimerExpired(timer) == MoveToRetxBuffer(timer) \/ GiveUp(timer)

(***************************************************************************)
(* The transmitter on its own.  Its environment enqueues packets, offers   *)
(* opportunities, and acknowledges, at any time and any number of times,   *)
(* any number ever used: a late ACK has the one-byte number of some PDU of *)
(* the last cycle, so those stand for all.  It does not use up all values  *)
(* of a uint32_t.                                                          *)
(***************************************************************************)
NumbersLeft == m_currSeqNo + 1 < U32

NotifyTxOpportunity(bytes) ==
  \/ Retransmit(bytes)
  \/ NumbersLeft /\ \E payload \in 1 .. bytes : TransmitNew(bytes, payload)

LastCycle == {p \in m_currSeqNo - MaxSn + 1 .. m_currSeqNo : p >= 0}

SenderNext ==
  \/ \E bytes \in PacketSizes : EnquePdu(bytes)
  \/ \E bytes \in TxOpportunities : NotifyTxOpportunity(bytes)
  \/ \E p \in LastCycle : ReceiveAck(p % MaxSn)
  \/ \E timer \in waitingTimers : ArqReTxTimerExpired(timer)

SenderSpec == SenderInit /\ [][SenderNext]_senderVars

-----------------------------------------------------------------------------
\* PDUs that have a context, and the numbers the handler considers in use.
BufferedIn(buffer) == {buffer[s].pdu : s \in DOMAIN buffer}
InFlight == BufferedIn(m_txedBuffer) \cup BufferedIn(m_retxBuffer)
Unreleased == {k \in DOMAIN m_seqNoMap : ~m_seqNoMap[k]}

SenderTypeOK ==
  /\ m_currSeqNo \in -1 .. U32 - 1
  /\ IsMap(m_seqNoMap, 0 .. m_currSeqNo, BOOLEAN)
  /\ IsMap(m_txedBuffer, SeqNo, Context)
  /\ IsMap(m_retxBuffer, SeqNo, Context)
  /\ m_retxBufferSize \in Int
  /\ txQueueBytes \in Nat
  /\ waitingTimers \subseteq TimerEvent

\* The entries of the handler are the last numbers handed out, without gaps,
\* and at most a window of them; the oldest is never a released one.  A late
\* ACK makes Release insert an entry for a number that left long ago, which
\* CleanUp must take out again.
WindowIsContiguous ==
  /\ Cardinality(DOMAIN m_seqNoMap) <= WindowSize
  /\ \E lo \in 0 .. m_currSeqNo + 1 :
       /\ DOMAIN m_seqNoMap = lo .. m_currSeqNo
       /\ lo <= m_currSeqNo => ~m_seqNoMap[lo]

\* The handler and the two buffers agree: a number is unreleased exactly when
\* its PDU has a context, in one of the buffers and under its own one-byte
\* number.  So no new PDU is refused a place by std::map::insert, and the
\* fatal error of a retransmission already in the transmitted buffer cannot
\* happen.
NumbersMatchContexts ==
  /\ DOMAIN m_txedBuffer \cap DOMAIN m_retxBuffer = {}
  /\ \A s \in DOMAIN m_txedBuffer : s = m_txedBuffer[s].pdu % MaxSn
  /\ \A s \in DOMAIN m_retxBuffer : s = m_retxBuffer[s].pdu % MaxSn
  /\ InFlight = Unreleased

\* Every context of the transmitted buffer has its timer running, and no
\* other timer runs: none is left behind by an ACK that takes the context
\* from the retransmission buffer, or by a number used again.
TimersMatchContexts ==
  waitingTimers = {[seqNo |-> s, pdu |-> m_txedBuffer[s].pdu] : s \in DOMAIN m_txedBuffer}

\* A PDU is transmitted at most once plus MaxNoOfRetransmissions times, and
\* one that waits for retransmission may still be retransmitted.
RetransmissionsBounded ==
  /\ \A s \in DOMAIN m_txedBuffer :
       m_txedBuffer[s].m_retransmissionCount <= MaxNoOfRetransmissions
  /\ \A s \in DOMAIN m_retxBuffer :
       m_retxBuffer[s].m_retransmissionCount < MaxNoOfRetransmissions

\* The sequence number handler, the two buffers and the timers agree, at every
\* interleaving of opportunities, expiries and ACKs late or repeated.
SenderConsistent ==
  /\ SenderTypeOK
  /\ WindowIsContiguous
  /\ NumbersMatchContexts
  /\ TimersMatchContexts
  /\ RetransmissionsBounded

\* The byte count that the MAC schedules and requests capacity by never
\* drifts from the contents of the retransmission buffer.
RetxBytesExact ==
  m_retxBufferSize = SumFunction([s \in DOMAIN m_retxBuffer |-> m_retxBuffer[s].size])
=============================================================================
