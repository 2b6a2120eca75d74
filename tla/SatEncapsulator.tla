-------------------------- MODULE SatEncapsulator --------------------------
(***************************************************************************)
(* The two encapsulators without ARQ, SatGenericStreamEncapsulator (GSE,   *)
(* forward link) and SatReturnLinkEncapsulator (RLE): they cut packets to  *)
(* the transmission opportunities they are given and put them together     *)
(* again.  They are one algorithm with other header sizes and limits.      *)
(***************************************************************************)
EXTENDS SatQueue

CONSTANTS
  Encapsulations,   \* the header sizes and limits of GSE and of RLE
  PacketSizes,
  TxOpportunities   \* sizes of transmission opportunities

Status == {"FULL_PDU", "START_PDU", "CONTINUATION_PDU", "END_PDU"}

\* What a segment becomes when a fragment is cut off.
StatusWhenCut(status) == IF status = "FULL_PDU" THEN "START_PDU" ELSE "CONTINUATION_PDU"

\* The header a cut leads to is no smaller with RLE and no larger with GSE, and
\* the size of a packet is at most one more than its field holds.
ASSUME EncapsulationAssumption ==
  /\ MaxPackets \in Nat
  /\ PacketSizes \subseteq Nat \ {0}
  /\ TxOpportunities \subseteq Nat
  /\ \A e \in Encapsulations :
       /\ e.recalculates \in BOOLEAN
       /\ e.header \in [Status -> Nat]
       /\ e.maxPduSize \in Nat /\ \A s \in Status : e.header[s] < e.maxPduSize
       /\ e.maxFragmentId \in Nat \ {0}
       /\ e.totalLengths \in Nat \ {0}
       /\ e.maxHlPduSize \in 0 .. e.totalLengths
       /\ \A s \in {"FULL_PDU", "END_PDU"} :
            IF e.recalculates THEN e.header[s] <= e.header[StatusWhenCut(s)]
                              ELSE e.header[StatusWhenCut(s)] <= e.header[s]

VARIABLES
  encapsulation,    \* which of Encapsulations this connection uses
  accepted,         \* history: the sizes of the packets that were queued
  fragmented,       \* history: how many packets were cut so far
  m_txFragmentId,
  m_currRxFragmentId,
  m_currRxPacketSize,
  m_currRxPacketFragment,       \* the pieces put together so far
  m_currRxPacketFragmentBytes,
  delivered         \* history: the packets given to m_rxCallback, in pieces

txVars == <<queueVars, accepted, fragmented, m_txFragmentId>>

contextVars == <<m_currRxFragmentId, m_currRxPacketSize, m_currRxPacketFragment,
                 m_currRxPacketFragmentBytes>>

rxVars == <<contextVars, delivered>>

\* Packets are told apart by the order in which they were queued.  A piece also
\* tells how many packets had been cut when it was sent.
Piece == [packet : Nat, from : Nat, size : Nat, fragmented : Nat]

Segment == [packet : Nat, from : Nat, size : Nat, status : {"FULL_PDU", "END_PDU"}]

Pdu == [status : Status, fragmentId : Nat, totalLength : Nat, piece : Piece]

EncapsulatorInit ==
  /\ QueueInit
  /\ encapsulation \in Encapsulations
  /\ accepted = <<>>
  /\ fragmented = 0
  /\ m_txFragmentId = 0
  /\ m_currRxFragmentId = 0
  /\ m_currRxPacketSize = 0
  /\ m_currRxPacketFragment = <<>>
  /\ m_currRxPacketFragmentBytes = 0
  /\ delivered = <<>>
-----------------------------------------------------------------------------
(***************************************************************************)
(* Transmission.                                                           *)
(***************************************************************************)
EnquePdu(size) ==
  /\ size <= encapsulation.maxHlPduSize
  /\ Enqueue([packet |-> Len(accepted) + 1, from |-> 0, size |-> size, status |-> "FULL_PDU"])
  /\ accepted' = Append(accepted, size)
  /\ UNCHANGED <<encapsulation, fragmented, m_txFragmentId, rxVars>>

IncreaseFragmentId ==
  /\ m_txFragmentId' = IF m_txFragmentId + 1 >= encapsulation.maxFragmentId
                       THEN 0 ELSE m_txFragmentId + 1
  /\ fragmented' = fragmented + 1

\* What an opportunity holds of a packet, after a header of this status.
MaxPayload(bytes, status) ==
  (IF bytes <= encapsulation.maxPduSize THEN bytes ELSE encapsulation.maxPduSize)
    - encapsulation.header[status]

\* RLE computes the payload again for the header a cut leads to.  GSE keeps the
\* one it has, since that header is no larger.
SizingStatus(status) ==
  IF encapsulation.recalculates THEN StatusWhenCut(status) ELSE status

\* Mutant: the total length is that of what is left after the cut.
PduOfRest(segment, status, size) ==
  [status      |-> status,
   fragmentId  |-> IF status = "FULL_PDU" THEN 0 ELSE m_txFragmentId',
   totalLength |-> IF status = "START_PDU"
                   THEN (segment.size - size) % encapsulation.totalLengths ELSE 0,
   piece       |-> [packet |-> segment.packet, from |-> segment.from, size |-> size,
                    fragmented |-> fragmented']]

\* The PDU that NotifyTxOpportunity returns, with the fragment id as it is after
\* IncreaseFragmentId.  A PDU's own length needs no truncation: its field holds
\* every payload that maxPduSize allows.
PduOf(segment, status, size) ==
  [status      |-> status,
   fragmentId  |-> IF status = "FULL_PDU" THEN 0 ELSE m_txFragmentId',
   totalLength |-> IF status = "START_PDU" THEN segment.size % encapsulation.totalLengths
                                           ELSE 0,
   piece       |-> [packet |-> segment.packet, from |-> segment.from, size |-> size,
                    fragmented |-> fragmented']]

\* Mutant: a segment that just fits is not sent.
SendRestSmaller(bytes) ==
  LET segment == Head(m_packets)
  IN  /\ m_packets # <<>>
      /\ bytes > encapsulation.header[segment.status]
      /\ segment.size < MaxPayload(bytes, segment.status)
      /\ Dequeue
      /\ UNCHANGED <<encapsulation, accepted, fragmented, m_txFragmentId, rxVars>>

\* NotifyTxOpportunity, when the opportunity holds all of the segment.
SendRest(bytes) ==
  LET segment == Head(m_packets)
  IN  /\ m_packets # <<>>
      /\ bytes > encapsulation.header[segment.status]
      /\ segment.size <= MaxPayload(bytes, segment.status)
      /\ Dequeue
      /\ UNCHANGED <<encapsulation, accepted, fragmented, m_txFragmentId, rxVars>>

\* NotifyTxOpportunity, when it does not and a fragment is cut off.
SendFragment(bytes) ==
  LET segment == Head(m_packets)
      payload == MaxPayload(bytes, SizingStatus(segment.status))
  IN  /\ m_packets # <<>>
      /\ bytes > encapsulation.header[segment.status]
      /\ segment.size > MaxPayload(bytes, segment.status)
      /\ bytes > encapsulation.header[SizingStatus(segment.status)]
      /\ IF segment.status = "FULL_PDU" THEN IncreaseFragmentId
                                        ELSE UNCHANGED <<m_txFragmentId, fragmented>>
      /\ DequeueAndPushFront([packet |-> segment.packet, from |-> segment.from + payload,
                              size |-> segment.size - payload, status |-> "END_PDU"])
      /\ UNCHANGED <<encapsulation, accepted, rxVars>>

RestPdu == PduOf(Head(m_packets), Head(m_packets).status, Head(m_packets).size)

FragmentPdu(bytes) ==
  LET segment == Head(m_packets)
  IN  PduOf(segment, StatusWhenCut(segment.status), MaxPayload(bytes, SizingStatus(segment.status)))
-----------------------------------------------------------------------------
(***************************************************************************)
(* Reception: one packet is put together at a time.                        *)
(***************************************************************************)
Reset ==
  /\ m_currRxFragmentId' = 0
  /\ m_currRxPacketSize' = 0
  /\ m_currRxPacketFragment' = <<>>
  /\ m_currRxPacketFragmentBytes' = 0

PreviousFragmentFound(pdu) ==
  /\ m_currRxPacketFragment # <<>>
  /\ pdu.fragmentId = m_currRxFragmentId

BytesWith(pdu) == m_currRxPacketFragmentBytes + pdu.piece.size

ReceiveFull(pdu) ==
  /\ pdu.status = "FULL_PDU"
  /\ Reset
  /\ delivered' = Append(delivered, <<pdu.piece>>)

ReceiveStart(pdu) ==
  /\ pdu.status = "START_PDU"
  /\ m_currRxFragmentId' = pdu.fragmentId
  /\ m_currRxPacketSize' = pdu.totalLength
  /\ m_currRxPacketFragment' = <<pdu.piece>>
  /\ m_currRxPacketFragmentBytes' = pdu.piece.size
  /\ UNCHANGED delivered

ReceiveContinuation(pdu) ==
  /\ pdu.status = "CONTINUATION_PDU"
  /\ IF PreviousFragmentFound(pdu)
     THEN /\ m_currRxPacketFragment' = Append(m_currRxPacketFragment, pdu.piece)
          /\ m_currRxPacketFragmentBytes' = BytesWith(pdu)
          /\ UNCHANGED <<m_currRxFragmentId, m_currRxPacketSize>>
     ELSE Reset
  /\ UNCHANGED delivered

\* Mutant: the packet's size is not compared.
CompletesAnyway(pdu) == PreviousFragmentFound(pdu)

Completes(pdu) == PreviousFragmentFound(pdu) /\ BytesWith(pdu) = m_currRxPacketSize

ReceiveEnd(pdu) ==
  /\ pdu.status = "END_PDU"
  /\ delivered' = IF Completes(pdu)
                  THEN Append(delivered, Append(m_currRxPacketFragment, pdu.piece))
                  ELSE delivered
  /\ Reset

ProcessPdu(pdu) ==
  /\ \/ ReceiveFull(pdu)
     \/ ReceiveStart(pdu)
     \/ ReceiveContinuation(pdu)
     \/ ReceiveEnd(pdu)
  /\ UNCHANGED <<encapsulation, txVars>>
=============================================================================
