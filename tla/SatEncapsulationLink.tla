------------------------ MODULE SatEncapsulationLink ------------------------
(***************************************************************************)
(* One connection: the encapsulator at its transmitting end, the one at    *)
(* its receiving end, and between them a link that keeps the order of PDUs *)
(* and loses some.                                                         *)
(***************************************************************************)
EXTENDS SatEncapsulator, FiniteSets

CONSTANTS
  MaxBurst,  \* how many PDUs in a row may be lost
  NoPdu      \* what comes out for a packet that was lost

\* Fragment ids repeat after maxFragmentId packets that are cut, each of at least
\* two PDUs.
ASSUME BurstAssumption ==
  /\ MaxBurst \in Nat
  /\ \A e \in Encapsulations : MaxBurst <= 2 * e.maxFragmentId - 1

VARIABLES
  channel,   \* the PDUs on their way, in order
  lostInRow, \* history: how many were lost since the last one arrived
  damaged    \* history: the packets a PDU of which was lost

linkVars == <<encapsulation, txVars, rxVars, channel, lostInRow, damaged>>

LinkInit ==
  /\ EncapsulatorInit
  /\ channel = <<>>
  /\ lostInRow = 0
  /\ damaged = {}

Enque ==
  /\ \E size \in PacketSizes : EnquePdu(size)
  /\ UNCHANGED <<channel, lostInRow, damaged>>

NotifyTxOpportunity(bytes) ==
  /\ \/ SendRest(bytes) /\ channel' = Append(channel, RestPdu)
     \/ SendFragment(bytes) /\ channel' = Append(channel, FragmentPdu(bytes))
  /\ UNCHANGED <<lostInRow, damaged>>

Arrive ==
  /\ channel # <<>>
  /\ channel' = Tail(channel)
  /\ ProcessPdu(Head(channel))
  /\ lostInRow' = 0
  /\ UNCHANGED damaged

Lose ==
  /\ channel # <<>>
  /\ lostInRow < MaxBurst
  /\ channel' = Tail(channel)
  /\ lostInRow' = lostInRow + 1
  /\ damaged' = damaged \cup {Head(channel).piece.packet}
  /\ UNCHANGED <<encapsulation, txVars, rxVars>>

ReadStatistics ==
  /\ GetQueueStatistics
  /\ UNCHANGED <<encapsulation, accepted, fragmented, m_txFragmentId, rxVars,
                 channel, lostInRow, damaged>>

LinkNext ==
  \/ Enque
  \/ \E bytes \in TxOpportunities : NotifyTxOpportunity(bytes)
  \/ Arrive
  \/ Lose
  \/ ReadStatistics

LinkSpec == LinkInit /\ [][LinkNext]_linkVars
-----------------------------------------------------------------------------
LinkTypeOK ==
  /\ m_packets \in Seq(Segment)
  /\ m_nBytes \in Int /\ nBytesAtReset \in Int
  /\ m_nEnqueBytesSinceReset \in Nat /\ m_nDequeBytesSinceReset \in Nat
  /\ encapsulation \in Encapsulations
  /\ accepted \in Seq(PacketSizes)
  /\ fragmented \in Nat
  /\ m_txFragmentId \in 0 .. encapsulation.maxFragmentId - 1
  /\ m_currRxFragmentId \in 0 .. encapsulation.maxFragmentId - 1
  /\ m_currRxPacketSize \in Nat /\ m_currRxPacketFragmentBytes \in Nat
  /\ lostInRow \in 0 .. MaxBurst
  /\ m_currRxPacketFragment \in Seq(Piece)
  /\ delivered \in Seq(Seq(Piece))
  /\ channel \in Seq(Pdu)
  /\ damaged \subseteq DOMAIN accepted

\* These pieces, one after the other, are the packet the first one is of.
Whole(pieces) ==
  LET packet == pieces[1].packet
      last   == pieces[Len(pieces)]
  IN  /\ pieces[1].from = 0
      /\ \A i \in 1 .. Len(pieces) - 1 :
           /\ pieces[i + 1].packet = packet
           /\ pieces[i + 1].from = pieces[i].from + pieces[i].size
      /\ last.from + last.size = accepted[packet]

\* What is given to the layer above is a packet that was queued, all of it and
\* nothing else, although fragment ids repeat and any fragment may be lost: a
\* receiver that misses the end of one packet and the start of another does
\* not join the two.
WholePackets == \A d \in DOMAIN delivered : Whole(delivered[d])

PacketOf(d) == delivered[d][1].packet

\* A packet leaves the system in no other way than by being delivered or by the
\* loss of one of its PDUs: no transmission opportunity and no arrival makes
\* an encapsulator drop a packet that it was given all of.
NothingVanishes ==
  \A p \in DOMAIN accepted :
    \/ \E i \in DOMAIN m_packets : m_packets[i].packet = p
    \/ \E i \in DOMAIN channel : channel[i].piece.packet = p
    \/ p \in damaged
    \/ \E d \in DOMAIN delivered : PacketOf(d) = p

\* What came out for a packet: the packet, once, or nothing; anything else is 0.
Deliveries(p) == {d \in DOMAIN delivered : PacketOf(d) = p}

Outcome(p) ==
  IF Deliveries(p) = {} THEN NoPdu
  ELSE IF \E d \in DOMAIN delivered : Deliveries(p) = {d} /\ Whole(delivered[d]) THEN p
  ELSE 0

LastDelivered == IF delivered = <<>> THEN 0 ELSE PacketOf(Len(delivered))

Stream == [p \in 1 .. LastDelivered |-> Outcome(p)]

\* The connection keeps the promise of SatDeliveryService: a packet that comes
\* out decides the fate of those before it.
Service == INSTANCE SatDeliveryService
             WITH FirstSn <- 1, sent <- Len(accepted), next <- LastDelivered + 1,
                  stream <- Stream
ImplementsService == Service!ServiceSpec
=============================================================================
