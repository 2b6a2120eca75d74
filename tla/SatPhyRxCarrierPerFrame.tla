---------------------- MODULE SatPhyRxCarrierPerFrame ----------------------
(***************************************************************************)
(* The receiver of slotted ALOHA, CRDSA and MARSALA.  A slotted ALOHA      *)
(* packet is judged when it ends.  CRDSA replicas wait in a container, by  *)
(* slot, until the frame ends; then packets are decoded one by one, and    *)
(* each that is decoded is taken out of the slots of all its replicas      *)
(* (successive interference cancellation).  MARSALA combines the replicas  *)
(* of a packet when none can be decoded alone.                             *)
(*                                                                         *)
(* The processing of a frame is one event of the simulator.  It is a       *)
(* sequence of steps here, and time stands still meanwhile.                *)
(***************************************************************************)
EXTENDS SatPhyRxCarrier, StdMap

CONSTANTS
  Slot,         \* slots of a frame: 0, 1, ...
  SlotDuration, \* ticks
  GuardTime     \* ticks of a slot that its burst leaves free

ASSUME FrameAssumption ==
  /\ IsFiniteSet(Slot) /\ Slot = 0 .. Cardinality(Slot) - 1
  /\ SlotDuration \in Nat /\ GuardTime \in 1 .. SlotDuration - 1

VARIABLES
  m_randomAccessModel,     \* of the carrier; ESSA is received per window
  m_randomAccessCollisionModel,
  frame,                   \* frames that have been processed
  plan,                    \* what the UTs have still to send in the frame
  m_crdsaPacketContainer,  \* slot -> packets received in it, in order
  phase,                   \* what DoFrameEnd is at: "receive" when not in it
  combinedPackets,         \* packets that left the container, with phyError
  fatal                    \* an NS_FATAL_ERROR was reached

frameVars == <<m_randomAccessModel, m_randomAccessCollisionModel, frame, plan,
               m_crdsaPacketContainer, phase, combinedPackets, fatal>>
perFrameVars == <<carrierVars, frameVars>>

PerFrameInit ==
  /\ CarrierInit
  /\ m_randomAccessModel \in {"SLOTTED_ALOHA", "CRDSA", "MARSALA", "ESSA"}
  /\ m_randomAccessCollisionModel \in
       CASE m_randomAccessModel = "SLOTTED_ALOHA" ->
              {"drop colliding", "check SINR", "constant probability"}
         [] m_randomAccessModel = "ESSA" -> {"check SINR"}
         [] OTHER -> {"drop colliding", "check SINR"}
  /\ frame = 0
  /\ plan = {}
  /\ m_crdsaPacketContainer = EmptyMap
  /\ phase = "start"
  /\ combinedPackets = {}
  /\ fatal = FALSE

FrameDuration == Cardinality(Slot) * SlotDuration

\* Mutant: the burst fills its slot.
BurstWithoutGuard(sender, type, id, slot, slots) ==
  LET start == frame * FrameDuration + slot * SlotDuration
  IN  [sender |-> sender, type |-> type, id |-> id, slot |-> slot, slots |-> slots,
       start |-> start, end |-> start + SlotDuration]

\* The burst of a replica, or of a slotted ALOHA packet; the UT leaves the
\* guard time at its end.
Burst(sender, type, id, slot, slots) ==
  LET start == frame * FrameDuration + slot * SlotDuration
  IN  [sender |-> sender, type |-> type, id |-> id, slot |-> slot, slots |-> slots,
       start |-> start, end |-> start + SlotDuration - GuardTime]

Replicas(sender, type, id, slots) == {Burst(sender, type, id, s, slots) : s \in slots}

\* The UTs choose what to send in the frame: see SatUtAccess, where no two
\* replicas of a UT have a slot in common and packets are numbered in order.
BeginFrame(transmissions) ==
  /\ phase = "start"
  /\ plan' = transmissions
  /\ phase' = "receive"
  /\ bursts' = {}
  /\ handedUp' = <<>>
  /\ combinedPackets' = {}
  /\ UNCHANGED <<interferenceVars, now, m_rxParams, m_randomAccessModel,
                 m_randomAccessCollisionModel, frame, m_crdsaPacketContainer, fatal>>

BurstArrives ==
  /\ phase = "receive"
  /\ \E burst \in plan :
       /\ StartRx(burst)
       /\ plan' = plan \ {burst}
  /\ UNCHANGED <<m_randomAccessModel, m_randomAccessCollisionModel, frame,
                 m_crdsaPacketContainer, phase, combinedPackets, fatal>>

\* ProcessSlottedAlohaCollisions
SlottedAlohaErrors(burst) ==
  CASE m_randomAccessCollisionModel = "drop colliding" -> {HasCollision(burst)}
    [] m_randomAccessCollisionModel = "check SINR" ->
         LinkErrors(Sinr(Energy(burst), PerPacket(burst), Noise * Duration(burst)))
    [] OTHER -> BOOLEAN

ReceiveSlottedAloha(burst) ==
  /\ burst.type = "SLOTTED_ALOHA"
  /\ \E phyError \in SlottedAlohaErrors(burst) : HandUp(<<Packet(burst, phyError)>>)
  /\ UNCHANGED m_crdsaPacketContainer

\* ReceiveSlot and AddCrdsaPacket.
ReceiveCrdsa(burst) ==
  LET params == [burst |-> burst, ifPower |-> PerPacket(burst), packetHasBeenProcessed |-> FALSE]
      slotContent == IF burst.slot \in DOMAIN m_crdsaPacketContainer
                     THEN m_crdsaPacketContainer[burst.slot] ELSE <<>>
  IN  /\ burst.type = "CRDSA"
      /\ m_crdsaPacketContainer' =
           MapAssign(m_crdsaPacketContainer, burst.slot, Append(slotContent, params))
      /\ UNCHANGED handedUp

ReceiveSlot ==
  /\ phase = "receive"
  /\ \E burst \in Range(m_rxParams) :
       /\ EndRxData(burst)
       /\ ReceiveSlottedAloha(burst) \/ ReceiveCrdsa(burst)
  /\ UNCHANGED <<m_randomAccessModel, m_randomAccessCollisionModel, frame, plan, phase,
                 combinedPackets, fatal>>

FrameEndIsDue == phase = "receive" /\ now = (frame + 1) * FrameDuration

\* Events at one time come in the order in which they were scheduled: the end
\* of the frame before the end of a burst.
TimePasses ==
  /\ phase = "receive"
  /\ ~FrameEndIsDue
  /\ ~ReceptionIsDue
  /\ \A burst \in plan : burst.start > now
  /\ now' = now + 1
  /\ UNCHANGED <<interferenceVars, m_rxParams, bursts, handedUp, frameVars>>

DoFrameEnd ==
  /\ FrameEndIsDue
  /\ phase' = "sic"
  /\ UNCHANGED <<carrierVars, m_randomAccessModel, m_randomAccessCollisionModel, frame, plan,
                 m_crdsaPacketContainer, combinedPackets, fatal>>
-----------------------------------------------------------------------------
\* IsReplica: same UT, same slots.  Slots that overlap in part are fatal.
IsReplica(packet, other) ==
  /\ other.burst.sender = packet.burst.sender
  /\ packet.burst.slots \subseteq other.burst.slots
PartlyOverlap(packet, other) ==
  /\ other.burst.sender = packet.burst.sender
  /\ ~ packet.burst.slots \subseteq other.burst.slots
  /\ packet.burst.slots \cap other.burst.slots # {}

OtherSlots(packet) == packet.burst.slots \ {packet.burst.slot}

\* What FindAndRemoveReplicas takes for granted: one replica in each slot.
ReplicasCanBeFound(packet) ==
  \A s \in OtherSlots(packet) :
    /\ s \in DOMAIN m_crdsaPacketContainer
    /\ Cardinality({i \in DOMAIN m_crdsaPacketContainer[s] :
                      IsReplica(packet, m_crdsaPacketContainer[s][i])}) = 1
    /\ \A i \in DOMAIN m_crdsaPacketContainer[s] :
         ~PartlyOverlap(packet, m_crdsaPacketContainer[s][i])

\* The container without the packet at a place and without its replicas.
Removed(slot, i) ==
  LET packet == m_crdsaPacketContainer[slot][i]
  IN  [s \in DOMAIN m_crdsaPacketContainer |->
         IF s = slot THEN RemoveAt(m_crdsaPacketContainer[s], i)
         ELSE IF s \in OtherSlots(packet)
         THEN RemoveFirstMatch(m_crdsaPacketContainer[s],
                               LAMBDA other : IsReplica(packet, other))
         ELSE m_crdsaPacketContainer[s]]

\* Mutant: packets in the slots of the replicas are not looked at again.
EliminateWithoutRelease(slotContent, packet) ==
  [i \in DOMAIN slotContent |->
     [slotContent[i] EXCEPT !.ifPower = @ - Energy(packet.burst)]]

\* EliminateInterference, with the perfect model, of the packets of a slot:
\* they are released for processing again.
Eliminate(slotContent, packet) ==
  [i \in DOMAIN slotContent |->
     [slotContent[i] EXCEPT !.ifPower = @ - Energy(packet.burst),
                            !.packetHasBeenProcessed = FALSE]]

\* The container after a packet was decoded: it and its replicas are gone, and
\* so is their interference.  A slot without packets is erased.
Cancelled(slot, i) ==
  LET packet == m_crdsaPacketContainer[slot][i]
      left == Removed(slot, i)
  IN  [s \in {s \in DOMAIN left : s \in packet.burst.slots => left[s] # <<>>} |->
         IF s \in packet.burst.slots THEN Eliminate(left[s], packet) ELSE left[s]]

\* A packet is decoded, and leaves the container for the results.
Decode(slot, i) ==
  /\ m_crdsaPacketContainer' = Cancelled(slot, i)
  /\ combinedPackets' =
       combinedPackets \cup {Packet(m_crdsaPacketContainer[slot][i].burst, FALSE)}
  /\ fatal' = \/ ~ReplicasCanBeFound(m_crdsaPacketContainer[slot][i])
              \/ \E s \in DOMAIN m_crdsaPacketContainer' :
                   \E j \in DOMAIN m_crdsaPacketContainer'[s] :
                     m_crdsaPacketContainer'[s][j].ifPower < 0

\* Places in the order of the search: by slot, and in the order of reception.
Places == {p \in Slot \X (1 .. Cardinality(Sender)) :
             /\ p[1] \in DOMAIN m_crdsaPacketContainer
             /\ p[2] \in DOMAIN m_crdsaPacketContainer[p[1]]}
Before(p, q) == p[1] < q[1] \/ (p[1] = q[1] /\ p[2] < q[2])
First(places) == CHOOSE p \in places : \A q \in places : p = q \/ Before(p, q)
PacketAt(p) == m_crdsaPacketContainer[p[1]][p[2]]
Unprocessed == {p \in Places : ~PacketAt(p).packetHasBeenProcessed}

\* ProcessReceivedCrdsaPacket
CrdsaErrors(p) ==
  IF m_randomAccessCollisionModel = "drop colliding" /\ Len(m_crdsaPacketContainer[p[1]]) > 1
  THEN {TRUE}
  ELSE LinkErrors(Sinr(Energy(PacketAt(p).burst), PacketAt(p).ifPower,
                       Noise * Duration(PacketAt(p).burst)))

\* PerformSicCycles: the first packet not processed since its slot changed.
\* The search starts again at the first slot after a packet was decoded.
SicTurn ==
  /\ phase = "sic"
  /\ Unprocessed # {}
  /\ LET p == First(Unprocessed)
     IN  \E phyError \in CrdsaErrors(p) :
           IF phyError
           THEN /\ m_crdsaPacketContainer' =
                     [m_crdsaPacketContainer EXCEPT ![p[1]][p[2]].packetHasBeenProcessed = TRUE]
                /\ UNCHANGED <<combinedPackets, fatal>>
           ELSE Decode(p[1], p[2])
  /\ UNCHANGED <<carrierVars, m_randomAccessModel, m_randomAccessCollisionModel, frame, plan,
                 phase>>

\* Nothing is left to process: MARSALA, or the packets that were not decoded.
SicEnds ==
  /\ phase = "sic"
  /\ Unprocessed = {}
  /\ phase' = IF m_randomAccessModel = "MARSALA" THEN "marsala" ELSE "cleanup"
  /\ UNCHANGED <<carrierVars, m_randomAccessModel, m_randomAccessCollisionModel, frame, plan,
                 m_crdsaPacketContainer, combinedPackets, fatal>>

\* The replicas of a packet add up coherently, their interference and noise
\* do not.
ReplicaPlaces(p) == {q \in Places : q = p \/ (q[1] \in OtherSlots(PacketAt(p))
                                              /\ IsReplica(PacketAt(p), PacketAt(q)))}
CorrelatedSinr(p) ==
  LET count == Cardinality(PacketAt(p).burst.slots)
  IN  Sinr(count * count * Energy(PacketAt(p).burst),
           SumFunction([q \in ReplicaPlaces(p) |-> PacketAt(q).ifPower]),
           count * Noise * Duration(PacketAt(p).burst))

\* PerformMarsala: all packets in turn until one is decoded, which may be any
\* that all before it allow; then SIC goes on.
MarsalaDecodes ==
  /\ phase = "marsala"
  /\ \E p \in Places :
       /\ FALSE \in LinkErrors(CorrelatedSinr(p))
       /\ \A q \in Places : Before(q, p) => TRUE \in LinkErrors(CorrelatedSinr(q))
       /\ Decode(p[1], p[2])
  /\ phase' = "sic"
  /\ UNCHANGED <<carrierVars, m_randomAccessModel, m_randomAccessCollisionModel, frame, plan>>

MarsalaEnds ==
  /\ phase = "marsala"
  /\ \A p \in Places : TRUE \in LinkErrors(CorrelatedSinr(p))
  /\ phase' = "cleanup"
  /\ UNCHANGED <<carrierVars, m_randomAccessModel, m_randomAccessCollisionModel, frame, plan,
                 m_crdsaPacketContainer, combinedPackets, fatal>>

\* The cleanup of ProcessFrame: a packet that was not decoded is given up with
\* its replicas.  A slot without packets stays until it is the first.
CleanUp ==
  /\ phase = "cleanup"
  /\ m_crdsaPacketContainer # EmptyMap
  /\ LET slot == Min(DOMAIN m_crdsaPacketContainer)
         slotContent == m_crdsaPacketContainer[slot]
     IN  IF slotContent = <<>>
         THEN /\ m_crdsaPacketContainer' = MapErase(m_crdsaPacketContainer, slot)
              /\ UNCHANGED <<combinedPackets, fatal>>
         ELSE /\ fatal' = \/ ~Head(slotContent).packetHasBeenProcessed
                          \/ ~ReplicasCanBeFound(Head(slotContent))
              /\ combinedPackets' = combinedPackets \cup {Packet(Head(slotContent).burst, TRUE)}
              /\ m_crdsaPacketContainer' =
                   IF Removed(slot, 1)[slot] = <<>> THEN MapErase(Removed(slot, 1), slot)
                   ELSE Removed(slot, 1)
  /\ UNCHANGED <<carrierVars, m_randomAccessModel, m_randomAccessCollisionModel, frame, plan,
                 phase>>

\* std::sort by the UT's number of the packet; packets of several UTs may have
\* the same one, and then come in any order.
Sorted(results) ==
  {s \in SetToSeqs(results) : \A i, j \in DOMAIN s : i < j => s[i].burst.id <= s[j].burst.id}

\* The results are handed up, and the next frame begins.
HandUpResults ==
  /\ phase = "cleanup"
  /\ m_crdsaPacketContainer = EmptyMap
  /\ \E packets \in Sorted(combinedPackets) : HandUp(packets)
  /\ phase' = "start"
  /\ frame' = frame + 1
  /\ UNCHANGED <<interferenceVars, now, m_rxParams, bursts, m_randomAccessModel,
                 m_randomAccessCollisionModel, plan, m_crdsaPacketContainer, combinedPackets,
                 fatal>>

PerFrameNext ==
  \/ BurstArrives
  \/ ReceiveSlot
  \/ TimePasses
  \/ DoFrameEnd
  \/ SicTurn
  \/ SicEnds
  \/ MarsalaDecodes
  \/ MarsalaEnds
  \/ CleanUp
  \/ HandUpResults
=============================================================================
