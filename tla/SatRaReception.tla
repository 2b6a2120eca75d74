--------------------------- MODULE SatRaReception ---------------------------
(***************************************************************************)
(* A random access carrier as a gateway receives it, under each of the     *)
(* access protocols: slotted ALOHA, CRDSA and MARSALA by frame, ESSA by    *)
(* window.  The configuration of the carrier chooses one for good.         *)
(***************************************************************************)
EXTENDS SatPhyRxCarrierPerFrame, SatPhyRxCarrierPerWindow

CONSTANTS
  NumOfInstances,  \* replicas of a CRDSA packet
  MaxFramePackets, \* bound: frame -> sender -> packets sent; a sequence
  MaxEssaPackets,  \* bound: sender -> packets sent
  Horizon          \* bound of the time under ESSA

ASSUME ReceptionAssumption ==
  /\ NumOfInstances \in 2 .. Cardinality(Slot)
  /\ MaxFramePackets \in Seq([Sender -> Nat])
  /\ MaxEssaPackets \in [Sender -> Nat]
  /\ Horizon \in Nat

receptionVars == <<carrierVars, frameVars, windowVars>>

ReceptionInit == PerFrameInit /\ PerWindowInit

\* The slots that a UT may choose for its packets in a frame: those of the
\* replicas of a packet are different ones, and no packet has one of another's
\* (SatRandomAccess).  A slotted ALOHA packet has one.
SlotSets ==
  IF m_randomAccessModel = "SLOTTED_ALOHA" THEN {{s} : s \in Slot} ELSE kSubset(NumOfInstances, Slot)
SlotChoices(sender) ==
  {c \in BoundedSeq(SlotSets, MaxFramePackets[frame + 1][sender]) :
     \A i, j \in DOMAIN c : i # j => c[i] \cap c[j] = {}}

\* What they send: the packets of a UT are numbered in order.
Transmissions(choice) ==
  LET type == IF m_randomAccessModel = "SLOTTED_ALOHA" THEN "SLOTTED_ALOHA" ELSE "CRDSA"
  IN  UNION {UNION {Replicas(sender, type, id, choice[sender][id]) : id \in DOMAIN choice[sender]} :
               sender \in Sender}

ReceptionNext ==
  \/ /\ m_randomAccessModel # "ESSA"
     /\ \/ /\ phase = "start" /\ frame < Len(MaxFramePackets)
           /\ \E choice \in [Sender -> UNION {SlotChoices(sender) : sender \in Sender}] :
                /\ \A sender \in Sender : choice[sender] \in SlotChoices(sender)
                /\ BeginFrame(Transmissions(choice))
        \/ PerFrameNext
     /\ UNCHANGED windowVars
  \/ /\ m_randomAccessModel = "ESSA"
     /\ now < Horizon
     /\ ~negativeInterference
     /\ \/ \E sender \in Sender :
             /\ Cardinality({b \in bursts : b.sender = sender}) < MaxEssaPackets[sender]
             /\ EssaBurstArrives(sender)
        \/ PerWindowNext
     /\ UNCHANGED frameVars

ReceptionSpec == ReceptionInit /\ [][ReceptionNext]_receptionVars
-----------------------------------------------------------------------------
\* The energy of other bursts, but for those in a set, over the time of a burst.
Overlapping(a, b) == Cardinality((a.start .. a.end - 1) \cap (b.start .. b.end - 1))
EnergyOver(burst, gone) ==
  SumFunction([b \in bursts \ (gone \cup {burst}) |-> RxPower[b.sender] * Overlapping(burst, b)])
PowerAt(t, burst, gone) ==
  SumFunction([b \in {b \in bursts \ (gone \cup {burst}) : b.start <= t /\ t < b.end} |->
                 RxPower[b.sender]])

SamePacket(a, b) == a.sender = b.sender /\ a.id = b.id
DecodedInFrame ==
  {b \in bursts : \E packet \in combinedPackets : ~packet.phyError /\ SamePacket(packet.burst, b)}

(***************************************************************************)
(* What a packet that waits to be decoded suffers from, as the receiver    *)
(* has it, is at any time what the bursts not yet decoded did to it:       *)
(* nothing is cancelled twice, late, or from the wrong packet, and no      *)
(* change of power is cleaned up that a reception still needs.             *)
(***************************************************************************)
InterferenceIsExact ==
  /\ \A p \in Places :
       PacketAt(p).ifPower = EnergyOver(PacketAt(p).burst, DecodedInFrame)
  /\ \A i \in DOMAIN m_essaPacketContainer :
       LET packet == m_essaPacketContainer[i]
       IN  ~packet.hasBeenDecoded =>
             \A fragment \in Range(packet.ifPower) :
               \A t \in fragment.from .. fragment.to - 1 :
                 fragment.power = PowerAt(t, packet.burst, decoded)

Own == {b \in bursts : b.sender \in OwnBeam}
OthersInSlot(burst, gone) ==
  {b \in Own \ gone : b # burst /\ b.start = burst.start}

\* The SINR of a burst alone, and of all the replicas of its packet combined,
\* when the bursts in a set are gone.
SinrAlone(burst, gone) ==
  Sinr(Energy(burst), EnergyOver(burst, gone), Noise * Duration(burst))
SinrCombined(burst, gone) ==
  LET replicas == {b \in bursts : SamePacket(b, burst)}
  IN  Sinr(Cardinality(replicas) * SumFunction([b \in replicas |-> Energy(b)]),
           SumFunction([b \in replicas |-> EnergyOver(b, gone)]),
           Cardinality(replicas) * Noise * Duration(burst))

\* A burst that may be decoded, and one that is sure to be, with some gone.
Reaches(burst, level, gone) ==
  \/ /\ m_randomAccessCollisionModel = "drop colliding" => OthersInSlot(burst, gone) = {}
     /\ SinrAlone(burst, gone) >= level
  \/ m_randomAccessModel = "MARSALA" /\ SinrCombined(burst, gone) >= level

SlottedAlohaJustified(packet) ==
  CASE m_randomAccessCollisionModel = "drop colliding" ->
         packet.phyError <=> OthersInSlot(packet.burst, {}) # {}
    [] m_randomAccessCollisionModel = "check SINR" ->
         LET sinr == SinrAlone(packet.burst, {})
         IN  IF packet.phyError THEN sinr < SinrAlways ELSE sinr >= SinrNever
    [] OTHER -> TRUE

\* With all that was decoded gone: no burst of a packet given up is sure to be
\* decoded, and some burst of each packet decoded may be.
CrdsaJustified(packet) ==
  LET replicas == {b \in bursts : SamePacket(b, packet.burst)}
  IN  IF packet.phyError
      THEN \A b \in replicas : ~Reaches(b, SinrAlways, DecodedInFrame)
      ELSE \E b \in replicas : Reaches(b, SinrNever, DecodedInFrame)

SnirOfWindow(burst, gone) ==
  LET Information(t) == LET gamma == Sinr(RxPower[burst.sender], PowerAt(t, burst, gone), Noise)
                        IN  IF gamma < Saturation THEN gamma ELSE Saturation
  IN  SumFunction([t \in burst.start .. burst.end - 1 |-> Information(t)]) \div Duration(burst)

(***************************************************************************)
(* A packet is given up only for a reason.  Once a frame or a window is    *)
(* processed, no packet is left that would surely be decoded with the      *)
(* interference of all the decoded ones gone: cancellation went on until   *)
(* nothing more could be gained, in whatever order it met the packets.     *)
(* And none was decoded that even then could not be.                       *)
(***************************************************************************)
OutcomeJustified ==
  /\ phase = "start" =>
       \A i \in DOMAIN handedUp :
         m_randomAccessModel # "ESSA" =>
           IF m_randomAccessModel = "SLOTTED_ALOHA" THEN SlottedAlohaJustified(handedUp[i])
           ELSE CrdsaJustified(handedUp[i])
  /\ windowPhase = "receive" =>
       \A i \in DOMAIN m_essaPacketContainer :
         LET packet == m_essaPacketContainer[i]
         IN  packet.isInsideWindow /\ ~packet.hasBeenDecoded =>
               SnirOfWindow(packet.burst, decoded) < SinrAlways

HandedUp(burst, phyError) ==
  {i \in DOMAIN handedUp :
     SamePacket(handedUp[i].burst, burst) /\ handedUp[i].phyError = phyError}

(***************************************************************************)
(* Every packet reaches the MAC once, however many of its replicas were    *)
(* received or decoded, in however many windows it lay; the packets of a   *)
(* UT in the order in which it numbered them; and the receiver meets none  *)
(* of the states that end the simulation.  An ESSA packet that failed in   *)
(* one window may still be decoded in a later one.  With ESSA, cancelling  *)
(* finds too little to take off only if a burst ends at the very instant   *)
(* at which another begins or ends.                                        *)
(***************************************************************************)
HandedUpOnce ==
  /\ ~fatal
  /\ phase = "start" /\ frame > 0 =>
       \A b \in Own :
         /\ Cardinality(HandedUp(b, FALSE) \cup HandedUp(b, TRUE)) = 1
         /\ \A i, j \in DOMAIN handedUp :
              m_randomAccessModel # "SLOTTED_ALOHA" /\ i < j
                /\ handedUp[i].burst.sender = handedUp[j].burst.sender
                => handedUp[i].burst.id < handedUp[j].burst.id
  /\ negativeInterference =>
       \E b, c \in bursts : b # c /\ b.end \in {c.start, c.end}
  /\ m_randomAccessModel = "ESSA" /\ windowPhase = "receive" =>
       \A b \in Own :
         LET good == {i \in DOMAIN handedUp : handedUp[i] = Packet(b, FALSE)}
             failed == {i \in DOMAIN handedUp : handedUp[i] = Packet(b, TRUE)}
         IN  /\ Cardinality(good) = IF b \in decoded THEN 1 ELSE 0
             /\ \A i \in failed, j \in good : i < j
=============================================================================
