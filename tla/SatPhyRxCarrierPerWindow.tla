---------------------- MODULE SatPhyRxCarrierPerWindow ----------------------
(***************************************************************************)
(* The receiver of ESSA.  Packets come at any time and wait in a list.  A  *)
(* window slides over it: of the packets that lie inside, the one with the *)
(* highest SNIR is tried first, and what is decoded is cancelled out of    *)
(* the others.  A packet that ends later is rid of what was decoded before *)
(* when it is received.                                                    *)
(*                                                                         *)
(* The processing of a window is one event of the simulator, a sequence of *)
(* steps here.  The mutual information of a symbol is its SNIR up to a     *)
(* level where it saturates.                                               *)
(***************************************************************************)
EXTENDS SatPhyRxCarrier

CONSTANTS
  PacketDuration,      \* ticks of a burst: ESSA has a single waveform
  m_windowDuration,
  m_windowStep,
  m_windowDelay,
  m_detectionThreshold,
  Saturation           \* SNIR from which a symbol has all its information

ASSUME WindowAssumption ==
  /\ {PacketDuration, m_windowStep, m_windowDuration} \subseteq Nat \ {0}
  /\ m_windowDelay \in Nat
  /\ m_windowDuration >= PacketDuration + m_windowStep
  /\ {m_detectionThreshold, Saturation} \subseteq Nat

VARIABLES
  m_essaPacketContainer,  \* packets received, in order
  nextWindowEnd,          \* when DoWindowEnd runs next
  pendingWindows,         \* ends of windows that ProcessWindow is scheduled for
  windowBounds,           \* packets from the first one that a window looks at
  windowPhase,            \* "receive" when no window is being processed
  negativeInterference,   \* EliminateInterferences met less power than it takes off: fatal
  decoded                 \* bursts decoded (history)

windowVars == <<m_essaPacketContainer, nextWindowEnd, pendingWindows, windowBounds, windowPhase,
                negativeInterference, decoded>>
perWindowVars == <<carrierVars, windowVars>>

PerWindowInit ==
  /\ CarrierInit
  /\ m_essaPacketContainer = <<>>
  /\ nextWindowEnd = m_windowDuration
  /\ pendingWindows = <<>>
  /\ windowBounds = 0
  /\ windowPhase = "receive"
  /\ negativeInterference = FALSE
  /\ decoded = {}

EssaBurst(sender) == [sender |-> sender, start |-> now, end |-> now + PacketDuration]

\* A UT sends one packet after the other, at any time.
EssaBurstArrives(sender) ==
  /\ windowPhase = "receive"
  /\ \A burst \in bursts : burst.sender = sender => burst.end <= now
  /\ StartRx(EssaBurst(sender))
  /\ UNCHANGED windowVars

Gamma(burst, power) == Sinr(RxPower[burst.sender], power, Noise)

\* ScalarProduct (packet.gamma): a mean, but for its denominator.
MeanSinr(packet) ==
  SumFunction([i \in DOMAIN packet.ifPower |->
                 Lasts(packet.ifPower[i]) * Gamma(packet.burst, packet.ifPower[i].power)])

\* GetEffectiveSnir
GetEffectiveSnir(packet) ==
  LET Information(power) == LET gamma == Gamma(packet.burst, power)
                            IN  IF gamma < Saturation THEN gamma ELSE Saturation
  IN  SumFunction([i \in DOMAIN packet.ifPower |->
                     Lasts(packet.ifPower[i]) * Information(packet.ifPower[i].power)])
        \div Duration(packet.burst)

\* PacketCanBeDetected.  The share of the preamble is a quotient of integers
\* and zero, so that the first fragment stands for the preamble; one that lasts
\* no time gives 0/0, which is not above any threshold.
PacketCanBeDetected(burst) ==
  LET first == Head(PerFragment(burst))
  IN  Lasts(first) > 0 /\ Gamma(burst, first.power) >= m_detectionThreshold

Overlap(a, b) == a.start < b.end /\ b.start < a.end

\* EliminateInterferences over the time that both last: of the fragments that
\* end in it, those that last no time at its end included.
EndsIn(fragment, burst) == burst.start < fragment.to /\ fragment.to <= burst.end
Without(ifPower, burst) ==
  [i \in DOMAIN ifPower |->
     IF EndsIn(ifPower[i], burst) THEN [ifPower[i] EXCEPT !.power = @ - RxPower[burst.sender]]
     ELSE ifPower[i]]

\* The error of EliminateInterferences.
HasNegative(packets) ==
  \E packet \in Range(packets) :
    \E i \in DOMAIN packet.ifPower : packet.ifPower[i].power < 0

\* Mutant: what was decoded before is not looked at.
NothingEliminated(burst) == PerFragment(burst)

\* EliminatePreviousInterferences: of the packets still in the container.
PreviousEliminated(burst) ==
  LET Eliminated(fragment) ==
        {i \in DOMAIN m_essaPacketContainer :
           LET packet == m_essaPacketContainer[i]
           IN  packet.hasBeenDecoded /\ Overlap(packet.burst, burst) /\ EndsIn(fragment, packet.burst)}
      Power(places) ==
        SumFunction([i \in places |-> RxPower[m_essaPacketContainer[i].burst.sender]])
  IN  [k \in DOMAIN PerFragment(burst) |->
         [PerFragment(burst)[k] EXCEPT !.power = @ - Power(Eliminated(PerFragment(burst)[k]))]]

\* ReceiveSlot: a packet that is detected is put into the container.
ReceiveEssa ==
  /\ windowPhase = "receive"
  /\ \E burst \in Range(m_rxParams) :
       /\ EndRxData(burst)
       /\ m_essaPacketContainer' =
            IF PacketCanBeDetected(burst)
            THEN Append(m_essaPacketContainer,
                        [burst |-> burst, ifPower |-> PreviousEliminated(burst),
                         hasBeenDecoded |-> FALSE, hasBeenUpdated |-> TRUE,
                         isInsideWindow |-> FALSE, hasBeenTreatedInWindow |-> FALSE])
            ELSE m_essaPacketContainer
  /\ negativeInterference' = HasNegative(m_essaPacketContainer')
  /\ UNCHANGED <<handedUp, nextWindowEnd, pendingWindows, windowBounds, windowPhase, decoded>>

\* DoWindowEnd schedules ProcessWindow and itself.
DoWindowEnd ==
  /\ windowPhase = "receive"
  /\ now = nextWindowEnd
  /\ pendingWindows' = Append(pendingWindows, now)
  /\ nextWindowEnd' = now + m_windowStep
  /\ UNCHANGED <<carrierVars, m_essaPacketContainer, windowBounds, windowPhase,
                 negativeInterference, decoded>>

WindowIsDue == pendingWindows # <<>> /\ Head(pendingWindows) + m_windowDelay = now

\* All bursts last equally long, so that the list is in the order of arrival:
\* where CleanOldPackets and GetWindowBounds stop their search, nothing that
\* they look for follows.
CleanOldPackets(startTime) ==
  LET old == {i \in DOMAIN m_essaPacketContainer : m_essaPacketContainer[i].burst.end <= startTime}
  IN  SubSeq(m_essaPacketContainer, Cardinality(old) + 1, Len(m_essaPacketContainer))

\* The number of packets that a window looks at.
GetWindowBounds(packets, endTime) ==
  Cardinality({i \in DOMAIN packets : packets[i].burst.start <= endTime})

\* The packets that lie in the window whole are to be treated in it.
Within(packets, startTime, endTime) ==
  [i \in DOMAIN packets |->
     IF i > GetWindowBounds(packets, endTime) THEN packets[i]
     ELSE LET inside == packets[i].burst.start >= startTime /\ packets[i].burst.end <= endTime
          IN  [packets[i] EXCEPT !.isInsideWindow = inside,
                                 !.hasBeenTreatedInWindow = ~inside /\ @]]

\* ProcessWindow begins.
ProcessWindow ==
  /\ windowPhase = "receive"
  /\ WindowIsDue
  /\ LET endTime == Head(pendingWindows)
         startTime == endTime - m_windowDuration
         packets == CleanOldPackets(startTime)
     IN  /\ m_essaPacketContainer' = Within(packets, startTime, endTime)
         /\ windowBounds' = GetWindowBounds(packets, endTime)
  /\ pendingWindows' = Tail(pendingWindows)
  /\ windowPhase' = "decode"
  /\ UNCHANGED <<carrierVars, nextWindowEnd, negativeInterference, decoded>>

ToTry ==
  {i \in 1 .. windowBounds :
     /\ ~m_essaPacketContainer[i].hasBeenDecoded
     /\ m_essaPacketContainer[i].hasBeenUpdated
     /\ m_essaPacketContainer[i].isInsideWindow}

\* GetHighestSnirPacket: the first of those with the highest mean.
GetHighestSnirPacket ==
  CHOOSE i \in ToTry :
    LET Mean(j) == MeanSinr(m_essaPacketContainer[j])
    IN  \A j \in ToTry : Mean(i) > Mean(j) \/ (Mean(i) = Mean(j) /\ i <= j)

\* DoSic: what packet i interfered with is updated, unless it is decoded.
DoSic(i) ==
  [j \in DOMAIN m_essaPacketContainer |->
     LET packet == m_essaPacketContainer[j]
         processed == m_essaPacketContainer[i].burst
     IN  IF j = i
         THEN [packet EXCEPT !.hasBeenTreatedInWindow = TRUE, !.hasBeenUpdated = FALSE,
                             !.hasBeenDecoded = TRUE]
         ELSE IF j <= windowBounds /\ ~packet.hasBeenDecoded /\ Overlap(packet.burst, processed)
         THEN [packet EXCEPT !.ifPower = Without(@, processed), !.hasBeenUpdated = TRUE]
         ELSE packet]

\* One turn of the loop.  The outer loop, WindowSICIterations, finds nothing
\* left to try after its first turn.
DecodeTurn ==
  /\ windowPhase = "decode"
  /\ ToTry # {}
  /\ LET i == GetHighestSnirPacket
     IN  \E phyError \in LinkErrors(GetEffectiveSnir(m_essaPacketContainer[i])) :
           IF phyError
           THEN /\ m_essaPacketContainer' =
                     [m_essaPacketContainer EXCEPT ![i].hasBeenTreatedInWindow = TRUE,
                                                   ![i].hasBeenUpdated = FALSE]
                /\ UNCHANGED <<negativeInterference, decoded>>
           ELSE /\ m_essaPacketContainer' = DoSic(i)
                /\ negativeInterference' = HasNegative(m_essaPacketContainer')
                /\ decoded' = decoded \cup {m_essaPacketContainer[i].burst}
  /\ UNCHANGED <<carrierVars, nextWindowEnd, pendingWindows, windowBounds, windowPhase>>

Treated(packet) == packet.isInsideWindow /\ packet.hasBeenTreatedInWindow

\* What was treated in the window is handed up, decoded or not.
HandUpTreated ==
  /\ windowPhase = "decode"
  /\ ToTry = {}
  /\ \E order \in SetToSeqs({i \in 1 .. windowBounds : Treated(m_essaPacketContainer[i])}) :
       /\ \A k, l \in DOMAIN order : k < l => order[k] < order[l]
       /\ HandUp([k \in DOMAIN order |->
                    LET packet == m_essaPacketContainer[order[k]]
                    IN  Packet(packet.burst, ~packet.hasBeenDecoded)])
  /\ windowPhase' = "receive"
  /\ UNCHANGED <<interferenceVars, now, m_rxParams, bursts, m_essaPacketContainer, nextWindowEnd,
                 pendingWindows, windowBounds, negativeInterference, decoded>>

EssaTimePasses ==
  /\ windowPhase = "receive"
  /\ now < nextWindowEnd
  /\ ~WindowIsDue
  /\ ~ReceptionIsDue
  /\ now' = now + 1
  /\ UNCHANGED <<interferenceVars, m_rxParams, bursts, handedUp, windowVars>>

PerWindowNext ==
  \/ ReceiveEssa
  \/ DoWindowEnd
  \/ ProcessWindow
  \/ DecodeTurn
  \/ HandUpTreated
  \/ EssaTimePasses
=============================================================================
