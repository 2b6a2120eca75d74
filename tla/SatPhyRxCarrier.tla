-------------------------- MODULE SatPhyRxCarrier --------------------------
(***************************************************************************)
(* A carrier of a receiver, as far as every kind of access shares it:      *)
(* reception of a burst from StartRx to EndRxData, and the test of a SINR  *)
(* against the link results.                                               *)
(*                                                                         *)
(* A burst is received at the satellite, where its interference is worked  *)
(* out, and then at the gateway, where the receivers of random access are  *)
(* and where collisions are recorded.  All bursts take equally long for    *)
(* the way down, so one record of bursts, shifted in time, stands for      *)
(* both.  The noise of both links is one figure.                           *)
(***************************************************************************)
EXTENDS SatInterference

CONSTANTS
  Sender,     \* UTs that are heard on the carrier
  OwnBeam,    \* those of the beam that the carrier is received for
  RxPower,    \* Sender -> power
  Noise,      \* noise power
  Scale,      \* of ratios, which are integers here
  SinrAlways, \* from this SINR on a burst is always decoded,
  SinrNever   \* below this one never

ASSUME CarrierAssumption ==
  /\ IsFiniteSet(Sender) /\ OwnBeam \subseteq Sender
  /\ RxPower \in [Sender -> Nat \ {0}]
  /\ {Noise, Scale} \subseteq Nat \ {0}
  /\ {SinrAlways, SinrNever} \subseteq Nat /\ SinrNever <= SinrAlways

VARIABLES
  now,         \* time in ticks
  m_rxParams,  \* bursts being received, in the order in which they end
  bursts,      \* every burst heard (history)
  handedUp     \* what was passed to the MAC: packets and phyError (history)

carrierVars == <<interferenceVars, now, m_rxParams, bursts, handedUp>>

CarrierInit ==
  /\ InterferenceInit
  /\ now = 0
  /\ m_rxParams = <<>>
  /\ bursts = {}
  /\ handedUp = <<>>

Duration(burst) == burst.end - burst.start
Energy(burst) == RxPower[burst.sender] * Duration(burst)

\* StartRx: all bursts interfere, those of the own beam are received.
StartRx(burst) ==
  /\ burst.start = now
  /\ bursts' = bursts \cup {burst}
  /\ Add(burst, RxPower[burst.sender])
  /\ IF burst.sender \in OwnBeam
     THEN NotifyRxStart(burst) /\ m_rxParams' = Append(m_rxParams, burst)
     ELSE UNCHANGED <<m_packetCollisions, m_rxParams>>
  /\ UNCHANGED <<now, handedUp>>

\* EndRxData, but for ReceiveSlot, which hands up what is known by then.
EndRxData(burst) ==
  /\ m_rxParams # <<>>
  /\ burst = Head(m_rxParams)
  /\ burst.end = now
  /\ m_rxParams' = Tail(m_rxParams)
  /\ NotifyRxEnd(burst)
  /\ UNCHANGED <<m_interferenceChanges, m_residualPowerW, now, bursts>>

HandUp(packets) == handedUp' = handedUp \o packets
Packet(burst, phyError) == [burst |-> burst, phyError |-> phyError]

ReceptionIsDue == m_rxParams # <<>> /\ Head(m_rxParams).end = now

Sinr(signal, interference, noise) == (Scale * signal) \div (interference + noise)

\* CheckAgainstLinkResults: the errors that are possible at some SINR.  The
\* block error rate falls from one to zero.
LinkErrors(sinr) ==
  CASE sinr >= SinrAlways -> {FALSE}
    [] sinr < SinrNever   -> {TRUE}
    [] OTHER              -> BOOLEAN
=============================================================================
