----------------------------- MODULE SatUtAccess -----------------------------
(***************************************************************************)
(* The transmissions of one UT: dedicated slots that TBTPs announce, and   *)
(* random access in the slots of a channel.  The UT's MAC schedules them   *)
(* as events of the simulator, which runs events of the same time in the   *)
(* order in which they were scheduled; its transmitter does one at a time. *)
(*                                                                         *)
(* Time is in slots.  Slots are counted from the start of the superframe   *)
(* that the UT is in; the count goes on into the superframes after it.     *)
(***************************************************************************)
EXTENDS SatRandomAccess

CONSTANTS
  N,            \* slots of a superframe
  Ahead,        \* superframes that a TBTP may be ahead (bound)
  MaxTbtps,     \* TBTPs of a superframe with slots of the UT (bound)
  MaxDaSlots,   \* dedicated slots that a TBTP has for the UT (bound)
  EssaDuration, \* duration of an ESSA burst
  MaxBuffered,  \* packets buffered (bound)
  MaxEvents,    \* events scheduled (bound)
  MaxMessages   \* random access control messages on their way (bound)

ASSUME UtAccessAssumption ==
  /\ {N, EssaDuration} \subseteq Nat \ {0}
  /\ {Ahead, MaxTbtps, MaxDaSlots, MaxBuffered, MaxEvents, MaxMessages} \subseteq Nat
  /\ RaSlots \subseteq 0 .. N - 1

VARIABLES
  now,                        \* slot of the superframe
  events,                     \* events scheduled
  busy,                       \* time until the transmitter is idle
  fatal,                      \* the error that the simulation has ended with
  buffered,                   \* packets that wait
  tbtps,                      \* superframe -> TBTPs received
  knownSlots,                 \* m_tbtpContainer: dedicated slots it knows
  m_usedRandomAccessSlots,
  m_isRandomAccessScheduled,
  nextPacketIn,               \* m_nextPacketTime
  m_isLowRandomAccessLoad,    \* of the NCC, for each channel
  raMessages,                 \* control messages on their way
  row,                        \* history: superframes used in a row
  owed                        \* history: superframes to be left idle

utVars == <<now, events, busy, fatal, buffered, tbtps, knownSlots, m_usedRandomAccessSlots,
            m_isRandomAccessScheduled, nextPacketIn>>
nccVars == <<m_isLowRandomAccessLoad, raMessages>>
history == <<row, owed>>
vars == <<accessVars, utVars, nccVars, history>>

None == "none"
Superframes == 0 .. Ahead
SlotsAhead == 0 .. (Ahead + 1) * N - 1
Event(kind, left) == [kind |-> kind, left |-> left]

Init ==
  /\ AccessInit
  /\ now = 0
  /\ events = <<Event("DoFrameStart", 0)>>
  /\ busy = 0
  /\ fatal = None
  /\ buffered = 0
  /\ tbtps = [d \in Superframes |-> 0]
  /\ knownSlots = {}
  /\ m_usedRandomAccessSlots = {}
  /\ m_isRandomAccessScheduled = FALSE
  /\ nextPacketIn = 0
  /\ m_isLowRandomAccessLoad = [c \in Channel |-> TRUE]
  /\ raMessages = <<>>
  /\ row = 0
  /\ owed = 0
-----------------------------------------------------------------------------
\* Mutant: the superframe that goes on is past.
HasFutureTimeSlots == \E i \in knownSlots : i >= N

\* HasScheduledTimeSlots: whether a slot known is to come or goes on.
HasScheduledTimeSlots == \E i \in knownSlots : i >= now

\* The simulator keeps its events in the order of their times, and those of the
\* same time in the order in which they were scheduled.
Insert(queue, e) ==
  InsertAt(queue, 1 + Cardinality({i \in DOMAIN queue : queue[i].left <= e.left}), e)
With(queue, new) == FoldLeft(Insert, queue, new)

Due == events # <<>> /\ Head(events).left = 0
Handles(kind) == fatal = None /\ Due /\ Head(events).kind = kind
Schedule(new) == events' = With(Tail(events), new)

\* StartTx of SatPhyTx, which ends the simulation while another goes on.
StartTx(duration) ==
  /\ fatal' = IF busy > 0 THEN "already TX" ELSE None
  /\ busy' = IF busy > 0 THEN busy ELSE duration

NoTx == UNCHANGED <<busy, fatal>>
SendPacket(duration) ==
  IF buffered = 0 THEN NoTx /\ UNCHANGED buffered
  ELSE StartTx(duration) /\ buffered' = buffered - 1

\* Add of the container keeps the first TBTP of a superframe only; the slots of
\* all of them are scheduled.
KnownAfter(d, slots) == IF tbtps[d] = 0 THEN knownSlots \cup slots ELSE knownSlots

\* ScheduleTimeSlots, for a superframe that has not begun.  The order in which the
\* slots are scheduled does not matter, as they are at different times.
ReceiveTbtp(d, slots) ==
  /\ fatal = None
  /\ tbtps[d] < MaxTbtps
  /\ \A i \in DOMAIN events : events[i].kind = "DoTransmit" => now + events[i].left \notin slots
  /\ tbtps' = [tbtps EXCEPT ![d] = @ + 1]
  /\ knownSlots' = KnownAfter(d, slots)
  /\ events' = With(events, [i \in 1 .. Cardinality(slots) |->
                               Event("DoTransmit", SetToSeq(slots)[i] - now)])
  /\ Len(events') <= MaxEvents
  /\ UNCHANGED <<accessVars, now, busy, fatal, buffered, m_usedRandomAccessSlots,
                 m_isRandomAccessScheduled, nextPacketIn, nccVars, history>>

DoTransmit ==
  /\ Handles("DoTransmit")
  /\ Schedule(<<>>)
  /\ SendPacket(1)
  /\ UNCHANGED <<accessVars, now, tbtps, knownSlots, m_usedRandomAccessSlots,
                 m_isRandomAccessScheduled, nextPacketIn, nccVars, history>>
-----------------------------------------------------------------------------
\* CreateCrdsaPacketInstances: the replicas of as many packets as there are.
Replicas(opportunities) ==
  LET replicas == {r \in (DOMAIN opportunities) \X RaSlots :
                     r[1] <= buffered /\ r[2] \in opportunities[r[1]]}
  IN  [i \in 1 .. Cardinality(replicas) |-> Event("TransmitPackets", SetToSeq(replicas)[i][2])]

Row(used) ==
  /\ row' = IF used THEN row + 1 ELSE 0
  /\ owed' = IF used /\ row' >= MaxConsecutive[m_raChannel] THEN MinIdle[m_raChannel]
             ELSE IF owed > 0 THEN owed - 1 ELSE 0

\* DoFrameStart and ScheduleCrdsaTransmission, which ends the simulation when a
\* slot is used already.
DoFrameStart(opportunities) ==
  LET slots == UNION Range(opportunities)
  IN  /\ Handles("DoFrameStart")
      /\ IF UsesCrdsa
         THEN /\ DoCrdsa(m_raChannel, HasScheduledTimeSlots, buffered = 0, opportunities)
              /\ Row(opportunities # <<>>)
         ELSE opportunities = <<>> /\ UNCHANGED <<accessVars, history>>
      /\ fatal' = IF slots \cap m_usedRandomAccessSlots = {} THEN None ELSE "slot unavailable"
      /\ m_usedRandomAccessSlots' = m_usedRandomAccessSlots \cup slots
      /\ Schedule(Append(Replicas(opportunities), Event("DoFrameStart", N)))
      /\ buffered' = IF buffered > Len(opportunities) THEN buffered - Len(opportunities) ELSE 0
      /\ m_isRandomAccessScheduled' = FALSE
      /\ UNCHANGED <<now, busy, tbtps, knownSlots, nextPacketIn, nccVars>>

TransmitPackets ==
  /\ Handles("TransmitPackets")
  /\ Schedule(<<>>)
  /\ StartTx(1)
  /\ UNCHANGED <<accessVars, now, buffered, tbtps, knownSlots, m_usedRandomAccessSlots,
                 m_isRandomAccessScheduled, nextPacketIn, nccVars, history>>
-----------------------------------------------------------------------------
\* ReceiveQueueEvent: a packet is buffered.
Enque ==
  /\ fatal = None
  /\ buffered < MaxBuffered
  /\ buffered' = buffered + 1
  /\ IF UsesSlottedAloha
     THEN /\ \/ HasScheduledTimeSlots /\ UNCHANGED events
             \/ /\ ~HasScheduledTimeSlots
                /\ Len(events) < MaxEvents
                /\ \E time \in ReleaseTimes :
                     events' = Insert(events, Event("ScheduleSlottedAlohaTransmission", time))
          /\ m_isRandomAccessScheduled' = FALSE
     ELSE IF UsesEssa /\ ~m_isRandomAccessScheduled
     THEN /\ Len(events) < MaxEvents
          /\ \E time \in EssaWaits :
               events' = Insert(events, Event("ScheduleEssaTransmission", time))
          /\ m_isRandomAccessScheduled' = TRUE
     ELSE UNCHANGED <<events, m_isRandomAccessScheduled>>
  /\ UNCHANGED <<accessVars, now, busy, fatal, tbtps, knownSlots, m_usedRandomAccessSlots,
                 nextPacketIn, nccVars, history>>

\* FindNextAvailableRandomAccessSlot, in this superframe and the next ones.  A
\* superframe that is searched drops the slots used of those before it.
AvailableSlots == {i \in SlotsAhead : i >= now /\ i \notin m_usedRandomAccessSlots}
UsedFrom(slot) == {i \in m_usedRandomAccessSlots : i >= (slot \div N) * N}

ScheduleSlottedAlohaTransmission ==
  /\ Handles("ScheduleSlottedAlohaTransmission")
  /\ IF HasScheduledTimeSlots
     THEN Schedule(<<>>) /\ UNCHANGED m_usedRandomAccessSlots
     ELSE /\ AvailableSlots # {}
          /\ Schedule(<<Event("DoSlottedAlohaTransmit", Min(AvailableSlots) - now)>>)
          /\ m_usedRandomAccessSlots' = UsedFrom(Min(AvailableSlots)) \cup {Min(AvailableSlots)}
  /\ UNCHANGED <<accessVars, now, busy, fatal, buffered, tbtps, knownSlots,
                 m_isRandomAccessScheduled, nextPacketIn, nccVars, history>>

DoSlottedAlohaTransmit ==
  /\ Handles("DoSlottedAlohaTransmit")
  /\ Schedule(<<>>)
  /\ SendPacket(1)
  /\ UNCHANGED <<accessVars, now, tbtps, knownSlots, m_usedRandomAccessSlots,
                 m_isRandomAccessScheduled, nextPacketIn, nccVars, history>>
-----------------------------------------------------------------------------
\* ESSA: the burst is sent when the one before it has ended.
ScheduleEssaTransmission ==
  /\ Handles("ScheduleEssaTransmission")
  /\ Schedule(<<Event("DoEssaTransmit", nextPacketIn)>>)
  /\ UNCHANGED <<accessVars, now, busy, fatal, buffered, tbtps, knownSlots,
                 m_usedRandomAccessSlots, m_isRandomAccessScheduled, nextPacketIn, nccVars, history>>

\* A burst is followed by another try.
DoEssaTransmit ==
  /\ Handles("DoEssaTransmit")
  /\ m_isRandomAccessScheduled' = (buffered > 0)
  /\ Schedule(IF buffered > 0 THEN <<Event("DoRandomAccess", EssaDuration)>> ELSE <<>>)
  /\ nextPacketIn' = IF buffered > 0 THEN EssaDuration ELSE nextPacketIn
  /\ SendPacket(EssaDuration)
  /\ UNCHANGED <<accessVars, now, tbtps, knownSlots, m_usedRandomAccessSlots, nccVars, history>>

DoRandomAccess ==
  /\ Handles("DoRandomAccess")
  /\ \E time \in EssaWaits : Schedule(<<Event("ScheduleEssaTransmission", time)>>)
  /\ m_isRandomAccessScheduled' = TRUE
  /\ UNCHANGED <<accessVars, now, busy, fatal, buffered, tbtps, knownSlots,
                 m_usedRandomAccessSlots, nextPacketIn, nccVars, history>>
-----------------------------------------------------------------------------
\* Mutant: the NCC does not remember which load it has announced.
LoadControlForgets(c, isLow) ==
  /\ m_randomAccessModel # "SLOTTED_ALOHA"
  /\ fatal = None
  /\ isLow # m_isLowRandomAccessLoad[c]
  /\ Len(raMessages) < MaxMessages
  /\ raMessages' = Append(raMessages, [channel |-> c, backoff |-> IF isLow THEN "low" ELSE "high"])
  /\ UNCHANGED <<accessVars, utVars, history, m_isLowRandomAccessLoad>>

\* DoRandomAccessDynamicLoadControl: a message when the load crosses the
\* threshold.  Slotted ALOHA carriers measure no load.
LoadControl(c, isLow) ==
  /\ m_randomAccessModel # "SLOTTED_ALOHA"
  /\ fatal = None
  /\ isLow # m_isLowRandomAccessLoad[c]
  /\ Len(raMessages) < MaxMessages
  /\ m_isLowRandomAccessLoad' = [m_isLowRandomAccessLoad EXCEPT ![c] = isLow]
  /\ raMessages' = Append(raMessages, [channel |-> c, backoff |-> IF isLow THEN "low" ELSE "high"])
  /\ UNCHANGED <<accessVars, utVars, history>>

\* A model that takes no backoff ends the simulation.
ReceiveRaMessage ==
  /\ fatal = None
  /\ raMessages # <<>>
  /\ IF TakesBackoff
     THEN SetBackoff(Head(raMessages).channel, Head(raMessages).backoff) /\ UNCHANGED fatal
     ELSE fatal' = "wrong model" /\ UNCHANGED accessVars
  /\ raMessages' = Tail(raMessages)
  /\ UNCHANGED <<now, events, busy, buffered, tbtps, knownSlots, m_usedRandomAccessSlots,
                 m_isRandomAccessScheduled, nextPacketIn, m_isLowRandomAccessLoad, history>>

\* Time passes when nothing is due; what belongs to the past superframe is gone.
Shifted(slots) == IF now = N - 1 THEN {i - N : i \in {j \in slots : j >= N}} ELSE slots
Less(n) == IF n > 0 THEN n - 1 ELSE 0

Tick ==
  /\ fatal = None
  /\ ~Due
  /\ now' = (now + 1) % N
  /\ events' = [i \in DOMAIN events |-> [events[i] EXCEPT !.left = @ - 1]]
  /\ busy' = Less(busy)
  /\ nextPacketIn' = Less(nextPacketIn)
  /\ knownSlots' = Shifted(knownSlots)
  /\ m_usedRandomAccessSlots' = Shifted(m_usedRandomAccessSlots)
  /\ tbtps' = IF now = N - 1 THEN [d \in Superframes |-> IF d = Ahead THEN 0 ELSE tbtps[d + 1]]
              ELSE tbtps
  /\ BackoffTimePasses
  /\ UNCHANGED <<fatal, buffered, m_isRandomAccessScheduled, nccVars, history>>

DaSlots(d) == {slots \in SUBSET (d * N .. (d + 1) * N - 1) : Cardinality(slots) <= MaxDaSlots}
Opportunities == UNION {CrdsaTxOpportunities(n) : n \in 0 .. MaxUniquePayload}

Next ==
  \/ \E d \in Superframes \ {0} : \E slots \in DaSlots(d) : ReceiveTbtp(d, slots)
  \/ DoTransmit
  \/ \E opportunities \in Opportunities : DoFrameStart(opportunities)
  \/ TransmitPackets
  \/ Enque
  \/ ScheduleSlottedAlohaTransmission
  \/ DoSlottedAlohaTransmit
  \/ ScheduleEssaTransmission
  \/ DoEssaTransmit
  \/ DoRandomAccess
  \/ \E c \in Channel, isLow \in BOOLEAN : LoadControl(c, isLow)
  \/ ReceiveRaMessage
  \/ Tick

Spec == Init /\ [][Next]_vars
-----------------------------------------------------------------------------
\* The transmitter is never asked to transmit while it does, and no slot is
\* used twice: "cannot TX while already TX: the MAC should avoid this".
OneTransmissionAtATime == fatal \notin {"already TX", "slot unavailable"}

\* With CRDSA, replicas never meet dedicated slots nor each other, whatever
\* TBTPs arrive during the superframe.
CrdsaTransmitsAlone == UsesCrdsa => OneTransmissionAtATime

\* On the first channel the UT leaves MinIdle superframes idle after it has used
\* MaxConsecutive ones in a row, also when other channels have longer limits.
RateLimited == [][row' > row => owed = 0]_vars

\* Once no control message is on its way, the UT backs off as the NCC wants.
BackoffFollowsLoad ==
  raMessages = <<>> /\ fatal = None =>
    \A c \in Channel :
      \/ m_backoff[c] = IF m_isLowRandomAccessLoad[c] THEN "low" ELSE "high"
      \/ m_backoff[c] = "default" /\ m_isLowRandomAccessLoad[c]
=============================================================================
