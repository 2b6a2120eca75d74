---------------------------- MODULE SatForwardLink ----------------------------
(***************************************************************************)
(* The forward link of a beam at its gateway: the LLC's buffers, one for   *)
(* each destination and flow, the scheduler that builds BBFrames of them   *)
(* (SatFwdLinkSchedulerDefault, or SatFwdLinkSchedulerTimeSlicing with     *)
(* slices of the carrier that UTs subscribe to), and the MAC that sends    *)
(* one frame after the other.  A scheduling round is one event of the      *)
(* simulator; its iterations are steps here, so that one that does not end *)
(* is a behaviour.                                                         *)
(***************************************************************************)
EXTENDS SatBbFrameContainer, FiniteSets

CONSTANTS
  Ut,
  Connections,      \* the encapsulators: [to |-> UT or Broadcast, flow |-> flow id]
  PacketSizes,      \* sizes of the packets that the upper layers queue
  ControlSizes,     \* sizes of the control messages to all UTs
  GseHeader,        \* bytes of the GSE header, the ARQ header included
  StartThreshold,   \* m_schedulingStartThresholdTime
  StopThreshold,    \* m_schedulingStopThresholdTime
  PeriodicInterval, \* m_periodicInterval
  DummyDuration,    \* GetDummyBbFrameDuration
  DefaultModcod,
  Window,           \* of the ARQ
  MaxArrivals       \* packets queued (bound)

Broadcast == "broadcast"
Subscriptions == [to |-> Broadcast, flow |-> 0]

ASSUME ForwardLinkAssumption ==
  /\ IsFiniteSet(Ut)
  /\ PacketSizes \subseteq Nat /\ ControlSizes \subseteq Nat /\ GseHeader \in Nat
  /\ StopThreshold \in Nat /\ PeriodicInterval \in Nat
  /\ Subscriptions \in Connections
  /\ \A c \in Connections : c.to \in Ut \cup {Broadcast} /\ c.flow \in Nat
  /\ DefaultModcod \in Modcods
  /\ StartThreshold <= StopThreshold

VARIABLES
  mode,               \* m_bbFrameUsageMode
  m_numberOfSlices,   \* 0: the default scheduler
  arq,                \* whether the encapsulators use ARQ
  buffer,             \* connection -> packets: the bytes left of each
  unacked,            \* connection -> PDUs sent and not acknowledged
  bestModcod,         \* UT -> MODCOD of its C/N0 estimate, or Unknown
  m_bbFrameContainers,
  m_slicesMapping,    \* UT -> slice, or Unknown
  m_lastSliceAssigned,
  m_lastSliceDequeued,
  round,              \* the scheduling round that goes on
  rescheduled,        \* a round is scheduled at once
  untilFrame,         \* time until StartTransmission
  untilTimer,         \* time until PeriodicTimerExpired
  subscribed,         \* UTs told of their slice
  missed,             \* history: UTs that got data in a slice they did not know of
  overtaken,          \* history: UTs whose message waited in a round that merging reopened
  arrivals,
  fatal

configVars == <<mode, m_numberOfSlices, arq>>
llcVars == <<buffer, unacked, arrivals>>
sliceVars == <<m_slicesMapping, m_lastSliceAssigned>>
frameVars == <<m_lastSliceDequeued, subscribed, missed, overtaken>>
timeVars == <<untilFrame, untilTimer>>
vars == <<configVars, llcVars, bestModcod, m_bbFrameContainers, sliceVars, frameVars, round,
          rescheduled, timeVars, fatal>>

None == "none"
Unknown == 0
TimeSlicing == m_numberOfSlices > 0
Slices == 0 .. m_numberOfSlices
Idle == [phase |-> "idle"]

Init ==
  /\ mode \in UsageModes
  /\ m_numberOfSlices \in 0 .. Cardinality(Ut)
  /\ arq \in BOOLEAN
  /\ buffer = [c \in Connections |-> <<>>]
  /\ unacked = [c \in Connections |-> 0]
  /\ bestModcod = [u \in Ut |-> Unknown]
  /\ m_bbFrameContainers = [s \in Slices |-> EmptyContainer]
  /\ m_slicesMapping = [u \in Ut |-> Unknown]
  /\ m_lastSliceAssigned = 1
  /\ m_lastSliceDequeued = IF TimeSlicing THEN 1 ELSE 0
  /\ round = Idle
  /\ rescheduled = FALSE
  /\ untilFrame = 0
  /\ untilTimer = PeriodicInterval
  /\ subscribed = {}
  /\ missed = {}
  /\ overtaken = {}
  /\ arrivals = 0
  /\ fatal = None
-----------------------------------------------------------------------------
(* The LLC and its encapsulators. *)

\* Control messages to all have an encapsulator that does not cut packets.
IsCut(c) == c # Subscriptions

BufferedBytes(c) == SumOver(buffer[c], LAMBDA packet : packet.n)

GetMinTxOpportunityInBytes(c) ==
  IF IsCut(c) THEN GseHeader + 1 ELSE Head(buffer[c]).n

\* The PDU that a transmission opportunity gets, as the set of the one or none.
\* With ARQ there is none while the window is full.
PduFor(c, bytes) ==
  LET head == Head(buffer[c])
      pdu(n) == [conn |-> c, n |-> n, modcod |-> round.modcod, about |-> head.about]
  IN IF ~IsCut(c) THEN {pdu(n) : n \in {head.n} \cap 0 .. bytes}
     ELSE IF bytes <= GseHeader \/ (arq /\ unacked[c] = Window) THEN {}
     ELSE {pdu(IF head.n + GseHeader <= bytes THEN head.n + GseHeader ELSE bytes)}

Taken(pdu) == IF IsCut(pdu.conn) THEN pdu.n - GseHeader ELSE pdu.n

\* Mutant: the rest of a packet that was cut is not put back.
AfterPduWithoutRest(packets, pdu) == Tail(packets)

AfterPdu(packets, pdu) ==
  IF Taken(pdu) = Head(packets).n THEN Tail(packets)
  ELSE <<[Head(packets) EXCEPT !.n = @ - Taken(pdu)]>> \o Tail(packets)

Enque(c, n) ==
  /\ fatal = None /\ round = Idle
  /\ arrivals < MaxArrivals
  /\ n \in IF IsCut(c) THEN PacketSizes ELSE ControlSizes
  /\ arrivals' = arrivals + 1
  /\ buffer' = [buffer EXCEPT ![c] = Append(@, [n |-> n, about |-> None])]
  /\ UNCHANGED <<configVars, unacked, bestModcod, m_bbFrameContainers, sliceVars, frameVars,
                 round, rescheduled, timeVars, fatal>>

ReceiveAck(c) ==
  /\ fatal = None /\ round = Idle
  /\ arq /\ unacked[c] > 0
  /\ unacked' = [unacked EXCEPT ![c] = @ - 1]
  /\ UNCHANGED <<configVars, buffer, arrivals, bestModcod, m_bbFrameContainers, sliceVars,
                 frameVars, round, rescheduled, timeVars, fatal>>

\* A report of the UT changes the estimate of its C/N0.
CnoInfoUpdated(u, m) ==
  /\ fatal = None /\ round = Idle
  /\ m # bestModcod[u]
  /\ bestModcod' = [bestModcod EXCEPT ![u] = m]
  /\ UNCHANGED <<configVars, llcVars, m_bbFrameContainers, sliceVars, frameVars, round,
                 rescheduled, timeVars, fatal>>
-----------------------------------------------------------------------------
(* A scheduling round. *)

GetTotalDuration == SumOver(m_bbFrameContainers, LAMBDA k : k.totalDuration)

RoundGoesOn ==
  GetTotalDuration < (IF TimeSlicing THEN PeriodicInterval ELSE StopThreshold)

PlaceOf(c, modcod) == IF c.flow = 0 THEN Control ELSE modcod
GetModcod(c) ==
  IF c.flow = 0 THEN ModcodOf(Control)
  ELSE IF c.to = Broadcast \/ bestModcod[c.to] = Unknown THEN DefaultModcod
  ELSE bestModcod[c.to]

SliceOf(c) == IF ~TimeSlicing \/ c.to = Broadcast THEN 0 ELSE m_slicesMapping[c.to]

\* The container that data is added to: the one of the slices' control messages
\* and broadcasts for all of them, whatever the slice of the UT.
ContainerFor(c) == IF c.flow = 0 THEN 0 ELSE SliceOf(c)

\* CanOpenBbFrame: the rate of the slice, or for a broadcast the rate of the
\* carrier, allows one more frame.
CanOpenBbFrame(c, modcod) ==
  LET queued(s) == m_bbFrameContainers[s].totalDuration
      frame == Duration[DefaultType(mode)][modcod]
  IN \/ ~TimeSlicing \/ c.flow = 0
     \/ /\ c.to = Broadcast
        /\ \A s \in Slices \ {0} : queued(0) + frame + queued(s) <= PeriodicInterval
     \/ /\ c.to # Broadcast
        /\ (queued(SliceOf(c)) + frame + queued(0)) * m_numberOfSlices < PeriodicInterval

\* GetSchedulingObjects.  They are sorted by flow; the order of those of the same
\* flow depends on the criterion in use, here it is any.
SchedulingObjects == IF RoundGoesOn THEN {c \in Connections : buffer[c] # <<>>} ELSE {}
Round(next) == [phase |-> "objects", objects |-> SchedulingObjects, next |-> next]

\* What the event does after the round: StartTransmission goes on to send.
EndOfRound == IF round.next = "send" THEN [phase |-> "send"] ELSE Idle

FirstObjects == {c \in round.objects : \A d \in round.objects : c.flow <= d.flow}

NeedsSlice(c) == TimeSlicing /\ c.to # Broadcast /\ m_slicesMapping[c.to] = Unknown

\* A UT without a slice is given the next one; it is told in a control message,
\* and a new round is scheduled to put that first.
AssignSlice(c) ==
  /\ m_slicesMapping' = [m_slicesMapping EXCEPT ![c.to] = m_lastSliceAssigned]
  /\ m_lastSliceAssigned' = (m_lastSliceAssigned % m_numberOfSlices) + 1
  /\ buffer' = [buffer EXCEPT ![Subscriptions] = Append(@, [n |-> 1, about |-> c.to])]
  /\ rescheduled' = TRUE
  /\ round' = EndOfRound

OpenObject(c) ==
  LET modcod == GetModcod(c)
      k == m_bbFrameContainers[SliceOf(c)]
      place == PlaceOf(c, modcod)
  IN IF IsEmpty(k, place) /\ ~CanOpenBbFrame(c, modcod)
     THEN round' = [round EXCEPT !.objects = @ \ {c}]
     ELSE round' = [phase |-> "filling", objects |-> round.objects \ {c}, next |-> round.next,
                    conn |-> c, modcod |-> modcod,
                    bytes |-> GetBytesLeftInTailFrame(mode, k, place)]

NextObject ==
  /\ fatal = None /\ round.phase = "objects"
  /\ IF round.objects = {} \/ ~RoundGoesOn
     THEN round' = EndOfRound /\ UNCHANGED <<buffer, sliceVars, rescheduled>>
     ELSE \E c \in FirstObjects :
            IF NeedsSlice(c) THEN AssignSlice(c)
            ELSE OpenObject(c) /\ UNCHANGED <<buffer, sliceVars, rescheduled>>
  /\ UNCHANGED <<configVars, unacked, arrivals, bestModcod, m_bbFrameContainers, frameVars,
                 timeVars, fatal>>

\* The bytes of the next opportunity; a new frame when the tail has too few.
NewFrameBytes ==
  GetMaxFramePayloadInBytes(mode, PlaceOf(round.conn, round.modcod)) - HeaderBytes
TooFew == round.bytes < GetMinTxOpportunityInBytes(round.conn)
OpportunityBytes == IF TooFew THEN NewFrameBytes ELSE round.bytes

ObjectGoesOn == RoundGoesOn /\ buffer[round.conn] # <<>>
LeaveObject == [phase |-> "merging", objects |-> round.objects, next |-> round.next,
                conn |-> round.conn]

\* The time slicing scheduler leaves the bytes as they were if the data went to
\* the container of control messages and broadcasts.
BytesAfter(k, place) ==
  IF TimeSlicing /\ (round.conn.flow = 0 \/ round.conn.to = Broadcast) THEN OpportunityBytes
  ELSE GetBytesLeftInTailFrame(mode, k, place)

\* No PDU: the opportunity is made as large as a frame, header and all, and
\* tried again.  Nothing counts how often.
TryAgain ==
  LET k == m_bbFrameContainers[SliceOf(round.conn)]
      place == PlaceOf(round.conn, round.modcod)
      whole == GetMaxFramePayloadInBytes(mode, place)
  IN /\ UNCHANGED <<buffer, unacked, m_bbFrameContainers>>
     /\ IF whole = GetBytesLeftInTailFrame(mode, k, place)
        THEN fatal' = "PACKET_TOO_LONG" /\ UNCHANGED round
        ELSE /\ UNCHANGED fatal
             /\ round' = IF CanOpenBbFrame(round.conn, round.modcod)
                         THEN [round EXCEPT !.bytes = whole] ELSE LeaveObject

AddData(pdu) ==
  LET s == ContainerFor(round.conn)
      place == PlaceOf(round.conn, round.modcod)
  IN /\ buffer' = [buffer EXCEPT ![pdu.conn] = AfterPdu(@, pdu)]
     /\ unacked' = [unacked EXCEPT ![pdu.conn] = IF arq /\ IsCut(pdu.conn) THEN @ + 1 ELSE @]
     /\ \/ \E k \in TailsForData(mode, m_bbFrameContainers[s], place, pdu.n) :
             IF HasRoomFor(Tail_(k, place), pdu.n)
             THEN LET filled == WithData(k, place, pdu)
                  IN /\ m_bbFrameContainers' = [m_bbFrameContainers EXCEPT ![s] = filled]
                     /\ round' = [round EXCEPT !.bytes = BytesAfter(filled, place)]
                     /\ UNCHANGED fatal
             ELSE /\ fatal' = "DATA_CANNOT_BE_ADDED"
                  /\ UNCHANGED <<m_bbFrameContainers, round>>
        \/ /\ ReadsNoFrame(mode, m_bbFrameContainers[s], place, pdu.n)
           /\ fatal' = "READS_NO_FRAME"
           /\ UNCHANGED <<m_bbFrameContainers, round>>

TxOpportunity ==
  /\ fatal = None /\ round.phase = "filling" /\ ObjectGoesOn
  /\ IF TooFew /\ ~CanOpenBbFrame(round.conn, round.modcod)
     THEN round' = LeaveObject /\ UNCHANGED <<buffer, unacked, m_bbFrameContainers, fatal>>
     ELSE IF OpportunityBytes < GetMinTxOpportunityInBytes(round.conn)
     THEN fatal' = "CONTROL_TOO_LONG" /\ UNCHANGED <<buffer, unacked, m_bbFrameContainers, round>>
     ELSE IF PduFor(round.conn, OpportunityBytes) = {} THEN TryAgain
     ELSE \E pdu \in PduFor(round.conn, OpportunityBytes) : AddData(pdu)
  /\ UNCHANGED <<configVars, arrivals, bestModcod, sliceVars, frameVars, rescheduled, timeVars>>

\* The UTs that a control message which is not in a frame yet tells of their slice.
ToBeTold == {u \in Ut : \E i \in DOMAIN buffer[Subscriptions] : buffer[Subscriptions][i].about = u}

\* Control messages to all are taken first, until there are none or the limit of
\* the round is reached; merging may then bring the round below it again, and the
\* round goes on with other objects.
MergeFrames ==
  /\ fatal = None
  /\ round.phase = "merging" \/ (round.phase = "filling" /\ ~ObjectGoesOn)
  /\ UNCHANGED <<configVars, llcVars, bestModcod, sliceVars, m_lastSliceDequeued, subscribed,
                 missed, rescheduled, timeVars, fatal>>
  /\ m_bbFrameContainers' =
       [m_bbFrameContainers EXCEPT ![SliceOf(round.conn)] = MergeBbFrames(mode, @)]
  /\ round' = [phase |-> "objects", objects |-> round.objects, next |-> round.next]
  /\ overtaken' = IF round.conn = Subscriptions /\ RoundGoesOn'
                  THEN overtaken \cup ToBeTold ELSE overtaken
-----------------------------------------------------------------------------
(* The events of the simulator, in the order of their times. *)

Advance(dt) == untilFrame' = untilFrame - dt /\ untilTimer' = untilTimer - dt

\* What was scheduled for now before the new round was comes first.
RunRescheduled ==
  /\ fatal = None /\ round = Idle
  /\ rescheduled /\ untilFrame > 0
  /\ rescheduled' = FALSE
  /\ round' = Round("idle")
  /\ UNCHANGED <<configVars, llcVars, bestModcod, m_bbFrameContainers, sliceVars, frameVars,
                 timeVars, fatal>>

PeriodicTimerExpired ==
  /\ fatal = None /\ round = Idle
  /\ ~rescheduled /\ untilTimer <= untilFrame
  /\ untilTimer' = PeriodicInterval
  /\ untilFrame' = untilFrame - untilTimer
  /\ round' = Round("idle")
  /\ UNCHANGED <<configVars, llcVars, bestModcod, m_bbFrameContainers, sliceVars, frameVars,
                 rescheduled, fatal>>

\* StartTransmission, up to GetNextFrame's round of the default scheduler.
StartTransmission ==
  /\ fatal = None /\ round = Idle
  /\ untilFrame <= untilTimer /\ (rescheduled => untilFrame = 0)
  /\ Advance(untilFrame)
  /\ round' = IF ~TimeSlicing /\ GetTotalDuration < StartThreshold
              THEN Round("send") ELSE [phase |-> "send"]
  /\ UNCHANGED <<configVars, llcVars, bestModcod, m_bbFrameContainers, sliceVars, frameVars,
                 rescheduled, fatal>>

\* Mutant: slice 0 has no turn.
InTurnOfUts(i) ==
  IF TimeSlicing THEN (((m_lastSliceDequeued + i) - 1) % m_numberOfSlices) + 1 ELSE 0

InTurn(i) == (m_lastSliceDequeued + i) % (m_numberOfSlices + 1)
HasFrame(s) == NonEmptyPlaces(m_bbFrameContainers[s]) # {}

\* Mutant: in turn, whatever control messages wait.
NextSlicesInTurn ==
  {InTurn(i) : i \in {j \in Slices : HasFrame(InTurn(j))
                                     /\ \A l \in 0 .. j - 1 : ~HasFrame(InTurn(l))}}

\* The slice that GetNextFrame takes a frame of: that of control messages if it
\* has any, else the next in turn that has a frame.
NextSlices ==
  IF ~IsEmpty(m_bbFrameContainers[0], Control) THEN {0}
  ELSE {InTurn(i) : i \in {j \in Slices : HasFrame(InTurn(j))
                                          /\ \A l \in 0 .. j - 1 : ~HasFrame(InTurn(l))}}

LastSliceDequeued(s) ==
  IF ~TimeSlicing \/ ~IsEmpty(m_bbFrameContainers[0], Control) THEN m_lastSliceDequeued
  ELSE (s + 1) % (m_numberOfSlices + 1)

Told(f) == {f.pdus[i].about : i \in DOMAIN f.pdus} \cap Ut
Unheard(f, s) ==
  IF s = 0 THEN {} ELSE ({f.pdus[i].conn.to : i \in DOMAIN f.pdus} \cap Ut) \ subscribed

SendFrame ==
  /\ fatal = None /\ round.phase = "send"
  /\ round' = Idle
  /\ \/ /\ NextSlices = {}
        /\ untilFrame' = DummyDuration
        /\ UNCHANGED <<m_bbFrameContainers, frameVars>>
     \/ \E s \in NextSlices : \E p \in NextFramePlaces(m_bbFrameContainers[s]) :
          LET f == Head(m_bbFrameContainers[s].queues[p])
          IN /\ m_bbFrameContainers' = [m_bbFrameContainers EXCEPT ![s] = WithoutHead(@, p)]
             /\ m_lastSliceDequeued' = LastSliceDequeued(s)
             /\ untilFrame' = FrameDuration(f)
             /\ subscribed' = subscribed \cup Told(f)
             /\ missed' = missed \cup Unheard(f, s)
             /\ UNCHANGED overtaken
  /\ UNCHANGED <<configVars, llcVars, bestModcod, sliceVars, rescheduled, untilTimer, fatal>>

Next ==
  \/ \E c \in Connections, n \in PacketSizes \cup ControlSizes : Enque(c, n)
  \/ \E c \in Connections : ReceiveAck(c)
  \/ \E u \in Ut, m \in Modcods : CnoInfoUpdated(u, m)
  \/ NextObject
  \/ TxOpportunity
  \/ MergeFrames
  \/ RunRescheduled
  \/ PeriodicTimerExpired
  \/ StartTransmission
  \/ SendFrame

\* The simulator runs every event that is scheduled; packets, acknowledgements
\* and reports need not come.
Runs == NextObject \/ TxOpportunity \/ MergeFrames \/ RunRescheduled \/ PeriodicTimerExpired
          \/ StartTransmission \/ SendFrame

Spec == Init /\ [][Next]_vars
FairSpec == Spec /\ WF_vars(Runs)
-----------------------------------------------------------------------------
AllFrames == UNION {Frames(m_bbFrameContainers[s]) : s \in Slices}

\* The duration by which rounds are started and stopped is that of the frames in
\* the queues, whatever was merged, extended, shrunk and sent in between; and a
\* round stops with at most one frame above its limit.
DurationsExact ==
  /\ \A s \in Slices :
       m_bbFrameContainers[s].totalDuration = QueuesDuration(m_bbFrameContainers[s])
  /\ \E t \in FrameTypes, m \in Modcods :
       GetTotalDuration < Duration[t][m]
                            + (IF TimeSlicing THEN PeriodicInterval ELSE StopThreshold)

\* A frame carries no more than a frame of its type and MODCOD can, and nothing
\* that was to be sent with a more robust MODCOD than it has.
FramesCanBeDecoded ==
  \A f \in AllFrames :
    PayloadFits(f) /\ \A i \in DOMAIN f.pdus : f.modcod <= f.pdus[i].modcod

\* A UT gets data in a slice only after it was told to listen to that slice: the
\* message is framed before the data is, and sent before.  It is not so for a UT
\* whose message still waited when a round that had reached its limit went on,
\* because merging the frames of the control messages made room again.
SlicesKnown == missed \subseteq overtaken

\* No step of a round loses, repeats or makes up data: what leaves a buffer is in
\* a frame, and stays in one until that is sent.
FramedBytes(c) ==
  SumOver(m_bbFrameContainers, LAMBDA k : SumOver(k.queues, LAMBDA q :
    SumOver(q, LAMBDA f : SumOver(f.pdus, LAMBDA pdu :
      IF pdu.conn = c THEN Taken(pdu) ELSE 0))))
DataConserved ==
  [][(TxOpportunity \/ MergeFrames) /\ fatal' = None =>
       \A c \in Connections :
         BufferedBytes(c)' + FramedBytes(c)' = BufferedBytes(c) + FramedBytes(c)]_vars

\* A round ends.  (A round that does not ends up in steps that change nothing.)
RoundEnds == round # Idle /\ fatal = None ~> round = Idle \/ fatal # None

\* What is queued is sent: once no more comes, buffers and frames are emptied.
NothingWaits == /\ \A c \in Connections : buffer[c] = <<>>
                /\ \A s \in Slices : ~HasFrame(s)
EverythingIsSent == <>[]NothingWaits
=============================================================================
