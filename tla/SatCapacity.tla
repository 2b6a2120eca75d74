---------------------------- MODULE SatCapacity ----------------------------
(***************************************************************************)
(* Capacity on demand on the return link: a UT asks for capacity, the beam *)
(* scheduler of the NCC allocates slots and announces them in a TBTP, and  *)
(* the UT fills the slots from its queues.  Requests and TBTPs travel over *)
(* a satellite link and may be lost.                                       *)
(*                                                                         *)
(* The requests are control messages, and these go first in every slot: a  *)
(* slot that the request manager counts in full carries less user data     *)
(* when there are some.                                                    *)
(*                                                                         *)
(* All slots carry the same payload, and all control messages are of one   *)
(* size.  What the frame allocator grants is any number of slots that the  *)
(* services asked for.                                                     *)
(***************************************************************************)
EXTENDS SatDamaEntry, SatRequestManager

CONSTANTS
  SlotPayload,   \* payload of the waveform of a slot, bytes
  SlotOverhead,  \* FPDU header and RLE headers of a slot, bytes
  ControlSize,   \* size of a control message, bytes
  PacketSizes,   \* sizes of the packets from the upper layer, bytes
  MaxPackets,    \* bound: packets that arrive
  MaxCrs,        \* bound: requests that wait to be sent or are on their way
  MaxReports,    \* bound: control messages other than requests
  MaxTbtps,      \* bound: TBTPs on their way
  MaxSlots,      \* bound: slots of a service granted at once, and not used yet
  MaxFaults      \* bound: messages lost

ASSUME CapacityAssumption ==
  /\ SlotOverhead \in Nat
  /\ SlotPayload \in Nat
  /\ SlotPayload > SlotOverhead
  /\ ControlSize \in Nat \ {0}
  /\ PacketSizes \subseteq Nat \ {0}
  /\ {MaxPackets, MaxCrs, MaxReports, MaxTbtps, MaxSlots, MaxFaults} \subseteq Nat

VARIABLES
  controlQueue,    \* the queue of CONTROL_FID, whose messages are not cut
  crChannel,       \* requests on their way
  tbtpChannel,     \* TBTPs on their way, each as Rc -> number of slots
  slots,           \* Rc -> slots that the MAC has scheduled and not used yet
  packets,         \* packets that arrived
  reports,         \* control messages that are no requests
  faults,          \* messages lost
  takenByControl   \* history: service of volumes -> the bytes of control messages in
                   \* its slots since the queue was empty or asked for as a whole

linkVars == <<controlQueue, crChannel, tbtpChannel, slots, packets, reports, faults, takenByControl>>
vars == <<damaVars, managerVars, linkVars>>

VolumeRc == {rc \in Rc : LlsConf[rc].volumeAllowed}

\* A control message is a request, or one that asks for nothing.
Report == [rc \in {} |-> 0]
Requests(messages) == SelectSeq(messages, LAMBDA message : message # Report)

Init ==
  /\ DamaInit
  /\ ManagerInit
  /\ controlQueue = <<>>
  /\ crChannel = <<>>
  /\ tbtpChannel = <<>>
  /\ slots = [rc \in Rc |-> 0]
  /\ packets = 0
  /\ reports = 0
  /\ faults = 0
  /\ takenByControl = [rc \in VolumeRc |-> 0]

PacketArrives ==
  /\ packets < MaxPackets
  /\ \E rc \in Rc, bytes \in PacketSizes : EnquePacket(rc, bytes)
  /\ packets' = packets + 1
  /\ UNCHANGED <<damaVars, controlQueue, crChannel, tbtpChannel, slots, reports, faults,
                 takenByControl>>

\* The periodical evaluation; a request that asks for nothing is not sent.
Evaluate ==
  /\ Len(Requests(controlQueue)) + Len(crChannel) < MaxCrs
  /\ \E cr \in {CapacityRequest} :
       /\ controlQueue' = IF cr = Report THEN controlQueue ELSE Append(controlQueue, cr)
       /\ DoEvaluation(cr)
  /\ takenByControl' = [rc \in VolumeRc |-> IF CountsAfresh(rc) THEN 0 ELSE takenByControl[rc]]
  /\ UNCHANGED <<damaVars, crChannel, tbtpChannel, slots, packets, reports, faults>>

Skip ==
  /\ SkipEvaluation
  /\ UNCHANGED <<damaVars, linkVars>>

\* A C/N0 report, or another control message, enters the queue.
SendReport ==
  /\ reports < MaxReports
  /\ reports' = reports + 1
  /\ controlQueue' = Append(controlQueue, Report)
  /\ UNCHANGED <<damaVars, managerVars, crChannel, tbtpChannel, slots, packets, faults,
                 takenByControl>>

\* A request arrives, not always in the order they were sent.
CrReceived ==
  /\ Len(m_crContainer) < MaxCrs
  /\ \E i \in DOMAIN crChannel :
       /\ AddCrMsg(crChannel[i])
       /\ crChannel' = RemoveAt(crChannel, i)
  /\ UNCHANGED <<managerVars, controlQueue, tbtpChannel, slots, packets, reports, faults,
                 takenByControl>>

\* The slots that carry this many bytes.
SlotsFor(bytes) == (bytes + SlotPayload - 1) \div SlotPayload

\* The beam scheduler's superframe: some of the slots asked for are granted.
Schedule(grant) ==
  /\ Len(tbtpChannel) < MaxTbtps
  /\ ScheduleUt([rc \in Rc |-> grant[rc] * SlotPayload])
  /\ tbtpChannel' = IF \A rc \in Rc : grant[rc] = 0 THEN tbtpChannel
                    ELSE Append(tbtpChannel, grant)
  /\ UNCHANGED <<managerVars, controlQueue, crChannel, slots, packets, reports, faults,
                 takenByControl>>

AssignedBytes(tbtp) == [rc \in Rc |-> tbtp[rc] * SlotPayload]

\* ScheduleTimeSlots: the slots of a TBTP are reported when it arrives.
TbtpReceived ==
  /\ tbtpChannel # <<>>
  /\ \A rc \in Rc : slots[rc] + Head(tbtpChannel)[rc] <= MaxSlots
  /\ AssignedDaResources(AssignedBytes(Head(tbtpChannel)))
  /\ slots' = [rc \in Rc |-> slots[rc] + Head(tbtpChannel)[rc]]
  /\ tbtpChannel' = Tail(tbtpChannel)
  /\ UNCHANGED <<damaVars, controlQueue, crChannel, packets, reports, faults, takenByControl>>

\* The control messages that a slot is filled with first: as many as fit, whole
\* and without a header.
ControlSent == AtMost(Len(controlQueue), SlotPayload \div ControlSize)

SendControl(sent) ==
  /\ controlQueue' = SubSeq(controlQueue, sent + 1, Len(controlQueue))
  /\ crChannel' = crChannel \o Requests(SubSeq(controlQueue, 1, sent))

\* The slot's own service is next, and what is left goes to the others, as the
\* policy is LOOSE.  Each service that is served takes a header.
Served(rc, room) == AtLeast(0, AtMost(room - SlotOverhead, queueBytes[rc]))

RoomAfter(bytes, room) == IF bytes = 0 THEN room ELSE room - SlotOverhead - bytes

ServedInOrder(order, payload) ==
  FoldLeft(LAMBDA done, rc : LET bytes == Served(rc, done.room)
                             IN  [room |-> RoomAfter(bytes, done.room),
                                  served |-> [done.served EXCEPT ![rc] = bytes]],
           [room |-> payload, served |-> [rc \in Rc |-> 0]], order).served

\* The others go in the order of what they were served so far, here in any.
Orders == SetToSeqs(Rc)

DoTransmit(own) ==
  /\ slots[own] > 0
  /\ slots' = [slots EXCEPT ![own] = @ - 1]
  /\ \E sent \in {ControlSent} :
       /\ SendControl(sent)
       /\ \E order \in Orders :
            /\ order[1] = own
            /\ \E bytes \in {ServedInOrder(order, SlotPayload - sent * ControlSize)} : Dequeue(bytes)
       /\ takenByControl' =
            [rc \in VolumeRc |-> IF queueBytes'[rc] = 0 THEN 0
                                 ELSE takenByControl[rc] + (IF rc = own THEN sent * ControlSize ELSE 0)]
  /\ UNCHANGED <<damaVars, tbtpChannel, packets, reports, faults>>

\* A slotted ALOHA slot carries control messages and nothing else.
DoSlottedAlohaTransmit ==
  /\ ControlSent > 0
  /\ SendControl(ControlSent)
  /\ UNCHANGED <<damaVars, managerVars, tbtpChannel, slots, packets, reports, faults, takenByControl>>

LoseMessage ==
  /\ faults < MaxFaults
  /\ faults' = faults + 1
  /\ \/ /\ \E i \in DOMAIN crChannel : crChannel' = RemoveAt(crChannel, i)
        /\ UNCHANGED <<damaVars, tbtpChannel>>
     \/ /\ tbtpChannel # <<>>
        /\ tbtpChannel' = Tail(tbtpChannel)
        /\ UNCHANGED <<damaVars, crChannel>>
     \/ /\ m_crContainer # <<>>
        /\ ClearCrMsgs
        /\ UNCHANGED <<crChannel, tbtpChannel>>
  /\ UNCHANGED <<managerVars, controlQueue, slots, packets, reports, takenByControl>>

\* All that was asked for is granted, as far as it fits.
FullGrant == [rc \in Rc |-> AtMost(MaxSlots, SlotsFor(CapacityRequested(rc)))]

ScheduleAll == \E grant \in {FullGrant} : Schedule(grant)

ScheduleSome ==
  \E most \in {FullGrant}, grant \in [Rc -> 0 .. MaxSlots] :
    (\A rc \in Rc : grant[rc] <= most[rc]) /\ Schedule(grant)

Next ==
  \/ PacketArrives
  \/ Evaluate
  \/ Skip
  \/ SendReport
  \/ CrReceived
  \/ ScheduleSome
  \/ TbtpReceived
  \/ \E rc \in Rc : DoTransmit(rc)
  \/ DoSlottedAlohaTransmit
  \/ LoseMessage

Spec == Init /\ [][Next]_vars

(***************************************************************************)
(* Evaluations and superframes are periodic, messages arrive, and slots    *)
(* are used.  The other UTs of the beam leave this one what it asks for,   *)
(* and slotted ALOHA carries its control messages, again and again.        *)
(***************************************************************************)
Fairness ==
  /\ WF_vars(Evaluate)
  /\ WF_vars(CrReceived)
  /\ WF_vars(TbtpReceived)
  /\ WF_vars(\E rc \in Rc : DoTransmit(rc))
  /\ WF_vars(DoSlottedAlohaTransmit)
  /\ SF_vars(ScheduleAll)

FairSpec == Spec /\ Fairness
-----------------------------------------------------------------------------
\* The request manager asks only when bytes come in or when something is
\* pending, and takes a slot to carry all of its payload.  So what neither is the
\* case for must fit into the slots that it has been assigned, or it waits for
\* the next packet, however long that takes: the over-estimation must cover the
\* overhead of every slot, and no more may wait than control messages took.
BacklogIsAskedFor ==
  \A rc \in VolumeRc :
    volumeIn[rc] = 0 /\ m_pendingVbdcBytes[rc] <= m_assignedDaResourcesBytes[rc] =>
      queueBytes[rc] <= slots[rc] * (SlotPayload - SlotOverhead) + takenByControl[rc]

\* Whatever requests and TBTPs are lost, every byte of a service of rates is
\* transported, and every byte of a service of volumes but for as many as control
\* messages took from its slots.
BacklogServed ==
  /\ \A rc \in Rc \ VolumeRc : []<>(queueBytes[rc] = 0)
  /\ \A rc \in VolumeRc : []<>(queueBytes[rc] <= takenByControl[rc])

\* Once the queues stay empty, the NCC keeps no request alive: what a lost or
\* repeated request left over is worked off or expires.
CapacityReleased ==
  <>[](\A rc \in Rc : m_dynamicRateRequested[rc] = 0 /\ m_volumeBacklogRequested[rc] = 0)
=============================================================================
