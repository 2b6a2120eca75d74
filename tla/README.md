# TLA+ verification of SNS3, the satellite network simulator

SNS3 simulates a GEO multi-spot-beam satellite system on ns-3: user terminals
(UTs), a bent-pipe satellite, gateways (GWs) and one network control center
(NCC). Everything runs in one thread as events of a discrete-event simulator.
What is concurrent is the *protocol*: messages take time, are lost, and arrive
in any order, timers fire in between, and every node acts on what it last
heard. That is what these modules model. One action is one event handler with
all the calls it makes.

Contents: 1 the system · 2 how the project is built · 3 ARQ · 4 handover and
logon · 5 encapsulation · 6 capacity · 7 allocation · 8 random access ·
9 reception of random access · 10 forward link · 11 what is proved ·
12 what is only model-checked · 13 findings · 14 what is not modelled. `PROJECT.json` gives, for each definition,
the lines it models.

## 1. The system

Paths are under `src/model/`.

| Component | State it keeps | Operations | Interacts with | What is hard, what must hold |
|---|---|---|---|---|
| Encapsulators (GSE forward, RLE return) | one queue and fragment id, one reassembly context per id | `EnquePdu`, `NotifyTxOpportunity`, `ReceivePdu` | LLC above, MAC scheduler below | fragment ids and length fields wrap, fragments are lost; a reassembled packet is the one that was cut |
| ARQ encapsulators | windows, two transmit buffers, reordering buffer, timers | the same and `ReceiveAck`, two timer handlers | peer encapsulator over the link, ACKs as control messages | loss, reordering, late ACKs, numbers that wrap; in-order delivery at most once, all buffers drain |
| Queue (`satellite-queue`) | packets, byte and statistics counters | enqueue, dequeue, push front | MAC through queue events | full queue, statistics over intervals |
| UT MAC (`satellite-ut-mac`) | handover state, TBTPs, logon state, RA state | frame start, slots, signalling handlers | all of the below | each message may be late or lost; which slot may carry what |
| UT handover module | asked beam, pending flag, time of last message | `CheckForHandoverRecommendation` | UT MAC, request manager | repeat until answered, and not once it is answered |
| Request manager, DAMA entries | RBDC/VBDC pending counters, C/N0 samples | evaluation timers, capacity requests, persistence | UT MAC, beam scheduler | two ends count the same bytes; requests are lost; quantisation |
| Beam scheduler, superframe and frame allocators | UT infos, RA channels, load, frames and carriers | once a superframe: schedule, TBTPs, transfer of UTs | NCC, GW MAC | no slot twice, no UT over- or under-served, no UT lost in a transfer |
| TBTP container (UT) | up to 100 TBTPs by start time | add, find slots, remove past | UT MAC | a TBTP replaced or found late |
| Random access container | back-off, replicas, RA configuration | RA triggers, load control | UT MAC, NCC | probabilities and limits change while transmissions are scheduled |
| NCC | beam schedulers, load control states | handover, logon, CR and C/N0 dispatch | beam schedulers, GW MACs | agrees with each UT on its beam, with messages in flight |
| Control message containers | messages by wrapping id, with store times | reserve, send, read | all MACs | read after removal is a fatal error |
| Forward link scheduler, BBFrame containers | frames being filled per MODCOD | once a period: fill, merge, shape | GW LLC, GW MAC | symbols left, frames dropped |
| LLC, net devices, classifier | encapsulators and queues by address and flow | enqueue, notify, receive | encapsulators, routing | packets reach the right encapsulator after a handover |
| PHY reception | packets being received, per-slot replicas | start/end of reception, CRDSA cancellation | channel, MAC | collisions and what is decoded, once |
| Beam switching (BSTP) | position in the configuration table | next configuration | GW MACs | enabled beams, wrap of the table |
| LoRaWAN end device | receive windows, retransmission parameters | send, windows, ACK | network server | windows and retransmissions against a late answer |
| Fading, propagation, antenna gains, waveforms | tables, Markov states | lookups | PHY | floating point |
| Mobility, id mapper, tags, traces, helpers, statistics | tables | lookups, output | – | – |

How they interact. On the return link a UT's packets go LLC → encapsulator →
(slot of a TBTP, or random access) → GW MAC → encapsulator. The slots come from
the beam scheduler, which learns what UTs need from capacity requests. Control
messages are stored in a container and travel as an id in a packet tag. On a
handover the UT asks (handover recommendation), the NCC moves the UT from one
beam scheduler to another and answers with a TIM-U, and the UT retunes at its
next frame start and waits for a first TBTP of its new beam.

## 2. How the project is built

Each component has a module of its own, with its state, one action for each
handler and no message in it; a link module composes the components that
talk to each other and adds the messages on their way, with losses. Modules named
`MCSat...` give the constants values and bounds for TLC, modules named
`Sat...Proofs` hold theorems. There are twelve runs, one for each question:

| Run | Module | What it asks |
|---|---|---|
| `arq_sender` | `MCSatArqSender` | do the transmitter's window, buffers, timers and counters agree, and does it drain |
| `arq_link` | `MCSatArqLink` | do both ends, over a lossy link, implement an in-order service in which no gap lasts |
| `handover` | `MCSatHandover` | do UT and NCC agree on the UT's beam while messages are late and lost |
| `logon` | `MCSatHandover` | does a UT that logged off get back, and is it held all the time |
| `encapsulation_link` | `MCSatEncapsulationLink` | do fragments make whole packets, and do the counters fit |
| `capacity` | `MCSatCapacity` | is what waits at a UT asked for, served, and released |
| `allocation` | `MCSatSuperframeAllocator` | is a superframe laid out without clashes, within its load, and as granted |
| `random_access` | `MCSatUtAccess` | does a UT transmit one burst at a time and keep its limits |
| `random_access_tx` | `MCSatUtAccess` | finding: two TBTPs of one superframe |
| `ra_reception` | `MCSatRaReception` | is each burst judged by the right interference, and handed up once |
| `forward_link` | `MCSatForwardLink` | are BBFrames built, merged and sent without loss, in time and decodable |
| `forward_link_arq` | `MCSatForwardLink` | finding: a scheduling round that does not end |

The plan was written with the hazards in mind that `PROJECT.json` lists. Done, in
this order: ARQ; handover and logon; encapsulation; capacity and allocation; random
access; forward link; the reception of random access. What could follow: control
message containers composed with the delays of the links, and carriers whose
configuration changes from one superframe to the next (section 14).

## 3. ARQ

| Module | Models |
|---|---|
| `StdMap` | the operations of `std::map` the code uses; `insert` keeps an existing entry |
| `SatArqNumbers` | the constants both ends share |
| `SatArqSequenceNumber` | `satellite-arq-sequence-number.cc` |
| `SatArqSender` | the transmit half of `satellite-generic-stream-encapsulator-arq.cc` and `satellite-return-link-encapsulator-arq.cc`, which are one algorithm |
| `SatArqReceiver` | the receive half of both |
| `SatArqLink` | the two, with a link that loses and reorders PDUs and ACKs |
| `SatDeliveryService` | what the layer above is promised |
| `MCSatArqSender`, `MCSatArqLink` | instances for TLC, with their bounds |

*State.* `m_txedBuffer` and `m_retxBuffer` map the one-byte number of the
header to a context, as in the code. A PDU *is* the continuous number it is sent
with, so that the model can tell two PDUs with the same byte apart although the
code cannot. `waitingTimers` are the scheduled retransmission events, each with
the PDU it was started for. `stream` is a history variable: what `ProcessPdu`
was given for each number. The sizes of packets and transmission opportunities
are inputs; fragmentation is a nondeterministic payload size.

*Actions.* `EnquePdu`, `Retransmit` and `TransmitNew` (the branches of
`NotifyTxOpportunity`), `ReceiveAck` with `CleanUp` and `Release`,
`MoveToRetxBuffer` and `GiveUp` (`ArqReTxTimerExpired`), `ReceiveOld`,
`ReceiveExpected`, `ReceiveAhead` (`ReceivePdu`) and `RxWaitingTimerExpired`, both
of the latter through `ReassembleAndReceive`. Where the code has a fatal error
or a branch for an impossible case, an invariant says it is not reached.

*Bounds.* The code counts modulo 255 with windows of 10. The runs use number
spaces of 3 to 6 and windows of 1 to 3, the smallest that satisfy the assumptions,
so that the numbers wrap two or three times within the bound. `FirstSn` starts a
connection that has already used numbers. `LastSn` bounds the numbers handed out,
`MaxQueueBytes` the queue, `MaxInChannel` the messages in one direction.

| Run | Shows |
|---|---|
| `arq_sender` | The ACKs are any one-byte number of the last cycle at any time. `SenderConsistent`: the window is an interval, it agrees with the contexts in the two buffers and these with the timers, and retransmissions are bounded. The byte count is right (`RetxBytesExact`). Even if no ACK ever comes, each PDU is resolved and the queue is emptied again and again (`EveryPduResolved`). |
| `arq_link` | `ConversionExact`: the receiver takes a one-byte number for the number it is. `NothingLetGoEarly`: no PDU is released by the ACK of another. `ImplementsService`: the link implements `SatDeliveryService`. `ReceiverConsistent`: the buffer is free of gaps, timers run for exactly the missing numbers, which makes the fatal error of `RxWaitingTimerExpired` unreachable, and each number is decided once and in order; the theorems of section 11 show this, and that what was processed stays (`StreamOnlyGrows`), for any number at any time, and the other three properties for all windows and number spaces. `ReorderingEnds`: nothing received waits for ever. |

*What the link assumes of time.* `InStep`: a new PDU is at most two windows ahead
of the number the receiver expects. `InTime`: no copy arrives more than two windows
late. `AckInTime`: no ACK takes a whole cycle of numbers. Nothing in the code
enforces these; the default timers and window (10 of 255) make them plausible
on a link with few losses. Section 13 says what happens without the first.

*Fairness.* A timer that is scheduled fires, since the simulator runs every
event. A transmission opportunity large enough for any PDU recurs as long as
bytes are pending, since the MAC schedulers go on serving a non-empty buffer.
There is no fairness on arrivals or ACKs.

*Deadlock* is not checked in these runs: a connection may be idle for ever,
and the bounds on numbers stop the transmitter.

## 4. Handover and logon

| Module | Models |
|---|---|
| `SatUtHandoverModule` | `satellite-ut-handover-module.cc` and the recommendation part of `satellite-request-manager.cc` |
| `SatNcc` | `MoveUtBetweenBeams`, `DoMoveUtBetweenBeams`, `AddUt` of `satellite-ncc.cc`; `HasUt`, `SendTo`, `TransferUtToBeam` of `satellite-beam-scheduler.cc` |
| `SatHandover` | the UT MAC's frame start, slots and signalling handlers, the GW MAC's handlers, the UT PHY's retuning, and the messages on the air |
| `MCSatHandover` | the instances for TLC |

*State.* One UT; other UTs matter only in that a beam with UTs sends TBTPs
(`Populated`). `m_utInfos` is the set of beams whose scheduler holds the UT. The
antenna patterns are reduced to `Valid` and `Best`, the beams of acceptable and
of highest gain at a position. Superframes are counted relative to the UT's
current one (`in = n`: n superframes from now), which makes the state space
finite. `slots` are the scheduled `DoTransmit` events, which, as in the code,
outlive the TBTP container that `ApplyTimu` clears. Time otherwise is a choice:
`timedOut` and `logonWait` turn at any time the assumptions allow. `aborted` records
which `NS_FATAL_ERROR` or failed assertion ended the simulation.
`m_hasPendingRequest` starts with any of `PendingInit`, since the constructor in use
does not initialise it.

*Actions.* `DoFrameStart` is one action with five alternatives, the branches of
the handler: `ApplyTimu`, `CheckBeam`, `GiveUp` (log off), `SendLogon`,
`TxDisabled`. `DoTransmit` and `DoSlottedAlohaTransmit` send what the slot takes of
the control queue; `RegularScheduling` says whether user data would go too.
`ReceiveTbtp`, `ReceiveTimu`, `ReceiveLogonResponse`, `ReceiveHandoverRecommendation`
and `ReceiveLogon` are the signalling handlers, `Schedule` and `TransferUt` the
events of beam schedulers and NCC, `Move`, `RequestTimeout`, `LogonTimeout` and
`Lose` the environment.

*Assumptions on time*, each a constant that a run can turn off:

- `Prompt`: the UT is slow and timers are long compared with a round trip. The UT
  does not move and a request does not time out while one is under way, and no
  logon is repeated while the first or its answer is. The default repeat timeout
  is 600 ms, a round trip 500 ms; a handover takes the UT across a beam
  border every few minutes.
- `Aligned`: the TBTPs that all beams send for a superframe reach the UT between
  the same two frame starts. All schedulers run at the same instant; a TBTP is
  sent `Offset` superframes ahead.
- `HandoverDelay`: whether `m_utHandoverDelay` is more than zero. If it is zero, the
  transfer is the next event (`Running`).
- `MaxLoss` bounds the messages of each kind that are lost; `MaxHr` the
  recommendations under way when one more is due.

The two of the files that give these values are `MCSatHandover.cfg` and
`MCSatLogon.cfg`.

| Run | Shows |
|---|---|
| `handover` | Three beams, two GWs, one lost recommendation, one lost TBTP, both RA techniques. No fatal error (`NoFatal`); exactly one scheduler holds the UT (`ExactlyOneBeam`); a UT in a beam that does not hold it has the TIM-U on its way (`UtFollowsNcc`); user data never uses slots another beam allocated (`NoDataInForeignSlots`); a UT that stops moving ends in a beam that covers it (`HandoverCompletes`). |
| `logon` | Log-off after too many recommendations and logon in the new beam, with a recommendation and a logon lost and an NCC that delays its transfers: a UT in a beam that does not hold it is asking for the one that does, or is awaited there (`UnheldUtIsAsking`); doubled and late transfers and second logons never take the UT out of the last scheduler that holds it (`NeverForgotten`); the UT gets logged on (`LogonSucceeds`). |

*The pending flag* starts as false. With true, a UT that leaves its beam before it
ever checked its coverage asks for beam 0, the NCC cancels, and the UT is stuck
(section 13), so `HandoverCompletes` and `LogonSucceeds` would fail for that reason
alone.

*Why the bounds are enough.* Three beams are the least for a UT that changes its
mind about where to go, two gateways for both a handover within a GW and one
between two. `Offset = 2` lets slots of the old beam be pending for two superframes
after the retune. One loss of a kind makes every message of that kind the lost one
in some behaviour. No TIM-U is lost in `handover`: a TIM-U that is lost leaves
the UT in a beam that no longer holds it, and nothing but a request answered in that
beam brings it back; `UtFollowsNcc` is then false at once, and `NoFatal` is false when
the UT then moves on to a third beam.

*Fairness.* Weak fairness on each event of the simulator and each delivery: what
is scheduled is run and what is not lost arrives. `RequestTimeout` and
`LogonTimeout` are the passing of time. None on `Move` and `Lose`.

*Deadlock* is checked in `handover`. In `logon` a fatal error of the NCC can end the
simulation, which is a state with no successor.

## 5. Encapsulation

| Module | Models |
|---|---|
| `SatQueue` | `satellite-queue.cc`, with the statistics the request manager reads |
| `SatEncapsulator` | `satellite-generic-stream-encapsulator.cc` (GSE) and `satellite-return-link-encapsulator.cc` (RLE), with the headers of `satellite-gse-header.cc` and `satellite-rle-header.cc` |
| `SatEncapsulationLink` | the encapsulators at both ends of a connection and a link that loses PDUs |
| `SatDeliveryService` | what the layer above is promised, as in section 3 |
| `SatDedicatedAccessProofs` | the theorems, with those on the superframe (section 11) |
| `MCSatEncapsulationLink` | the instances for TLC |

*State.* A packet is the number of its turn in `accepted`, and a piece of it is an
interval of its bytes (`from`, `size`), so that the model can tell what a
reassembled packet is made of although the code only counts bytes. The two
encapsulators are one algorithm; `encapsulation` holds what differs: header
sizes by status, the largest PDU, the number of fragment ids, the widths of the
length field, and whether the payload is computed again for the larger header of
a fragment (RLE). `totalLengths` is where the header's total length wraps.
`accepted`, `fragmented`, `delivered`, `damaged`, `lostInRow` and the
`nBytesAtReset` of the queue are history variables.

*Actions.* `Enque`; `NotifyTxOpportunity`, which is `SendRest` or `SendFragment`
with `DequeueAndPushFront`; `Arrive`, which is one of `ReceiveFull`,
`ReceiveStart`, `ReceiveContinuation`, `ReceiveEnd`; `Lose`; `ReadStatistics`. A
packet too large for `EnquePdu` ends the simulation and is not an input; a full
queue drops what comes, which changes nothing the model holds. The statistics are
read at positive intervals.

*What is assumed of the link.* It keeps the order of PDUs, as dedicated slots and
BBFrames do, and loses at most `MaxBurst` in a row, less than two rounds of
fragment ids (`BurstAssumption`: 15 PDUs with RLE, 511 with GSE). Nothing in the
code enforces that; the bound is exact. A packet that is cut takes at
least two PDUs, so after `2 * maxFragmentId` losses the end of a packet can have
the id of another whose start was received, and if the sizes agree the two
are joined: TLC finds it with `MaxBurst = 4` for two ids.

| Run | Shows |
|---|---|
| `encapsulation_link` | `NothingVanishes` and `EveryPacketResolved`: a packet none of whose PDUs is lost comes out. `QueueBytesExact` and `StatisticsBalance`: the bytes the UT asks capacity for are those it holds, however segments are cut and pushed back. `ImplementsService`: what comes out is whole packets, in order, at most once. |

*Bounds.* Two fragment ids, three packets and bursts of three PDUs: the ids repeat,
and a burst can take the end of the first packet and all of the second, but not
the start of the third with them, whose id is that of the first. Opportunities of two to four bytes,
with headers of one and two, cut a packet of four bytes into two, three or four
PDUs; one of two bytes is too small for a GSE packet, and in RLE it holds a
packet of one byte but no first fragment. `MaxOnAir = 2` is enough since `Lose` and `Arrive`
only look at the oldest PDU.

*Fairness.* What is on its way is lost or arrives. Opportunities of the largest size
recur, since the MAC schedulers serve a queue that is not empty; the small ones
in between carry no fairness. *Deadlock* is not checked: a connection may be
idle for ever.

## 6. Capacity on demand

| Module | Models |
|---|---|
| `SatLowerLayerService` | `satellite-lower-layer-service.h`: what a request class (RC) may ask for |
| `SatRequestManager` | the evaluation of `satellite-request-manager.cc` (RBDC, VBDC, quantisation, counters of what is pending and assigned) and the queue statistics it reads |
| `SatDamaEntry` | `satellite-dama-entry.cc` and the part of `SatUtInfo` of `satellite-beam-scheduler.cc` that takes requests |
| `SatCapacity` | the two over a link: requests, TBTPs, slots, and the UT scheduler of `satellite-ut-scheduler.cc` that fills slots |
| `SatReturnLinkProofs` | the theorem that no backlog is forgotten (section 11) |
| `MCSatCapacity` | the instance for TLC |

*State.* `queueBytes` and `volumeIn` stand for a queue: its size and its statistic.
`controlQueue` is the queue of `CONTROL_FID`, in which a capacity request waits with other
control messages (C/N0 reports, say). The other variables are the code's. `slots` are the
dedicated slots the UT has been told of and not used. `takenByControl` is a history: how many
bytes control messages took of a service's slots since its queue was empty or was asked
for as a whole. Time is counted in evaluation intervals, as long as a
superframe; a rate is in bytes per interval. Widths of 16 bits are `W16`.

*Actions.* `PacketArrives` (`SatLlc::Enque`), `Evaluate` and `Skip` (an evaluation, or
none because no control message can be sent), `SendReport` (another control message enters
the control queue), `CrReceived`, `Schedule` (the superframe of the
beam scheduler: entries updated, backlogs reduced, persistence counted down), which
grants any part of what the entries ask for, `TbtpReceived`, `DoTransmit` (one slot:
control messages first, as many as fit whole, then its own RC, then the others in any
order, as the policy is LOOSE), `DoSlottedAlohaTransmit` (a random access slot, for control
messages only), and `LoseMessage`. When a TBTP is received its slots are counted as
assigned with their whole payload, whatever control messages then take from them.

*Left out.* Control messages are of one size, and a random access slot holds as much as a
dedicated one. Slots that the NCC assigns to the control flow (its constant rate) carry control
messages as a random access slot does; what they have left for user data, user data in CRDSA
bursts, and slots lost because the UT retunes are not in the module. The first two
only empty queues sooner; a lost slot would leave its bytes behind as control messages do.

| Run | Shows |
|---|---|
| `capacity` | `BacklogIsAskedFor`: when nothing is pending and nothing has come in, so that the UT asks no more, what it still holds fits into the slots it has, but for as many bytes as control messages took of them. `BacklogServed`: a queue of rates is emptied again and again, and a queue of volumes comes down to what control messages took, whatever is lost. `CapacityReleased`: no request outlives the queue it was made for. |

*Bounds.* One volume-based and one rate-based RC. Either alone with two packets of
three bytes in slots of three bytes with a byte of overhead, so that a packet always
leaves a rest; one loss of a request or a TBTP, evaluations that are skipped,
grants of any part; or both together with full grants, since the slot of
one then serves the other. `OverEstimation` is two, which covers the overhead: a
smaller factor leaves bytes that nobody asks for (section 13). The RBDC gain is one.
Control messages are of one byte, so that a slot holds one and a part of a packet. With one
RC the only control messages are requests; with both there is one report, made while a
TBTP is on its way, so that it meets a slot. Random access serves a UT that has no slot
and no TBTP on its way: at other times it would only take the requests ahead of the slots.

*Fairness.* Evaluations and superframes are periodic, messages arrive if they are not
lost, slots are used. `SF(ScheduleAll)`: the other UTs of the beam leave this one
what it asks for again and again. Without it a beam can be full for ever. Random access
carries control messages if nothing else does (`DoSlottedAlohaTransmit`): a UT without slots
would otherwise never get its request away.
*Deadlock* is not checked: bounded packets and losses.

## 7. Allocation of a superframe

| Module | Models |
|---|---|
| `SatFrameAllocator` | `satellite-frame-allocator.cc`: acceptance of requests, cut to a carrier, sharing by category |
| `SatTimeSlots` | its `GenerateTimeSlots`, one step for each turn of the loop, and TBTPs of a limited size, with `AddRaChannels` of the beam scheduler |
| `SatSuperframeAllocator` | `satellite-default-superframe-allocator.cc` and `Schedule` of `satellite-beam-scheduler.cc`: admission by minimum rate, allocation of UTs to frames and levels, the order of all steps of a superframe |
| `MCSatSuperframeAllocator` | the instance for TLC |
| `SatDedicatedAccessProofs` | the theorems, with those on the encapsulation (section 11) |

*State.* Requests and allocations are in symbols; the RA channels and the sizes of
TBTPs are counts. Shuffles are any order, the C/N0 of a UT any set of frames it has a
waveform for. `denied` is `m_allocationDenied` of all frames: `RemoveAllocations` clears it when a
superframe begins, and `PreAllocateSymbols` sets it once the symbols are shared, after which a
frame accepts no request and shares no more until the next superframe.

| Run | Shows |
|---|---|
| `allocation` | `SlotsDoNotClash`: no two slots of a carrier overlap, nor two of a UT, and each ends with its carrier. `WithinTargetLoad`: what is granted in a frame stays within the target load whichever category is shared. `TbtpsFit`: no TBTP outgrows a BBFrame. `GrantsAreServed`: as long as a carrier is left each UT and RC gets its grant, but for the ends of carriers. `UtLoopEnds`: each turn of the `while` without a bound uses up time or an RC. |

*Bounds.* Three UTs, one with a constant and two with a minimum rate, two frames of
two carriers of seven symbols, bursts of two and three, two RCs that ask for zero or
more than half a carrier, TBTPs that hold a few slots, two RA channels. Then all
levels of acceptance, all four shares, full carriers, rests of one symbol and several
TBTPs for a frame occur. Only one UT has control slots, a superframe starts with
all UTs or that one, and one UT is allocated last: symmetric cases are left out.

## 8. Random access

| Module | Models |
|---|---|
| `SatRandomAccess` | `satellite-random-access-container.cc`: back-off, limits of consecutive and idle blocks, the slots of CRDSA replicas |
| `SatUtAccess` | the transmissions of `satellite-ut-mac.cc`, random and dedicated, the TBTP container, the transmitter of `satellite-phy-tx.cc`, and the load control of `satellite-ncc.cc` |
| `SatUtAccessProofs` | theorems: back-off, rate limit, CRDSA beside dedicated slots (section 11) |
| `MCSatUtAccess` | the instances for TLC (`MCSatUtAccess.cfg`, `MCSatUtAccessTbtps.cfg`) |

*State.* The simulator's queue is a variable: `events`, in the order of their times
and, for the same time, of their scheduling, which decides what happens at the
start of a superframe. Time is in slots from the start of the superframe the UT is
in. `row` and `owed` are history variables, which count superframes with CRDSA and
superframes to leave idle without looking at the code's counters. `fatal` is the
error the simulation ended with.

*Actions.* One for each event (`DoFrameStart`, `DoTransmit`, `TransmitPackets`,
`ScheduleSlottedAlohaTransmission`, `DoSlottedAlohaTransmit`, `ScheduleEssaTransmission`,
`DoEssaTransmit`, `DoRandomAccess`), `Enque`, `ReceiveTbtp`, `LoadControl` and
`ReceiveRaMessage`, and `Tick`, when nothing is due.

| Run | Shows |
|---|---|
| `random_access` | Slotted ALOHA, CRDSA, RCS2 and ESSA. `CrdsaTransmitsAlone`: replicas never meet a dedicated slot or each other, whatever TBTPs come during the superframe. `RateLimited`: after its maximum of superframes in a row the UT leaves the channel idle, also when another channel has a longer limit. `BackoffFollowsLoad`: with no message on its way the UT backs off as the NCC wants. |
| `random_access_tx` | Finding: with two TBTPs of a superframe `OneTransmissionAtATime` fails with CRDSA alone. |

*Bounds.* Superframes of four slots, two replicas of up to two packets, which is all of
a superframe; TBTPs one superframe ahead with a slot of the UT; channels with limits
of two and three. The load changes at the start of a superframe on one channel. A
fatal error ends the simulation, so *deadlock* is not checked: slotted ALOHA reaches one
(section 13). There is no liveness here: nothing in random access promises success.

## 9. Reception of random access

| Module | Models |
|---|---|
| `SatInterference` | `satellite-interference.cc`, `satellite-per-packet-interference.cc`, `satellite-per-fragment-interference.cc`: the changes of power on a carrier, collisions, and what a packet suffers over its time |
| `SatPhyRxCarrier` | what carriers share: start and end of a reception, the test against the link results (`satellite-phy-rx-carrier.cc`) |
| `SatPhyRxCarrierPerFrame` | slotted ALOHA (`-per-slot.cc`), CRDSA with its container of replicas and successive interference cancellation (`-per-frame.cc`), MARSALA (`-marsala.cc`), and `satellite-perfect-interference-elimination.cc` |
| `SatPhyRxCarrierPerWindow` | ESSA: the sliding window of `satellite-phy-rx-carrier-per-window.cc` |
| `SatRaReception` | a carrier with one of the four access protocols, the UTs that send on it, and the properties |
| `SatRaReceptionProofs`, `SatReturnLinkProofs` | the theorems that the three properties hold (section 11) |
| `MCSatRaReception` | the instance for TLC |

*State.* A burst is who sends it, when, in which slot, and the slots of all replicas
of its packet, which the code carries in a tag. The containers are the code's. Energies
are integers, power times ticks, so that cancellation is exact; the code's floating point
sums are not. `bursts`, `handedUp`, `combinedPackets` with what was decoded, and
`decoded` are history variables: the properties work out from them what the
interference ought to be, without looking at the receiver's own account of it.

*Actions.* `BeginFrame` chooses what all UTs send in a frame, `BurstArrives` and
`EssaBurstArrives` are `StartRx`, `ReceiveSlot` and `ReceiveEssa` are `EndRxData` with the
`ReceiveSlot` of the carrier. `DoFrameEnd` is one event of the simulator and a sequence of
steps here, at one instant: `SicTurn` for each packet tried, `SicEnds`, `MarsalaDecodes`,
`MarsalaEnds`, `CleanUp` for each packet given up, `HandUpResults`. So is `ProcessWindow`
with `DecodeTurn` and `HandUpTreated`; `DoWindowEnd` schedules it. The link results decide
for sure above one SINR and below another, and either way between them. Reaching a
fatal error of the source sets `fatal`.

| Run | Shows |
|---|---|
| `ra_reception` | `InterferenceIsExact`: what a waiting packet is judged by is at any time the energy of the other bursts that are not decoded yet, for replicas, for packets that overlap in part, and for those that end after others were decoded. `OutcomeJustified`: when a frame or window is done, nothing is left that would surely be decoded with all decoded bursts gone, and nothing was decoded that could not be: the order in which packets are tried does not matter. `HandedUpOnce`: each packet of the beam comes up once from a frame, in the order of its UT's numbers, and the search for replicas never fails; with ESSA a decoded packet comes up once as good, and never as failed after that, and cancellation ends the simulation only if a burst ends at the instant at which another begins or ends (section 13). |

*Bounds.* A strong and a weak UT of the beam and a weaker one of another beam on the
same carrier. Four slots, two replicas, two packets of the strong UT and one of each
other, then a second frame, for what the first leaves behind; with ESSA two packets of each
UT of the beam, one of the other, in windows of two packets that move by one. The levels are such that the
strong UT is decoded through one other, may be through both, and the weak one
only once the strong one is gone: chains of cancellation of every length the number of packets
allows, MARSALA's combination of replicas neither of which can be decoded alone, and
packets that fail in one window and are decoded in the next. All bursts of ESSA last
equally long, since it has a single waveform. There is no liveness: a burst
may be lost. *Deadlock* is not checked, since the run ends after two frames or at `Horizon`.

*What is assumed.* Slots have a guard time (`FrameAssumption`), and ESSA's window holds a
packet and a step (`WindowAssumption`): with others, as a comment of the source warns
(`satellite-phy-rx-carrier-per-window.cc:202`), decoded packets may be gone before those they
disturbed arrive. CRDSA with the collision model of a constant
probability ends the simulation in the source and is no configuration here.

## 10. The forward link

| Module | Models |
|---|---|
| `SatBbFrameContainer` | `satellite-bbframe.cc`, `satellite-bbframe-container.cc`: frames that are filled, merged, extended, shrunk |
| `SatForwardLink` | `satellite-fwd-link-scheduler-default.cc`, `satellite-fwd-link-scheduler-time-slicing.cc`, the frame loop of `satellite-gw-mac.cc`, the encapsulators as they answer transmission opportunities, and the UTs' slice subscriptions |
| `MCSatForwardLink` | the instances for TLC (`MCSatForwardLink.cfg`, `MCSatForwardLinkArq.cfg`) |
| `SatForwardLinkProofs` | theorems (section 11) |

*State.* A PDU in a frame has the connection it is of and the MODCOD it was scheduled for. A
round of the scheduler is one event of the simulator; its turns are steps, `round` is
where it is, so that a round that does not end is a behaviour and not an undefined
value. Packets, reports and ACKs come between rounds. `subscribed`, `missed` and
`overtaken` are history variables: the UTs that have been told of their slice, those that got
data in a slice nobody had told them of, and those whose message was still waiting when a merge
reopened the round (section 13). Time is kept as what is left
until the next frame and the next periodic round.

*Actions.* `Enque`, `ReceiveAck`, `CnoInfoUpdated`; `PeriodicTimerExpired`,
`RunRescheduled` and `StartTransmission` start a round, `NextObject`, `TxOpportunity` and
`MergeFrames` are its turns, `SendFrame` takes a frame and sets the next
`StartTransmission`.

| Run | Shows |
|---|---|
| `forward_link` | Without slices (frames of one and of both types, with ARQ or not) and with two slices. `DurationsExact`: the duration that starts and stops rounds is that of the frames in the queues. `FramesCanBeDecoded`: no frame holds more than it can, nor data that was to be sent with a more robust MODCOD. `SlicesKnown`: a UT gets data in a slice only after it was told, unless a merge reopened the round in which its message waited, which these instances never do to it. `DataConserved`: no step of a round loses or repeats data. `EverythingIsSent`: once no more comes, buffers and frames are emptied. |
| `forward_link_arq` | Finding: `RoundEnds` fails with a full ARQ window. |

*Bounds.* Two UTs and, with slices, broadcast data; three MODCODs; packets that are cut
and packets that share a frame; three packets in all, two with ARQ; one C/N0 report.
With frames of both types no control message is queued, where the code reads the end
of an empty queue (`ReadsNoFrame`) and may fill a frame beyond what it holds (section 13).

*Fairness.* `Runs`: the simulator runs what is scheduled. Packets, ACKs and reports need
not come, and their number is bounded; `MCSatForwardLink` has no window to fill in the
passing run. *Deadlock* is not checked, for a fatal error ends the simulation; the
simulator itself goes on sending dummy frames.

## 11. What is proved

With TLAPS, for every value of the constants the assumptions allow:

- `SatFacts`: arithmetic and cardinality facts (division, modulo, intervals),
  what `Append`, `Tail` and `Front` do to a sequence, and
  the sum of the sizes of the elements of a finite set or of a sequence, with
  what it becomes when one is added, changed or removed and how it compares with
  another term by term. The sums of the library are
  recursive functions over sets; what they satisfy is shown here from the least number
  at which it would fail, since the theorems on induction cannot be instantiated.
- `SatArqProofs`, the transmitter: `SenderInvariant` and from it `SenderTypeCorrect`,
  `SenderWindowContiguous`, `SenderNumbersMatch`, `SenderTimersMatch`,
  `SenderRetransmissionsBounded`, together `SenderIsConsistent`. The invariants are
  inductive only together. The window must be an interval of at most
  `WindowSize <= MaxSn` numbers ending at the last one: then the one-byte number is
  injective on it, `Release` finds the number an ACK stands for (lemma
  `ReleasedSnExact`), and no key of the two buffers collides. A late ACK for a number
  outside the window makes `Release` insert an entry below it; the lemmas on
  `SeqNoCleanUp` show it is taken out again. `SenderRetxBytesExact` follows the byte count
  through the four handlers that change it, each of which adds, removes or replaces one
  context of the sum.
  The receiver: `ReceiverInvariant`, `ReceiverTypeCorrect`,
  `ReceiverGapFree`, `ReceiverTimersMatch`, `ReceiverInOrder`, together
  `ReceiverIsConsistent`, and `ReceiverStreamOnlyGrows`. The strengthening is
  `ContextsAreWhole`. The step to show is that the loop of `ReassembleAndReceive` pops
  an interval.
  The two together: `LinkInvariant` and from it `LinkConversionExact`,
  `LinkNothingLetGoEarly`, `LinkImplementsService`, `LinkReceiverConsistent`, under no
  other assumption than the timing that is part of the link. `LinkImplementsHalves` says
  that a behaviour of the connection is one of the transmitter and one of the receiver,
  so their invariants are used as they are. What neither half knows is where the other
  stands: `WithinWindows` says the receiver is at most two windows behind, and
  `AcksAreTrue` that an ACK under way stands for something that reached the receiver. A
  number of one byte is then extended to the one it came from, on the way there and on
  the way back, and each step of the receiver is a step of the service or none.
- `SatHandoverProofs`: `HandoverInvariant`, `HandoverTypeCorrect`, `HeldByOneBeam`
  (without logon exactly one scheduler holds the UT, whatever is lost, late or
  repeated, with neither `Prompt` nor `Aligned`) and `UtNeverForgotten`. The
  invariant adds that a UT without a logon channel stays logged on and that no logon
  is on the air, so that `AddUt` is never called.
  `DataKeepsToItsBeam` needs no `Prompt`: `SlotsMasked` says that whatever slots of
  another beam are pending, user data is barred from them until they have passed. It
  assumes `Aligned`, and a UT without a logon channel: `GiveUp` ends the waiting at once,
  while slots of the old beam are pending, so with logon the property does not hold in
  general. `OneRequestAtATime`, under `OneAtATime` (no logon channel, `Prompt`, transfers
  without delay, no TIM-U lost), is the invariant that names the five phases of a handover:
  `Idle`, `Asking`, `Transferring`, `Answered`, `Following`. Each says where the UT is, where
  the NCC holds it and what is on the air. `HandoverNeverFatal` and `UtFollows` follow.
  TLC finds the fatal error without `Prompt`, and with a lost TIM-U.
  `UnheldUtAsks` is about a UT with a logon channel or without, and transfers that take their
  time; it assumes `TimuArrives` (`Prompt`, no TIM-U lost) and nothing of recommendations, logons
  and responses, which may be lost at will. The UT may then be ahead of the NCC (it follows a TIM-U before
  the transfer is made), and a recommendation queued when it gave its beam up outlives
  the log off. `Orderly` is the invariant: a UT that is logged on is `Free` (its beam holds it, or the one
  transfer scheduled leads there, and at most one request that is not stale is on its way), `Granted`
  or `Refused`; one that is logged off has nothing under way, and at most one logon or
  answer (`OneLogon`). `Waits` closes the circle: no request times out while anything is under way, so
  none is given up that may yet be granted. A stale recommendation that reaches the NCC ends the
  simulation, so that `Orderly` is an invariant up to the fatal error.
- `SatDedicatedAccessProofs`, second part: `LinkInvariant`, `LinkTypeCorrect`, `PacketsAreWhole`,
  `StatisticsAccount`, `EncapsulationImplementsService`. The receiver sees only ids
  and byte counts, so the invariant follows the line of PDUs: the one that arrived
  last, those on their way, and what the queue will send. `Follows` and
  `BeforeQueue` say of any two on this line that the packets do not go back, and that
  the ranks (`RankIn`, `RankOut`: twice the number of packets cut, plus one once
  the first fragment is behind) differ by no more than the PDUs sent in between.
  With fewer than `2 * maxFragmentId` lost in a row, equal ids then mean the same
  packet. `ContextOK` adds that the byte count falls short of the position
  reached unless the pieces join without a gap; the comparison with the total length
  then proves the packet whole. It holds for all header sizes and lengths, a total
  length that wraps included. `PacketsDoNotVanish` is the converse, that nothing which
  arrived complete is thrown away: `Intact` says that each piece on the line goes on
  where the one before it ended, and that the receiver has counted the bytes up to
  the last one. It assumes `SizesFit`, every packet shorter than what the total length
  field counts, for a packet of exactly that size has a total length of zero and is
  thrown away when it is cut. `QueueBytesAreExact`: the queue's byte count is the sum of
  its packets, also while one is cut and its rest pushed back.
- `SatDedicatedAccessProofs`, first part: `SuperframeInvariant` and from it `SlotsNeverClash`,
  `UtLoopAlwaysEnds`, `TbtpsAlwaysFit`, for every number of UTs, frames, carriers and RCs,
  every set of burst lengths and in every shuffle. The invariant: a UT is allocated in one
  frame at most, and the lists of what is to be laid out have no slots yet; the slots of
  the carrier being filled end where it is filled to; those of the UT whose turn it is end
  where its time on this carrier begins, for the part it has got on the carrier before was
  taken from the front of a superframe of the same length. Lemma `BurstFits` shows that the burst length
  chosen by the fold over the waveforms fits what is left, which both the clashes and the
  end of the loop rest on. `TbtpsAlwaysFit` assumes at most one RA channel (section 13).
  `GrantsWithinLoad` rests on `LoadInv`. The minimum rates of a UT that is admitted fit
  into a carrier (`AdmissionInv`), hence so does what its request asks for at least
  (`RequestsFit`). While requests are allocated, the symbols pre-allocated in a frame
  cover, category by category, what the stored requests can be granted (`Covered`), also
  after a request is cut to a carrier (`FittedRequest`, `PreAllocationCovers`). There is one
  exception: for a request accepted at its minimum rates no VBDC is pre-allocated, but
  its VBDC is kept; then the RBDC alone exceeds the frame, and the level that counts
  VBDC is not chosen. Sharing is a fold over the RCs in the order of what they ask for.
  At the level `CRA_MIN_RBDC` the minimum RBDC of an RC counts only once it has its
  turn, so the total granted is not what is bounded: `Claim` adds to it what the RCs still to
  have their turn are owed, and each turn takes from claims and symbols left as much as
  it gives (`TurnWithinClaims`). That no RC has two turns, which sorting keeps
  (`SortedKeeps`), is needed there.
- `SatUtAccessProofs`: `AccessTypeCorrect`, `BackoffCorrect`, `RateLimitCorrect`,
  `CrdsaCorrect`. The lemmas on the simulator's queue come first (`InsertKeeps`,
  `WithKeeps`, `TailKeeps`, `TimePasses`): it stays in order, so that nothing is ever
  overdue, and keeps its events. `BackoffCorrect` rests on `Announced`: the last message
  on its way to a channel says what the NCC wants, or there is none and the UT does it.
  `RateLimitCorrect` rests on `CountsAgree`, which relates the code's counters to the
  history of the superframes that were really used, and on what the loop over the
  channels does to the channel with the shortest limit (`CountsOfShortest`). It assumes
  `ShortestLimit`, that no other channel reaches its limit before the one in use: a
  channel that does restarts the counts of all of them, the one in use included, which
  then never gets to its own limit. `CrdsaCorrect` rests on `CrdsaInv`: what
  is scheduled is the next frame start, dedicated slots that the container knows, and
  replicas in the current superframe; no two of these bursts start together;
  the transmitter is idle whenever one is due. Replicas are drawn
  when the container knows no slot from now on, hence when no dedicated slot is
  scheduled, and TBTPs that come later are about later superframes. It assumes one
  TBTP for the UT in a superframe (`MaxTbtps <= 1`); with two it does not hold (section 13).

- `SatReturnLinkProofs`, first part: `BacklogAskedFor`. The request manager never compares what is queued
  with what it has asked for; it counts what came in, what it asked for and what it was
  assigned, and the NCC answers late, in part or not at all. The invariant `OldIsProvided`
  holds the two sides together: what is queued and is not new fits into the slots in hand
  and what is still pending, of which each slot's overhead is taken off (`Provided`), when the bytes that
  control messages took from the service's slots are left out of it. Control messages take no more of
  a slot than it holds (`ControlFits`). A TBTP
  turns pending bytes into slots that carry no less, what control messages leave of a slot is taken off the
  queue or leaves it empty (`SlotServes`, through the fold over the services that a slot
  serves), and a request covers what came in, or starts afresh from the whole queue.
  The over-estimation is cut to whole bytes; `EstimateCovers` shows that this leaves less
  than a byte for a whole queue. The theorem assumes `OverheadIsEstimated` (the factor is no
  less than payload over room, which is what the factor is for) and `VolumesFit` (a service's
  maximum backlog can be expressed in a request, and no constant rate is taken off it),
  and of the behaviour `RequestsCover`: that the backlog
  never exceeds that maximum, and that for what came in between two evaluations the cut
  to whole bytes does no harm. All of these hold in every state of the run. Without the
  bound on the backlog the property fails: what is beyond the maximum is not asked for
  until another packet comes.

- `SatRaReceptionProofs`, and `SatReturnLinkProofs`, second part: `ReceptionInterference`, `ReceptionOutcome`,
  `ReceptionHandUp`, for all four access protocols, any number of UTs, slots, replicas and
  levels, any arrival of bursts. Two facts carry all three theorems. The list of changes of
  power, at whatever place one enters it, sums to the powers of the bursts that last
  (`Heard`, with `IsList` and `Complete`: a burst has one rise and one fall, in order of time,
  and cleaning the list up loses none that a reception still needs). And the SINR of
  a packet can only grow with the set of bursts that were taken off (`ReachesMore`), so that a
  packet which could be decoded still can be later, and cancellation is confluent.
  *By frame* (`SatRaReceptionProofs`), the invariant `FrameInv` has for a frame what was heard (`FrameReception`), for
  slotted ALOHA each burst judged at its end (`SlottedOk`), and for CRDSA and MARSALA
  `CrdsaState`: each waiting packet is in the container with all its replicas (`Lists`); what
  is known of each replica is the energy of the bursts not decoded, and one marked as processed
  cannot be decoded for sure (`Judged`); what was decoded could be (`Combined`), and once packets are given
  up nothing more can be gained (`GivenUp`).
  *By window* (`SatReturnLinkProofs`), `EssaInv` has for each packet of the container that its fragments are those of
  its own time, cut where a burst of the carrier begins or ends, each with the power of the
  others except those decoded (`ExactFragments`): a packet that ends later first finds its
  predecessors in its list of changes and then takes the decoded ones off
  (`PreviousEliminated`), which are all still there since a window outlasts a packet and a
  step (`WindowAssumption`). A window looks at the packets that began before its end; those beyond that bound begin after the
  decoded one has ended (`LooksAt`, `Kept`), so that `DoSic` need not go further. The fragments of a packet sum to
  what one gets tick by tick (`SnirIsExact`), which relates the receiver's account to that of
  the properties. The power of a fragment becomes negative, and ends the simulation, only if two
  changes coincide (`NegativeOk`, section 13). The assumptions are those of
  the modules: a guard time (`FrameAssumption`), the levels (`CarrierAssumption`,
  `ReceptionAssumption`), and the window (`WindowAssumption`). TLC checked `EssaInv` on the
  instance of the run before it was proved.

- `SatForwardLinkProofs`: `LinkTypeCorrect`, `DurationsAreExact`, `DataIsConserved`,
  `FramesDecodable`, `UtsKnowTheirSlices`, for every number of connections, MODCODs and slices, every size of
  frames and packets and every duration. What `ContainerAssumption` and
  `ForwardLinkAssumption` ask for is that of the frame tables: a frame holds more than its
  header, and a short one holds less and lasts no longer than a normal one. The sums
  in these properties run over slices, places, frames and PDUs. The first part of the
  module gives each level a weight (`QueueWeight`, `Weight`, `SlicesWeight`) for an arbitrary
  weighing of frames, and shows what becomes of it when a frame is put in, taken out or
  replaced at the end of a queue (`WithTailFacts`, `WithAppendedFacts`, `WithoutFrameFacts`).
  Durations, bytes taken from one connection and bytes in a frame are then three weighings.
  Merging and shrinking are folds over the MODCODs; `MergesKeep` and `ShrinksKeep`
  carry through them that the containers are well formed, count no more than before, and
  weigh the same by every weighing that is additive under merging. `LinkInv(G)` is the
  invariant for containers whose frames at each place are of the sets `G`, and
  `LinkStep` proves it of all steps at once for any `G` that suits the operations. For the
  first three theorems `G` is any frame; the duration counted is that of the frames
  (`Exact`), and the limit is exceeded by less than a frame since a round adds one frame
  at a time while it is below (`WithinLimit`). For `FramesDecodable` it is `Decodable`: what
  is used is the header and the PDUs and fits into a frame of the type; the MODCOD is that
  of the place; and the free space that the code computes is real. The last does not
  hold for a frame that was shrunk, whose limit loses the header twice; it is extended
  before anything is added, and only frames filled below a threshold are merged into. The
  theorem assumes `NoControlInMixedFrames`, that no control message waits where frames are of
  both types: then it does not hold (section 13).
  `UtsKnowTheirSlices` follows the message that tells a UT of its slice from the buffer to a
  frame and out of it. The invariant `SliceInv` says of each UT (`InTime`): one with a slice has
  its message in the buffer, in a frame of container 0, or behind it (`Assigned`); and unless a
  merge reopened its round, data for it is in a container of a slice only when the message is at
  least in a frame (`Served`), and while the message is in the buffer, a round that is under way
  has not come to anything that is taken later (`Before`). Since the container of control messages
  is sent before any slice, the frame is then sent in time. "There is a message for this UT in
  the frames of container 0" is a weight different from zero (`Tells`), like
  "there is data for it in a slice" (`Serves`), so that the lemmas on weights carry both through
  filling, merging, extending and shrinking. The frames are of `ToldFrames`, in which
  messages of control stay in the place of control. The attempt to prove the property
  without the exception is what showed that it is false (section 13).

## 12. What is only model-checked

All liveness (the prover does not reason about fairness here). Of the safety properties
only `GrantsAreServed` of the allocation, which counts what each turn of
the loop over carriers, UTs and RCs has laid out; shares are rounded to whole symbols,
so that it depends on sizes that the run chooses.

## 13. Findings

Two runs check what the repository says of itself and show that the code does
otherwise; `PROJECT.json` quotes the texts.

1. `random_access_tx`. The TBTP container drops the second TBTP of a superframe, whose
   slots are scheduled all the same; a CRDSA replica then meets a dedicated slot, and
   the transmitter ends the simulation ("the MAC should avoid this").
2. `forward_link_arq`. With a full ARQ window an opportunity gives nothing although
   there are bytes, and the scheduler tries again for ever at one instant; the branch
   that should end the simulation then can not be reached.

Found while modelling, described here and not run, since a run asks one question and
twelve are enough for a reader:

- *ARQ.* `ConvertSeqNo` (`satellite-generic-stream-encapsulator-arq.cc:511`) guesses the
  round of a number within two windows of the expected one; nothing holds the
  transmitter to that (`InStep` of `SatArqLink` assumes it). The retransmission buffer
  is keyed by the one-byte number, so its "Oldest seqNo sent first" is not true across
  a wrap.
- *Handover.* One lost TIM-U, a return to the old beam and a new handover end the
  simulation at `satellite-ncc.cc:405`. The TIM-U for a cancelled handover (line 382) is
  ignored by the UT (`satellite-ut-mac.cc:980`), which then sends no data any more. "Sending
  back TIM-U just in case" (line 398) sends nothing, for the scheduler it goes through
  does not hold the UT. A recommendation sent in `WAITING_FOR_TBTP` does not force
  control packets only, since the next TBTP sets `NO_HANDOVER` all the same.
- *Logon.* A logon that was taken in is never answered a second time (line 282), so that
  one lost response leaves a UT out for ever. The same happens to a UT that logs off
  and comes back to a beam that still holds it, which is why `logon` loses one
  recommendation and not two.
- *Encapsulation.* A packet of 4096 bytes (RLE, "described with 12 bits",
  `satellite-return-link-encapsulator.h:181`) or 65536 (GSE) is accepted, but if it is
  cut its total length reads 0 and it is dropped at the far end.
- *Capacity.* `m_overEstimationFactor` is there "to compensate the RLE and FPDU header
  overhead" (`satellite-request-manager.h:437`). It does as long as slots are much
  larger than the overhead; if it is too small for the slots in use, bytes are left
  that nobody asks for until the next packet comes. The same happens however large the factor
  is when control messages are about: the UT scheduler serves them first in every slot
  (`satellite-ut-scheduler.cc:143-154`, `StrictPriorityForControl`, true by default), while the MAC
  reports the slot's whole payload as assigned to its RC
  (`satellite-ut-mac.cc:501-511`). What they displace is neither pending nor new, so that the last
  bytes of a volume RC can stay queued with nobody asking for them until the next packet comes.
  Without `takenByControl` both `BacklogIsAskedFor` and `BacklogServed` fail; with it they say
  that no more than that is left behind. A rate RC is not affected, for it asks by what is
  queued. `SatDamaEntry::UpdateRbdcInKbps`
  takes the constant rate off the maximum even if none is provided.
- *Allocation.* Constant and minimum rates that fill a carrier exactly lose the minimum
  rate, for the branch that shares it comes after one that also holds. In the branch
  that shares minimum rates (`satellite-frame-allocator.cc:823`) the room of a UT does not
  count the share it has just been given. `prevFrameId` of `AddRaChannels`
  (`satellite-beam-scheduler.cc:606`) is never set, so that frame information is counted
  for each channel. With two or more RA channels the difference of line 627 is unsigned and
  wraps when the last TBTP has less room than a frame's information takes: all slots of
  the next channel then go into one TBTP, and the simulation ends at line 565. The two
  channels of the run (two and three slots) do not reach it. Admission guarantees minimum rates over all frames
  (`m_minimumRateBasedBytesLeft`) although a UT is allocated in one.
- *Random access.* Slotted ALOHA decides on a transmission while it knows of no dedicated
  slot and makes it later, when a TBTP may have come; a search that reaches the next
  superframe forgets the slots used in this one. `m_crdsaNewData` is never true again
  after the first packet. MARSALA has no case in `SetBackoffTime`, so that the first
  message of the load control ends the simulation.
- *Reception.* `normalizedPreambleTime` (`satellite-phy-rx-carrier-per-window.cc:333`) is a
  quotient of two integers and therefore zero: the SINR of the preamble is that of the
  packet's first fragment, and if that lasts no time, as when another burst starts at
  the same instant, it is 0/0, and the packet is not detected whatever the threshold
  (`PacketCanBeDetected`). When a burst ends and another begins or ends at one instant, a
  fragment of a third lies between the two that lasts no time; `EliminateInterferences`
  takes the power of the burst that ended off it as well, which may leave less than zero
  and ends the simulation (`satellite-perfect-interference-elimination.cc:106`). TLC meets
  this in `ra_reception` and stops there (`negativeInterference`). All turns of the loop over `WindowSICIterations` but the first find
  nothing to do. MARSALA combines replicas without looking at the collision model, also when
  colliding bursts are to be dropped. With a guard time of zero, which the attribute
  allows, the end of a frame comes before the end of a burst in its last slot.
- *Forward link.* "MODCOD is ignored when priorityClass is 0" (`satellite-bbframe-container.h:85`),
  but for control messages `AddData` reads the type of the last frame of that MODCOD's
  queue, which may be empty. `Shrink` takes the header off the space of a frame that
  counts it as used. The two together overfill a frame: with frames of both types, a frame
  of control messages that was shrunk and is nearly full has more used than its limit, so
  that the free space, an unsigned difference (`satellite-bbframe.cc`), is huge; a further
  message is checked against a normal frame's size, and if the queue of the first MODCOD
  ends in a normal frame, or is empty and reads as one, the control frame is not extended and takes
  it. With a header of 2, frames of 5 and 12 bytes and messages of 2 bytes TLC finds a short
  frame of 5 bytes that carries 6. The run leaves it out (`WithoutControl`), and
  `FramesDecodable` assumes it away.
  A round takes the control messages to all first (`satellite-fwd-link-scheduler-time-slicing.cc:265`,
  "Begin again scheduling to insert slice subscription control packet") and stops at its limit
  (lines 248 and 281). If they reach the limit with one message left, `MergeBbFrames`
  (line 328) may put two of their frames into one and bring the total below the limit; the loop
  then goes on with the next objects, and the UT whose message is left can get data in a slice
  it does not listen to, which its PHY drops. TLC finds this with three UTs, one slice, normal frames
  of 9 bytes and short ones of 4 and 5, lasting 2 and 1, a header and a GSE header of 1 byte, thresholds of 90 %,
  packets of 2 bytes, messages of 3, a periodic interval of 6 and six arrivals, in some 2.8 million states:
  too many for a run. `SlicesKnown` names exactly the UTs that this can happen
  to (`overtaken`), and `UtsKnowTheirSlices` shows that it can happen to no other.

## 14. What is not modelled, and why

- `src/stats`, `src/helper`, `src/utils`, `src/examples`, `src/ext-utils`: they build
  scenarios, read and write files and collect results.
- Signal arithmetic (SINR, fading, mutual information, antenna gains, waveforms, C/N0
  estimators): floating point tables, no protocol state. Reception in dedicated slots and on the
  forward link, where a burst has its slot to itself, is a link that loses what it may
  lose. Of the reception of random access, residual interference after cancellation, the
  constant and traced interference models, load measurement, and the search for the exact end of
  a fragment among floating point sums, which is fatal if it fails by rounding
  (`satellite-phy-rx-carrier-per-window.cc:519`).
- `SelectCarriers` of configuration type 3 (`satellite-frame-allocator.cc`), which divides
  carriers by a floating point demand.
- Control message containers: a message is dropped some time after it was sent. The delays
  that would make a reader come too late are those of a link far longer than a
  satellite's, and no module of these has such a delay in it.
- LoRaWAN end devices: `SendToPhy` (`class-a-end-device-lorawan-mac.cc:106`) has its call to the PHY
  and what prepares the downlink commented out, so that no frame is sent and no
  acknowledgement awaited. Beam switching, the beam hopping of the gateway MAC, statistics of
  symbols, `SatUtMacStateTracker`, `SatQueue::DequeueAll`.
- Within the modelled components: the contents of packets, tracing, logging, and
  traffic other than what the properties are about. Several UTs only where they share
  something: the superframe and the forward link. A UT's handover shares no state with
  another's except the beam scheduler's load. `GiveUp` for a beam that is not simulated (a
  null scheduler is dereferenced in the code) is modelled as the fatal outcome
  `UNKNOWN_BEAM`; no passing run reaches it.
