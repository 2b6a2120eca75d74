----------------------------- MODULE SatHandover -----------------------------
(***************************************************************************)
(* Beam handover and logon of one mobile user terminal: the UT's MAC       *)
(* (src/model/satellite-ut-mac.cc) with its handover module, the gateway   *)
(* MACs' handlers (src/model/satellite-gw-mac.cc), the NCC, and the        *)
(* messages between them.                                                  *)
(*                                                                         *)
(* Superframes are counted relative to the UT's current one: a TBTP or a   *)
(* slot with in = n is for the n-th superframe from now.                   *)
(***************************************************************************)
EXTENDS SatNcc, FiniteSets, SequencesExt

CONSTANTS
    UseLogon,                \* the superframe configuration has a logon channel
    RaModel,                 \* the random access techniques in use, {} for none
    MaxHandoverMessages,     \* m_maxHandoverMessagesSent
    Populated,               \* the beams whose scheduler holds other UTs
    Offset,                  \* how many superframes ahead a beam scheduler works
    HandoverDelay,           \* m_utHandoverDelay is more than zero
    MaxLoss,                 \* bound: messages of each kind the links lose
    MaxHr,                   \* bound: recommendations queued, sent or acted on when one more is due
    Prompt,                  \* assumption: see Outstanding
    Aligned                  \* assumption: see ReceiveTbtp

Kinds == {"HR", "TIMU", "TBTP", "LOGON", "LOGON_RESPONSE"}

ASSUME HandoverAssumption ==
    /\ UseLogon \in BOOLEAN /\ HandoverDelay \in BOOLEAN
    /\ Prompt \in BOOLEAN /\ Aligned \in BOOLEAN
    /\ RaModel \subseteq {"SLOTTED_ALOHA", "CRDSA"}
    /\ UseLogon => RaModel # {}   \* "Cannot simulate logon without a RA frame"
    /\ Populated \subseteq Existing
    /\ MaxHandoverMessages \in Nat /\ Offset \in Nat \ {0} /\ MaxHr \in Nat
    /\ MaxLoss \in [Kinds -> Nat]

VARIABLES
    m_beamId,                  \* the UT's beam, of its MAC and of its PHY
    m_handoverState,
    m_handoverMessagesCount,
    m_timuInfo,                \* the beam of a TIM-U waiting for the next frame
    m_firstTransmittable,      \* superframes until m_firstTransmittableSuperframeId
    m_loggedOn,
    logonWait,                 \* now has not passed m_nextLogonTransmissionPossible
    reconfiguring,             \* the PHY has no channel since PerformHandover
    m_tbtps,                   \* the superframes the TBTP container has slots for
    slots,                     \* the DoTransmit events that are scheduled
    aloha,                     \* a slotted ALOHA transmission is scheduled
    scheduled,                 \* the beam schedulers have run in this superframe
    tbtps, logons, responses,  \* TBTPs, logons and logon responses on the air
    hrs,                       \* recommendations on the return link
    lost                       \* messages lost so far, of each kind

macVars == <<m_beamId, m_handoverState, m_handoverMessagesCount, m_timuInfo,
             m_firstTransmittable, m_loggedOn, logonWait, reconfiguring>>
slotVars == <<m_tbtps, slots, aloha>>
airVars == <<tbtps, logons, responses, hrs, lost>>
vars == <<position, moduleVars, ctrlQueue, nccVars, macVars, slotVars, scheduled,
          airVars>>

States == {"NO_HANDOVER", "HANDOVER_RECOMMENDATION_SENT", "WAITING_FOR_TBTP"}
Tbtps == [beam : Existing, in : 0 .. Offset, mine : BOOLEAN]
Slots == [beam : Existing, in : 0 .. Offset]
HrsOnAir == [via : Existing, gw : Gateways, beam : Beams \cup {NoBeam}]
Logons == [via : Existing, gw : Gateways]

TypeOK ==
    /\ ModuleTypeOK /\ NccTypeOK
    /\ m_beamId \in Existing /\ m_handoverState \in States
    /\ m_handoverMessagesCount \in 0 .. MaxHandoverMessages + 1
    /\ m_timuInfo \in Existing \cup {NoBeam}
    /\ m_firstTransmittable \in 0 .. Offset
    /\ m_loggedOn \in BOOLEAN /\ logonWait \in BOOLEAN
    /\ reconfiguring \in BOOLEAN /\ aloha \in BOOLEAN /\ scheduled \in BOOLEAN
    /\ m_tbtps \subseteq 0 .. Offset /\ slots \subseteq Slots
    /\ tbtps \subseteq Tbtps /\ logons \subseteq Logons /\ responses \subseteq Existing
    /\ hrs \in Seq(HrsOnAir)
    /\ lost \in [Kinds -> Nat]

Init ==
    /\ ModuleInit
    /\ m_beamId = Best[position]
    /\ m_handoverState = "NO_HANDOVER" /\ m_handoverMessagesCount = 0
    /\ m_timuInfo = NoBeam /\ m_firstTransmittable = 0
    /\ m_loggedOn = ~UseLogon /\ logonWait = FALSE /\ reconfiguring = FALSE
    /\ m_utInfos = IF UseLogon THEN {} ELSE {m_beamId}
    /\ moves = <<>> /\ timus = {} /\ aborted = "NO"
    /\ m_tbtps = {} /\ slots = {} /\ aloha = FALSE /\ scheduled = FALSE
    /\ tbtps = {} /\ logons = {} /\ responses = {} /\ hrs = <<>>
    /\ lost = [k \in Kinds |-> 0]

----------------------------------------------------------------------------
(* What is assumed of time.  Outstanding: a request is under way.  With     *)
(* Prompt the UT is slow and the timers long compared with a round trip: no *)
(* position change and no timeout happens while a request is under way, and *)
(* no logon is repeated while the first or its answer is.                   *)
Outstanding ==
    \/ ctrlQueue # <<>> \/ hrs # <<>> \/ timus # {} \/ m_timuInfo # NoBeam
    \/ moves # <<>> \/ logons # {} \/ responses # {}

\* A fatal error ends the simulation.  With no handover delay the transfer is
\* the very next event.
Running == aborted = "NO" /\ (HandoverDelay \/ moves = <<>>)

\* SatUtMac::ControlMsgTransmissionPossible, with the TBTPs the UT knows.
ControlMsgTransmissionPossible(known) ==
    \/ known # {}
    \/ RaModel # {} /\ m_loggedOn

\* SatUtMac::ExtractPacketsToSchedule: whether a slot may carry other packets
\* than handover recommendations.
\* Mutant: the superframe the first TBTP opened is not looked at.
RegularSchedulingAtOnce(randomAccess) ==
    m_handoverState = "NO_HANDOVER" \/ (randomAccess /\ m_handoverState = "WAITING_FOR_TBTP")

RegularScheduling(randomAccess) ==
    \/ /\ m_handoverState = "NO_HANDOVER"
       /\ randomAccess \/ m_firstTransmittable = 0
    \/ randomAccess /\ m_handoverState # "HANDOVER_RECOMMENDATION_SENT"

OnAir(queue) ==
    [i \in DOMAIN queue |-> [via |-> m_beamId, gw |-> queue[i].gw, beam |-> queue[i].beam]]

----------------------------------------------------------------------------
(* The UT's MAC. *)

Aged(n) == IF n = 0 THEN 0 ELSE n - 1
AgedTbtps == {n - 1 : n \in m_tbtps \ {0}}

\* DoFrameStart, first branch: apply the TIM-U received in the last frame.  It
\* ends with no random access in this frame.
ApplyTimu ==
    /\ m_timuInfo # NoBeam
    /\ m_beamId' = m_timuInfo
    /\ m_timuInfo' = NoBeam
    /\ m_handoverState' = "WAITING_FOR_TBTP"
    /\ m_tbtps' = {}
    /\ reconfiguring' = TRUE
    /\ UNCHANGED <<m_handoverMessagesCount, m_loggedOn, logonWait, moduleVars,
                   ctrlQueue, aborted, aloha, hrs, logons>>

\* The state and the count after a recommendation has been sent.  The count is
\* compared with the maximum and nothing else, so it is kept up to one above it.
CountAfterRecommendation ==
    CASE m_handoverState = "NO_HANDOVER" -> 0
      [] m_handoverState = "HANDOVER_RECOMMENDATION_SENT" ->
             IF m_handoverMessagesCount > MaxHandoverMessages THEN m_handoverMessagesCount
                                                               ELSE m_handoverMessagesCount + 1
      [] OTHER -> m_handoverMessagesCount

StateAfterRecommendation ==
    IF m_handoverState = "NO_HANDOVER" THEN "HANDOVER_RECOMMENDATION_SENT"
                                       ELSE m_handoverState

GivesUp == Recommends(m_beamId) /\ UseLogon
           /\ CountAfterRecommendation > MaxHandoverMessages

\* A CRDSA trigger may take recommendations from the queue (its back-off is
\* random) unless the UT knows of dedicated slots; a queued recommendation
\* triggers slotted ALOHA likewise.
RandomAccess(queue) ==
    \E n \in IF "CRDSA" \in RaModel /\ AgedTbtps = {} THEN 0 .. Len(queue) ELSE {0} :
        /\ hrs' = hrs \o OnAir(SubSeq(queue, 1, n))
        /\ ctrlQueue' = SubSeq(queue, n + 1, Len(queue))

TriggersAloha(queue) ==
    /\ Len(queue) > Len(ctrlQueue)
    /\ "SLOTTED_ALOHA" \in RaModel /\ AgedTbtps = {}

\* DoFrameStart, transmission permitted and logged on: check the beam, count
\* the recommendation, run random access.
CheckBeam ==
    /\ m_timuInfo = NoBeam /\ ~reconfiguring /\ m_loggedOn /\ ~GivesUp
    /\ CheckForHandoverRecommendation(m_beamId)
    /\ LET queue == AfterRecommendation(m_beamId, ControlMsgTransmissionPossible(AgedTbtps))
       IN RandomAccess(queue) /\ aloha' = (aloha \/ TriggersAloha(queue))
    /\ IF Recommends(m_beamId)
       THEN /\ m_handoverState' = StateAfterRecommendation
            /\ m_handoverMessagesCount' = CountAfterRecommendation
       ELSE UNCHANGED <<m_handoverState, m_handoverMessagesCount>>
    /\ m_tbtps' = AgedTbtps
    /\ UNCHANGED <<m_beamId, m_timuInfo, m_loggedOn, logonWait, reconfiguring,
                   aborted, logons>>

\* Mutant of GiveUp: the UT stays logged on.
GiveUpLoggedOn ==
    /\ m_timuInfo = NoBeam /\ ~reconfiguring /\ m_loggedOn /\ GivesUp
    /\ CheckForHandoverRecommendation(m_beamId)
    /\ LET queue == AfterRecommendation(m_beamId, ControlMsgTransmissionPossible(AgedTbtps))
       IN ctrlQueue' = queue /\ aloha' = (aloha \/ TriggersAloha(queue))
    /\ m_handoverMessagesCount' = 0
    /\ IF BestBeamFor(m_beamId) \in Existing
       THEN /\ m_beamId' = BestBeamFor(m_beamId)
            /\ UNCHANGED aborted
       ELSE /\ aborted' = "UNKNOWN_BEAM"
            /\ UNCHANGED m_beamId
    /\ m_tbtps' = {}
    /\ m_handoverState' = "NO_HANDOVER"
    /\ logonWait' = FALSE
    /\ reconfiguring' = TRUE
    /\ UNCHANGED <<m_loggedOn, m_timuInfo, hrs, logons>>

\* ... and one recommendation too many without an answer: log off and tune to
\* the beam that was asked for, which must be one the NCC knows.
GiveUp ==
    /\ m_timuInfo = NoBeam /\ ~reconfiguring /\ m_loggedOn /\ GivesUp
    /\ CheckForHandoverRecommendation(m_beamId)
    /\ LET queue == AfterRecommendation(m_beamId, ControlMsgTransmissionPossible(AgedTbtps))
       IN ctrlQueue' = queue /\ aloha' = (aloha \/ TriggersAloha(queue))
    /\ m_handoverMessagesCount' = 0
    /\ m_loggedOn' = FALSE
    /\ IF BestBeamFor(m_beamId) \in Existing
       THEN /\ m_beamId' = BestBeamFor(m_beamId)
            /\ UNCHANGED aborted
       ELSE /\ aborted' = "UNKNOWN_BEAM"
            /\ UNCHANGED m_beamId
    /\ m_tbtps' = {}
    /\ m_handoverState' = "NO_HANDOVER"
    /\ logonWait' = FALSE
    /\ reconfiguring' = TRUE
    /\ UNCHANGED <<m_timuInfo, hrs, logons>>

\* DoFrameStart, transmission permitted and logged off: send a logon, or wait.
SendLogon ==
    /\ m_timuInfo = NoBeam /\ ~reconfiguring /\ ~m_loggedOn
    /\ logons' = IF logonWait THEN logons
                 ELSE logons \cup {[via |-> m_beamId, gw |-> GwOf[m_beamId]]}
    /\ logonWait' = TRUE
    /\ m_tbtps' = AgedTbtps
    /\ UNCHANGED <<m_beamId, m_timuInfo, m_handoverState, m_handoverMessagesCount,
                   m_loggedOn, reconfiguring, moduleVars, ctrlQueue, aborted,
                   aloha, hrs>>

\* DoFrameStart while the antenna is being reconfigured: "Tx is disabled".
TxDisabled ==
    /\ m_timuInfo = NoBeam /\ reconfiguring
    /\ m_tbtps' = AgedTbtps
    /\ UNCHANGED <<m_beamId, m_timuInfo, m_handoverState, m_handoverMessagesCount,
                   m_loggedOn, logonWait, reconfiguring, moduleVars, ctrlQueue,
                   aborted, aloha, hrs, logons>>

\* A superframe of the UT begins.  The slots of the last one are over, and a
\* TBTP reaches the UT before the superframe it is for.
DoFrameStart ==
    /\ Running /\ scheduled
    /\ \A s \in slots : s.in # 0
    /\ \A t \in tbtps : t.in > 1
    /\ ApplyTimu \/ CheckBeam \/ GiveUp \/ SendLogon \/ TxDisabled
    /\ scheduled' = FALSE
    /\ m_firstTransmittable' = Aged(m_firstTransmittable)
    /\ slots' = {[beam |-> s.beam, in |-> s.in - 1] : s \in slots}
    /\ tbtps' = {[beam |-> t.beam, in |-> t.in - 1, mine |-> t.mine] : t \in tbtps}
    /\ UNCHANGED <<position, m_utInfos, moves, timus, responses, lost>>

\* SatUtPhy::AssignNewSatChannels, after the antenna reconfiguration delay.
AssignNewSatChannels ==
    /\ Running /\ reconfiguring
    /\ reconfiguring' = FALSE
    /\ UNCHANGED <<position, moduleVars, ctrlQueue, nccVars, m_beamId, m_handoverState,
                   m_handoverMessagesCount, m_timuInfo, m_firstTransmittable,
                   m_loggedOn, logonWait, slotVars, scheduled, airVars>>

\* DoTransmit, in a dedicated slot.  SatUtScheduler serves the control queue
\* before any other (PrioritizeControl), as far as the slot goes; what else the
\* slot carries is up to RegularScheduling.
DoTransmit ==
    /\ Running
    /\ \E s \in slots :
        /\ s.in = 0
        /\ slots' = slots \ {s}
    /\ \E n \in 0 .. Len(ctrlQueue) :
        /\ reconfiguring => n = 0
        /\ (n = 0) => (reconfiguring \/ ctrlQueue = <<>>)
        /\ hrs' = hrs \o OnAir(SubSeq(ctrlQueue, 1, n))
        /\ ctrlQueue' = SubSeq(ctrlQueue, n + 1, Len(ctrlQueue))
    /\ UNCHANGED <<position, moduleVars, nccVars, macVars, m_tbtps, aloha, scheduled,
                   tbtps, logons, responses, lost>>

\* ScheduleSlottedAlohaTransmission and DoSlottedAlohaTransmit: given up if slots
\* have become known, and lost if the PHY is being reconfigured.
DoSlottedAlohaTransmit ==
    /\ Running /\ aloha
    /\ aloha' = FALSE
    /\ \E n \in 0 .. Len(ctrlQueue) :
        /\ (n = 0) => (m_tbtps # {} \/ ctrlQueue = <<>>)
        /\ hrs' = IF reconfiguring THEN hrs ELSE hrs \o OnAir(SubSeq(ctrlQueue, 1, n))
        /\ ctrlQueue' = SubSeq(ctrlQueue, n + 1, Len(ctrlQueue))
    /\ UNCHANGED <<position, moduleVars, nccVars, macVars, m_tbtps, slots, scheduled,
                   tbtps, logons, responses, lost>>

Listens(via) == ~reconfiguring /\ via = m_beamId

\* A TBTP with slots for the UT is kept, and its slots become DoTransmit events.
ScheduleTimeSlots(t) ==
    /\ m_tbtps' = IF t.mine THEN m_tbtps \cup {t.in} ELSE m_tbtps
    /\ slots' = IF t.mine THEN slots \cup {[beam |-> t.beam, in |-> t.in]} ELSE slots

\* ReceiveSignalingPacket, SAT_TBTP_CTRL_MSG: the first TBTP after a handover
\* opens the superframe it is for; its slots are scheduled in any case.  Aligned
\* assumes that the TBTPs of one superframe reach the UT, in whatever beam,
\* between the same two frame starts.
ReceiveTbtp ==
    /\ Running
    /\ \E t \in tbtps :
        /\ Aligned => t.in = 1
        /\ tbtps' = tbtps \ {t}
        /\ IF ~Listens(t.beam)
           THEN UNCHANGED <<m_handoverState, m_firstTransmittable, m_tbtps, slots>>
           ELSE /\ m_handoverState' = IF m_handoverState = "WAITING_FOR_TBTP"
                                      THEN "NO_HANDOVER" ELSE m_handoverState
                /\ m_firstTransmittable' = IF m_handoverState = "WAITING_FOR_TBTP"
                                           THEN t.in ELSE m_firstTransmittable
                /\ ScheduleTimeSlots(t)
    /\ UNCHANGED <<position, moduleVars, ctrlQueue, nccVars, m_beamId,
                   m_handoverMessagesCount, m_timuInfo, m_loggedOn, logonWait,
                   reconfiguring, aloha, scheduled, logons, responses, hrs, lost>>

\* ReceiveSignalingPacket, SAT_TIMU_CTRL_MSG: kept for the next frame start,
\* unless it names the beam the UT is in.
ReceiveTimu ==
    /\ Running
    /\ \E t \in timus :
        /\ timus' = timus \ {t}
        /\ m_timuInfo' = IF Listens(t.via) /\ t.beam # m_beamId THEN t.beam ELSE m_timuInfo
    /\ UNCHANGED <<position, moduleVars, ctrlQueue, m_utInfos, moves, aborted, m_beamId,
                   m_handoverState, m_handoverMessagesCount, m_firstTransmittable,
                   m_loggedOn, logonWait, reconfiguring, slotVars, scheduled, airVars>>

\* ReceiveSignalingPacket, SAT_LOGON_RESPONSE_CTRL_MSG.
ReceiveLogonResponse ==
    /\ Running
    /\ \E b \in responses :
        /\ responses' = responses \ {b}
        /\ m_loggedOn' = (m_loggedOn \/ Listens(b))
    /\ UNCHANGED <<position, moduleVars, ctrlQueue, nccVars, m_beamId, m_handoverState,
                   m_handoverMessagesCount, m_timuInfo, m_firstTransmittable,
                   logonWait, reconfiguring, slotVars, scheduled, tbtps, logons, hrs, lost>>

----------------------------------------------------------------------------
(* The gateways and the NCC. *)

\* SatBeamScheduler::Schedule of every beam, once a superframe: a TBTP is sent
\* when the scheduler holds any UT.  It is a broadcast; it may hold slots for a UT
\* the scheduler holds.
Schedule ==
    /\ Running /\ ~scheduled
    /\ \E S \in SUBSET m_utInfos :
        tbtps' = tbtps \cup {[beam |-> b, in |-> Offset, mine |-> b \in S] :
                             b \in m_utInfos \cup Populated}
    /\ scheduled' = TRUE
    /\ UNCHANGED <<position, moduleVars, ctrlQueue, nccVars, macVars, slotVars, logons,
                   responses, hrs, lost>>

\* SatGwMac::ReceiveSignalingPacket, SAT_HR_CTRL_MSG: a message for another
\* gateway is not for this MAC.
ReceiveHandoverRecommendation ==
    /\ Running
    /\ \E i \in DOMAIN hrs :
        /\ IF hrs[i].gw = GwOf[hrs[i].via]
           THEN MoveUtBetweenBeams(hrs[i].via, hrs[i].beam)
           ELSE UNCHANGED nccVars
        /\ hrs' = RemoveAt(hrs, i)
    /\ UNCHANGED <<position, moduleVars, ctrlQueue, macVars, slotVars, scheduled, tbtps,
                   logons, responses, lost>>

\* SatNcc::DoMoveUtBetweenBeams, after the handover delay.
TransferUt ==
    /\ aborted = "NO"
    /\ DoMoveUtBetweenBeams
    /\ UNCHANGED <<position, moduleVars, ctrlQueue, macVars, slotVars, scheduled, airVars>>

\* SatGwMac::ReceiveSignalingPacket, SAT_LOGON_CTRL_MSG.
ReceiveLogon ==
    /\ Running
    /\ \E l \in logons :
        /\ logons' = logons \ {l}
        /\ IF l.gw = GwOf[l.via]
           THEN /\ AddUt(l.via)
                /\ responses' = IF AnswersLogon(l.via) THEN responses \cup {l.via}
                                ELSE responses
           ELSE UNCHANGED <<nccVars, responses>>
    /\ UNCHANGED <<position, moduleVars, ctrlQueue, macVars, slotVars, scheduled, tbtps,
                   hrs, lost>>

----------------------------------------------------------------------------
(* The environment: the trace of positions, the clock, the links' losses. *)

Move ==
    /\ Running
    /\ Prompt => ~Outstanding
    /\ position' \in Positions \ {position}
    /\ UNCHANGED <<moduleVars, ctrlQueue, nccVars, macVars, slotVars, scheduled, airVars>>

RequestTimeout ==
    /\ Running /\ m_hasPendingRequest /\ ~timedOut
    /\ Prompt => ~Outstanding
    /\ Len(ctrlQueue) + Len(hrs) + Len(moves) < MaxHr
    /\ timedOut' = TRUE
    /\ UNCHANGED <<position, m_askedBeamId, m_hasPendingRequest, ctrlQueue, nccVars,
                   macVars, slotVars, scheduled, airVars>>

LogonTimeout ==
    /\ Running /\ logonWait
    /\ Prompt => logons = {} /\ responses = {}
    /\ logonWait' = FALSE
    /\ UNCHANGED <<position, moduleVars, ctrlQueue, nccVars, m_beamId, m_handoverState,
                   m_handoverMessagesCount, m_timuInfo, m_firstTransmittable,
                   m_loggedOn, reconfiguring, slotVars, scheduled, airVars>>

CanLose(kind) == Running /\ lost[kind] < MaxLoss[kind]
Counted(kind) == lost' = [lost EXCEPT ![kind] = @ + 1]

Lose ==
    /\ \/ /\ CanLose("HR") /\ Counted("HR")
          /\ \E i \in DOMAIN hrs : hrs' = RemoveAt(hrs, i)
          /\ UNCHANGED <<timus, tbtps, logons, responses>>
       \/ /\ CanLose("TIMU") /\ Counted("TIMU")
          /\ \E t \in timus : timus' = timus \ {t}
          /\ UNCHANGED <<hrs, tbtps, logons, responses>>
       \/ /\ CanLose("TBTP") /\ Counted("TBTP")
          /\ \E t \in tbtps : tbtps' = tbtps \ {t}
          /\ UNCHANGED <<hrs, timus, logons, responses>>
       \/ /\ CanLose("LOGON") /\ Counted("LOGON")
          /\ \E l \in logons : logons' = logons \ {l}
          /\ UNCHANGED <<hrs, timus, tbtps, responses>>
       \/ /\ CanLose("LOGON_RESPONSE") /\ Counted("LOGON_RESPONSE")
          /\ \E b \in responses : responses' = responses \ {b}
          /\ UNCHANGED <<hrs, timus, tbtps, logons>>
    /\ UNCHANGED <<position, moduleVars, ctrlQueue, m_utInfos, moves, aborted, macVars,
                   slotVars, scheduled>>

----------------------------------------------------------------------------
UtNext ==
    \/ DoFrameStart \/ AssignNewSatChannels \/ DoTransmit \/ DoSlottedAlohaTransmit
    \/ ReceiveTbtp \/ ReceiveTimu \/ ReceiveLogonResponse
NccNext == Schedule \/ ReceiveHandoverRecommendation \/ TransferUt \/ ReceiveLogon
Next == UtNext \/ NccNext \/ Move \/ RequestTimeout \/ LogonTimeout \/ Lose

Spec == Init /\ [][Next]_vars

\* The simulator runs every event it has scheduled, and the links deliver what
\* they do not lose.  The UT need not move.
Fairness ==
    /\ WF_vars(DoFrameStart) /\ WF_vars(AssignNewSatChannels)
    /\ WF_vars(DoTransmit) /\ WF_vars(DoSlottedAlohaTransmit)
    /\ WF_vars(ReceiveTbtp) /\ WF_vars(ReceiveTimu) /\ WF_vars(ReceiveLogonResponse)
    /\ WF_vars(Schedule) /\ WF_vars(ReceiveHandoverRecommendation)
    /\ WF_vars(TransferUt) /\ WF_vars(ReceiveLogon)
    /\ WF_vars(RequestTimeout) /\ WF_vars(LogonTimeout)

FairSpec == Spec /\ Fairness
----------------------------------------------------------------------------
(* Safety. *)

\* No recommendation finds the NCC in a state it calls inconsistent, and no
\* transfer or log off hits one of the other fatal errors.
NoFatal == aborted = "NO"

\* Without logon the UT is held by exactly one beam scheduler, whatever is lost
\* or repeated on the links (TransferUtToBeam).
ExactlyOneBeam == ~UseLogon => Cardinality(m_utInfos) = 1

\* A UT the NCC has taken in is never forgotten: no transfer, doubled, late or
\* after a second logon, takes it out of the only scheduler that holds it.
NeverForgotten == [][m_utInfos # {} => m_utInfos' # {}]_vars

\* A UT whose beam does not hold it has a request pending for the beam that does,
\* so that it goes on asking until it has followed; or it is ahead of the NCC,
\* which has still to carry out the transfer to its beam.
UnheldUtIsAsking ==
    m_loggedOn /\ ~HasUt(m_beamId)
        => \/ m_hasPendingRequest /\ m_askedBeamId \in m_utInfos
           \/ \E i \in DOMAIN moves : moves[i].dest = m_beamId

\* A UT that is not where the NCC holds it is on its way there: the TIM-U is on
\* the air in the UT's beam or waits for the next frame start.
UtFollowsNcc ==
    HasUt(m_beamId) \/ \E b \in m_utInfos : \/ m_timuInfo = b
                                           \/ [via |-> m_beamId, beam |-> b] \in timus

\* User data never goes out in a slot another beam's scheduler allocated: the
\* slots of the old beam outlive the handover, since only the TBTP container is
\* cleared, and m_firstTransmittableSuperframeId has to mask them.
NoDataInForeignSlots ==
    \A s \in slots : s.in = 0 /\ ~reconfiguring /\ RegularScheduling(FALSE) => s.beam = m_beamId

----------------------------------------------------------------------------
(* Liveness. *)

\* A UT that stops moving ends in a beam that covers it, or in the best one.
HandoverCompletes ==
    \A p \in Positions :
        <>[](position = p) => <>[](m_beamId \in Valid[p] \cup {Best[p]})

\* A UT that is logged off gets a beam's scheduler to take it in and hears of it,
\* as long as the answer is not lost and it logs on in a beam that does not hold it.
LogonSucceeds == [](~m_loggedOn => <>m_loggedOn)
=============================================================================
