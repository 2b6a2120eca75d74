------------------------ MODULE SatUtHandoverModule ------------------------
(***************************************************************************)
(* The handover module of a mobile user terminal and the part of its       *)
(* request manager it calls (src/model/satellite-ut-handover-module.cc,    *)
(* src/model/satellite-request-manager.cc).  The UT moves over Positions;  *)
(* the antenna gain patterns are abstracted to the beams that are valid at *)
(* a position and the beam of best gain there.  Time is abstracted: the    *)
(* module only asks whether RepeatRequestTimeout has elapsed since the     *)
(* last recommendation.                                                    *)
(***************************************************************************)
EXTENDS Integers, Sequences

CONSTANTS
    Beams,        \* the beams that have an antenna gain pattern, 1..NUMBER_OF_BEAMS
    Existing,     \* the beams that are simulated: the NCC has a scheduler for them
    NoBeam,       \* the beam id 0, which no beam has
    Gateways,
    GwOf,         \* the gateway that serves an existing beam
    Positions,
    Valid,        \* the beams whose gain is acceptable at a position
    Best,         \* the beam of best gain at a position
    PendingInit   \* the values m_hasPendingRequest can start with

ASSUME BeamAssumption ==
    /\ Existing \subseteq Beams /\ Existing # {}
    /\ NoBeam \notin Beams
    /\ GwOf \in [Existing -> Gateways]
ASSUME PositionAssumption ==
    /\ Valid \in [Positions -> SUBSET Beams]
    /\ Best \in [Positions -> Beams]
    /\ \A p \in Positions : Valid[p] # {} => Best[p] \in Valid[p]
\* The constructor the simulator uses leaves m_hasPendingRequest uninitialized.
ASSUME PendingAssumption == PendingInit \subseteq BOOLEAN /\ PendingInit # {}

VARIABLES
    position,             \* where the UT is
    m_askedBeamId,        \* the beam of the last recommendation
    m_hasPendingRequest,  \* that recommendation is waiting for its TIM-U
    timedOut,             \* now - m_lastMessageSentAt > m_repeatRequestTimeout
    ctrlQueue             \* the recommendations in the UT's control queue

moduleVars == <<m_askedBeamId, m_hasPendingRequest, timedOut>>

HandoverRecommendations == [gw : Gateways, beam : Beams \cup {NoBeam}]

ModuleTypeOK ==
    /\ position \in Positions
    /\ m_askedBeamId \in Beams \cup {NoBeam}
    /\ m_hasPendingRequest \in BOOLEAN /\ timedOut \in BOOLEAN
    /\ ctrlQueue \in Seq(HandoverRecommendations)

\* The UT starts in a simulated beam, the one of best gain at its position.
ModuleInit ==
    /\ position \in {p \in Positions : Best[p] \in Existing}
    /\ m_askedBeamId = NoBeam
    /\ m_hasPendingRequest \in PendingInit
    /\ timedOut = FALSE
    /\ ctrlQueue = <<>>

----------------------------------------------------------------------------
\* CheckForHandoverRecommendation (beamId): a request is over once its beam is
\* the current one, and while the current beam is good nothing is asked.
StillPending(beamId) == m_hasPendingRequest /\ m_askedBeamId # beamId

BestBeamFor(beamId) ==
    IF StillPending(beamId) THEN m_askedBeamId ELSE Best[position]

\* Mutants: a recommendation at every frame; never a second one.
RecommendsEveryFrame(beamId) ==
    beamId \notin Valid[position] /\ BestBeamFor(beamId) # beamId
RecommendsOnce(beamId) ==
    RecommendsEveryFrame(beamId) /\ ~StillPending(beamId)

Recommends(beamId) ==
    /\ beamId \notin Valid[position]
    /\ BestBeamFor(beamId) # beamId
    /\ StillPending(beamId) => timedOut

CheckForHandoverRecommendation(beamId) ==
    IF Recommends(beamId)
    THEN /\ m_askedBeamId' = BestBeamFor(beamId)
         /\ m_hasPendingRequest' = TRUE
         /\ timedOut' = FALSE
    ELSE /\ m_hasPendingRequest' = (StillPending(beamId) /\ beamId \notin Valid[position])
         /\ UNCHANGED <<m_askedBeamId, timedOut>>

\* SendHandoverRecommendation: the message is queued for the serving gateway
\* only when the MAC sees a way to send it; the module is not told.
AfterRecommendation(beamId, possible) ==
    IF Recommends(beamId) /\ possible
    THEN Append(ctrlQueue, [gw |-> GwOf[beamId], beam |-> BestBeamFor(beamId)])
    ELSE ctrlQueue
=============================================================================
