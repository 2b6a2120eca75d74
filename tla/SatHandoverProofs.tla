------------------------- MODULE SatHandoverProofs -------------------------
(***************************************************************************)
(* What holds of a handover for every set of beams, gateways and positions.*)
(* The types, and that the NCC holds the UT in exactly one beam, hold for  *)
(* every loss, delay and order of messages, without the timing that Prompt *)
(* and Aligned assume.  That no user data goes out in another beam's slots *)
(* needs Aligned and no logon; that a handover never ends in a fatal error *)
(* and that the UT follows the NCC need OneAtATime.                        *)
(* That a UT which its beam does not hold goes on asking holds with logon  *)
(* and with transfers that take time; it needs TimuArrives.                *)
(***************************************************************************)
EXTENDS SatHandover, FiniteSetTheorems, SequenceTheorems, TLAPS

\* Without a logon channel a UT never logs off, so no logon adds it to a second
\* scheduler, and a transfer adds it to one as it takes it from the other.
OneBeam ==
    ~UseLogon => /\ m_loggedOn /\ logons = {}
                 /\ \E b \in Existing : m_utInfos = {b}

Inv == TypeOK /\ OneBeam

\* The constants' types are used throughout.
USE BeamAssumption, HandoverAssumption

-----------------------------------------------------------------------------
(* Sequences. *)

LEMMA SubSeqType ==
  ASSUME NEW S, NEW s \in Seq(S), NEW m \in 1 .. Len(s) + 1, NEW n \in 0 .. Len(s)
  PROVE  SubSeq(s, m, n) \in Seq(S)
OBVIOUS

LEMMA RemoveAtType ==
  ASSUME NEW S, NEW s \in Seq(S), NEW i \in DOMAIN s
  PROVE  RemoveAt(s, i) \in Seq(S)
<1>1. SubSeq(s, 1, i - 1) \in Seq(S) /\ SubSeq(s, i + 1, Len(s)) \in Seq(S)
  BY SubSeqType
<1> QED BY <1>1 DEF RemoveAt

LEMMA OnAirType ==
  ASSUME m_beamId \in Existing, NEW s \in Seq(HandoverRecommendations)
  PROVE  OnAir(s) \in Seq(HrsOnAir)
<1>1. DOMAIN s = 1 .. Len(s) /\ Len(s) \in Nat
  OBVIOUS
<1>2. \A i \in 1 .. Len(s) :
         [via |-> m_beamId, gw |-> s[i].gw, beam |-> s[i].beam] \in HrsOnAir
  <2> TAKE i \in 1 .. Len(s)
  <2>1. s[i] \in HandoverRecommendations
    BY <1>1
  <2>2. s[i].gw \in Gateways /\ s[i].beam \in Beams \cup {NoBeam}
    BY <2>1 DEF HandoverRecommendations
  <2> QED BY <2>2 DEF HrsOnAir
<1>3. OnAir(s) \in [1 .. Len(s) -> HrsOnAir]
  BY <1>1, <1>2, Zenon DEF OnAir
<1>4. OnAir(s) \in UNION {[1 .. n -> HrsOnAir] : n \in Nat}
  BY <1>1, <1>3, Zenon
<1> QED BY <1>4, SeqDef, Zenon

\* What is sent from the front of a queue of recommendations, and what remains.
LEMMA SentType ==
  ASSUME m_beamId \in Existing, hrs \in Seq(HrsOnAir),
         NEW q \in Seq(HandoverRecommendations), NEW n \in 0 .. Len(q)
  PROVE  /\ hrs \o OnAir(SubSeq(q, 1, n)) \in Seq(HrsOnAir)
         /\ SubSeq(q, n + 1, Len(q)) \in Seq(HandoverRecommendations)
<1>1. /\ SubSeq(q, 1, n) \in Seq(HandoverRecommendations)
      /\ SubSeq(q, n + 1, Len(q)) \in Seq(HandoverRecommendations)
  BY SubSeqType
<1>2. OnAir(SubSeq(q, 1, n)) \in Seq(HrsOnAir)
  BY <1>1, OnAirType
<1> QED BY <1>1, <1>2

-----------------------------------------------------------------------------
(* The handover module and the frame start. *)

LEMMA ModuleStep ==
  ASSUME ModuleTypeOK, m_beamId \in Existing, CheckForHandoverRecommendation(m_beamId)
  PROVE  /\ BestBeamFor(m_beamId) \in Beams \cup {NoBeam}
         /\ m_askedBeamId' \in Beams \cup {NoBeam}
         /\ m_hasPendingRequest' \in BOOLEAN /\ timedOut' \in BOOLEAN
         /\ \A possible \in BOOLEAN :
               AfterRecommendation(m_beamId, possible) \in Seq(HandoverRecommendations)
<1>1. BestBeamFor(m_beamId) \in Beams \cup {NoBeam}
  BY PositionAssumption DEF ModuleTypeOK, BestBeamFor
<1>2. m_askedBeamId' \in Beams \cup {NoBeam}
  BY <1>1 DEF ModuleTypeOK, CheckForHandoverRecommendation
<1>3. m_hasPendingRequest' \in BOOLEAN /\ timedOut' \in BOOLEAN
  BY Zenon DEF ModuleTypeOK, CheckForHandoverRecommendation, StillPending
<1>4. [gw |-> GwOf[m_beamId], beam |-> BestBeamFor(m_beamId)] \in HandoverRecommendations
  BY <1>1 DEF HandoverRecommendations
<1>5. \A possible \in BOOLEAN :
         AfterRecommendation(m_beamId, possible) \in Seq(HandoverRecommendations)
  BY <1>4 DEF ModuleTypeOK, AfterRecommendation
<1> QED BY <1>1, <1>2, <1>3, <1>5

\* What the branches of DoFrameStart change.
FrameTypeOK ==
  /\ m_beamId \in Existing /\ m_handoverState \in States
  /\ m_handoverMessagesCount \in 0 .. MaxHandoverMessages + 1
  /\ m_timuInfo \in Existing \cup {NoBeam}
  /\ m_loggedOn \in BOOLEAN /\ logonWait \in BOOLEAN
  /\ reconfiguring \in BOOLEAN /\ aloha \in BOOLEAN
  /\ m_tbtps \subseteq 0 .. Offset
  /\ m_askedBeamId \in Beams \cup {NoBeam}
  /\ m_hasPendingRequest \in BOOLEAN /\ timedOut \in BOOLEAN
  /\ ctrlQueue \in Seq(HandoverRecommendations)
  /\ aborted \in Fatals /\ hrs \in Seq(HrsOnAir) /\ logons \subseteq Logons

\* Random access sends a prefix of the queue, perhaps nothing.
LEMMA RandomAccessSends ==
  ASSUME NEW q \in Seq(HandoverRecommendations), RandomAccess(q)
  PROVE  \E n \in 0 .. Len(q) : /\ hrs' = hrs \o OnAir(SubSeq(q, 1, n))
                                /\ ctrlQueue' = SubSeq(q, n + 1, Len(q))
<1>1. Len(q) \in Nat
  OBVIOUS
<1>2. PICK n \in IF "CRDSA" \in RaModel /\ AgedTbtps = {} THEN 0 .. Len(q) ELSE {0} :
         /\ hrs' = hrs \o OnAir(SubSeq(q, 1, n))
         /\ ctrlQueue' = SubSeq(q, n + 1, Len(q))
  BY Zenon DEF RandomAccess
<1>3. n \in 0 .. Len(q)
  BY <1>1, <1>2
<1> QED BY <1>2, <1>3

LEMMA FrameStep ==
  ASSUME TypeOK, ApplyTimu \/ CheckBeam \/ GiveUp \/ SendLogon \/ TxDisabled
  PROVE  FrameTypeOK'
<1> USE DEF States
<1>0. FrameTypeOK /\ ModuleTypeOK
  BY DEF TypeOK, ModuleTypeOK, NccTypeOK, FrameTypeOK
<1>1. AgedTbtps \subseteq 0 .. Offset
  BY DEF TypeOK, AgedTbtps
<1>2. ASSUME ApplyTimu PROVE FrameTypeOK'
  BY <1>0, <1>2 DEF ApplyTimu, FrameTypeOK, moduleVars
<1>3. ASSUME CheckBeam PROVE FrameTypeOK'
  <2> DEFINE possible == ControlMsgTransmissionPossible(AgedTbtps)
             queue == AfterRecommendation(m_beamId, possible)
  <2>1. /\ m_askedBeamId' \in Beams \cup {NoBeam}
        /\ m_hasPendingRequest' \in BOOLEAN /\ timedOut' \in BOOLEAN
        /\ \A p \in BOOLEAN :
              AfterRecommendation(m_beamId, p) \in Seq(HandoverRecommendations)
    BY <1>0, <1>3, ModuleStep DEF CheckBeam, FrameTypeOK
  <2>2. possible \in BOOLEAN
    BY <1>0, Zenon DEF FrameTypeOK, ControlMsgTransmissionPossible
  <2>3. queue \in Seq(HandoverRecommendations)
    BY <2>1, <2>2
  <2>4. RandomAccess(queue)
    BY <1>3 DEF CheckBeam
  <2>5. PICK n \in 0 .. Len(queue) :
           /\ hrs' = hrs \o OnAir(SubSeq(queue, 1, n))
           /\ ctrlQueue' = SubSeq(queue, n + 1, Len(queue))
    <3> HIDE DEF queue
    <3> QED BY <2>3, <2>4, RandomAccessSends
  <2>6. ctrlQueue' \in Seq(HandoverRecommendations) /\ hrs' \in Seq(HrsOnAir)
    <3> HIDE DEF queue
    <3> QED BY <1>0, <2>3, <2>5, SentType DEF FrameTypeOK
  <2>7. /\ m_handoverState' \in States
        /\ m_handoverMessagesCount' \in 0 .. MaxHandoverMessages + 1
    BY <1>0, <1>3 DEF CheckBeam, FrameTypeOK, StateAfterRecommendation,
                      CountAfterRecommendation
  <2>8. aloha' \in BOOLEAN
    BY Zenon, <1>0, <1>3 DEF CheckBeam, FrameTypeOK, TriggersAloha
  <2>9. m_tbtps' \subseteq 0 .. Offset
    BY <1>1, <1>3 DEF CheckBeam
  <2>10. UNCHANGED <<m_beamId, m_timuInfo, m_loggedOn, logonWait, reconfiguring,
                     aborted, logons>>
    BY <1>3 DEF CheckBeam
  <2> QED BY <1>0, <2>1, <2>6, <2>7, <2>8, <2>9, <2>10 DEF FrameTypeOK
<1>4. ASSUME GiveUp PROVE FrameTypeOK'
  <2> DEFINE possible == ControlMsgTransmissionPossible(AgedTbtps)
  <2>1. /\ m_askedBeamId' \in Beams \cup {NoBeam}
        /\ m_hasPendingRequest' \in BOOLEAN /\ timedOut' \in BOOLEAN
        /\ \A p \in BOOLEAN :
              AfterRecommendation(m_beamId, p) \in Seq(HandoverRecommendations)
    BY <1>0, <1>4, ModuleStep DEF GiveUp, FrameTypeOK
  <2>2. possible \in BOOLEAN
    BY <1>0, Zenon DEF FrameTypeOK, ControlMsgTransmissionPossible
  <2>3. ctrlQueue' \in Seq(HandoverRecommendations)
    BY <1>4, <2>1, <2>2 DEF GiveUp
  <2>4. aloha' \in BOOLEAN
    BY Zenon, <1>0, <1>4 DEF GiveUp, FrameTypeOK, TriggersAloha
  <2>5. m_beamId' \in Existing /\ aborted' \in Fatals
    BY <1>0, <1>4 DEF GiveUp, FrameTypeOK, Fatals
  <2>6. /\ m_handoverMessagesCount' = 0 /\ m_loggedOn' = FALSE /\ m_tbtps' = {}
        /\ m_handoverState' = "NO_HANDOVER" /\ logonWait' = FALSE
        /\ reconfiguring' = TRUE /\ UNCHANGED <<m_timuInfo, hrs, logons>>
    BY <1>4 DEF GiveUp
  <2>7. /\ m_loggedOn' \in BOOLEAN /\ logonWait' \in BOOLEAN /\ reconfiguring' \in BOOLEAN
    BY <2>6, Zenon
  <2>8. /\ m_handoverMessagesCount' \in 0 .. MaxHandoverMessages + 1
        /\ m_tbtps' \subseteq 0 .. Offset /\ m_handoverState' \in States
        /\ m_timuInfo' \in Existing \cup {NoBeam}
        /\ hrs' \in Seq(HrsOnAir) /\ logons' \subseteq Logons
    BY <1>0, <2>6 DEF FrameTypeOK
  <2> QED BY <2>1, <2>3, <2>4, <2>5, <2>7, <2>8 DEF FrameTypeOK
<1>5. ASSUME SendLogon PROVE FrameTypeOK'
  <2>1. [via |-> m_beamId, gw |-> GwOf[m_beamId]] \in Logons
    BY <1>0 DEF FrameTypeOK, Logons
  <2> QED BY <1>0, <1>1, <1>5, <2>1 DEF SendLogon, FrameTypeOK, moduleVars
<1>6. ASSUME TxDisabled PROVE FrameTypeOK'
  BY <1>0, <1>1, <1>6 DEF TxDisabled, FrameTypeOK, moduleVars
<1> QED BY <1>2, <1>3, <1>4, <1>5, <1>6

-----------------------------------------------------------------------------
(* The NCC. *)

LEMMA SendToType ==
  ASSUME NccTypeOK, NEW via \in Existing, NEW beam \in Existing, SendTo(via, beam)
  PROVE  timus' \subseteq Timus
<1>1. [via |-> via, beam |-> beam] \in Timus
  BY DEF Timus
<1> QED BY <1>1 DEF SendTo, NccTypeOK

LEMMA MoveUtStep ==
  ASSUME NccTypeOK, NEW src \in Existing, NEW dest, MoveUtBetweenBeams(src, dest)
  PROVE  NccTypeOK' /\ UNCHANGED m_utInfos
<1>1. ASSUME CancelHandover(src, dest) PROVE NccTypeOK' /\ UNCHANGED m_utInfos
  <2>1. timus' \subseteq Timus
    BY <1>1, SendToType DEF CancelHandover
  <2> QED BY <1>1, <2>1 DEF CancelHandover, NccTypeOK
<1>2. ASSUME PerformHandover(src, dest) PROVE NccTypeOK' /\ UNCHANGED m_utInfos
  <2>1. timus' \subseteq Timus
    BY <1>2, SendToType DEF PerformHandover
  <2>2. [src |-> src, dest |-> dest] \in Moves
    BY <1>2 DEF PerformHandover, Moves
  <2>3. moves' \in Seq(Moves)
    BY <1>2, <2>2 DEF PerformHandover, NccTypeOK
  <2> QED BY <1>2, <2>1, <2>3 DEF PerformHandover, NccTypeOK
<1>3. ASSUME HandoverAlreadyPerformed(src, dest) PROVE NccTypeOK' /\ UNCHANGED m_utInfos
  <2>1. timus' \subseteq Timus
    BY <1>3, SendToType DEF HandoverAlreadyPerformed
  <2> QED BY <1>3, <2>1 DEF HandoverAlreadyPerformed, NccTypeOK
<1>4. ASSUME InconsistentHandover(src, dest) PROVE NccTypeOK' /\ UNCHANGED m_utInfos
  BY <1>4 DEF InconsistentHandover, NccTypeOK, Fatals
<1> QED BY <1>1, <1>2, <1>3, <1>4 DEF MoveUtBetweenBeams

\* A transfer takes the UT from one scheduler to one other, or changes nothing.
LEMMA TransferStep ==
  ASSUME NccTypeOK, DoMoveUtBetweenBeams
  PROVE  /\ NccTypeOK'
         /\ \/ UNCHANGED m_utInfos
            \/ \E src, dest \in Existing :
                  /\ src \in m_utInfos /\ dest \notin m_utInfos
                  /\ m_utInfos' = (m_utInfos \cup {dest}) \ {src}
<1> DEFINE m == Head(moves)
<1>1. m \in Moves /\ Tail(moves) \in Seq(Moves)
  BY DEF NccTypeOK, DoMoveUtBetweenBeams
<1>2. m.src \in Existing /\ m.dest \in Existing
  BY <1>1 DEF Moves
<1>3. moves' \in Seq(Moves) /\ UNCHANGED timus
  BY <1>1 DEF DoMoveUtBetweenBeams
<1>4. TransferUtToBeam(m.src, m.dest)
  BY DEF DoMoveUtBetweenBeams
<1> HIDE DEF m
<1>5. /\ aborted' \in Fatals /\ m_utInfos' \subseteq Existing
      /\ \/ UNCHANGED m_utInfos
         \/ /\ m.src \in m_utInfos /\ m.dest \notin m_utInfos
            /\ m_utInfos' = (m_utInfos \cup {m.dest}) \ {m.src}
  BY <1>2, <1>4 DEF TransferUtToBeam, HasUt, NccTypeOK, Fatals
<1> QED BY <1>2, <1>3, <1>5 DEF NccTypeOK


-----------------------------------------------------------------------------
(* Every step keeps the types. *)

LEMMA FrameStartType ==
  ASSUME TypeOK, DoFrameStart PROVE TypeOK'
<1>1. FrameTypeOK'
  BY FrameStep DEF DoFrameStart
<1>2. m_firstTransmittable' \in 0 .. Offset
  BY DEF DoFrameStart, TypeOK, Aged
<1>3. slots' \subseteq Slots
  <2>1. \A s \in slots : s \in Slots /\ s.in # 0
    BY DEF DoFrameStart, TypeOK
  <2>2. \A s \in slots : [beam |-> s.beam, in |-> s.in - 1] \in Slots
    BY <2>1 DEF Slots
  <2> QED BY <2>2 DEF DoFrameStart
<1>4. tbtps' \subseteq Tbtps
  <2>1. \A t \in tbtps : t \in Tbtps /\ t.in > 1
    BY DEF DoFrameStart, TypeOK
  <2>2. \A t \in tbtps : [beam |-> t.beam, in |-> t.in - 1, mine |-> t.mine] \in Tbtps
    BY <2>1 DEF Tbtps
  <2> QED BY <2>2 DEF DoFrameStart
<1>5. scheduled' \in BOOLEAN
  BY Zenon DEF DoFrameStart
<1>6. /\ position' \in Positions /\ m_utInfos' \subseteq Existing
      /\ moves' \in Seq(Moves) /\ timus' \subseteq Timus
      /\ responses' \subseteq Existing /\ lost' \in [Kinds -> Nat]
  BY DEF DoFrameStart, TypeOK, ModuleTypeOK, NccTypeOK
<1> QED
  BY <1>1, <1>2, <1>3, <1>4, <1>5, <1>6
     DEF FrameTypeOK, TypeOK, ModuleTypeOK, NccTypeOK

LEMMA AssignChannelsType ==
  ASSUME TypeOK, AssignNewSatChannels PROVE TypeOK'
BY DEF AssignNewSatChannels, TypeOK, ModuleTypeOK, NccTypeOK, moduleVars, nccVars,
       slotVars, airVars

LEMMA TransmitType ==
  ASSUME TypeOK, DoTransmit \/ DoSlottedAlohaTransmit PROVE TypeOK'
<1>1. /\ m_beamId \in Existing /\ hrs \in Seq(HrsOnAir)
      /\ ctrlQueue \in Seq(HandoverRecommendations)
  BY DEF TypeOK, ModuleTypeOK
<1>2. ctrlQueue' \in Seq(HandoverRecommendations) /\ hrs' \in Seq(HrsOnAir)
  <2>1. PICK n \in 0 .. Len(ctrlQueue) :
           /\ hrs' = hrs \/ hrs' = hrs \o OnAir(SubSeq(ctrlQueue, 1, n))
           /\ ctrlQueue' = SubSeq(ctrlQueue, n + 1, Len(ctrlQueue))
    BY Zenon DEF DoTransmit, DoSlottedAlohaTransmit
  <2>2. /\ hrs \o OnAir(SubSeq(ctrlQueue, 1, n)) \in Seq(HrsOnAir)
        /\ SubSeq(ctrlQueue, n + 1, Len(ctrlQueue)) \in Seq(HandoverRecommendations)
    BY <1>1, SentType
  <2> QED BY <1>1, <2>1, <2>2
<1>3. slots' \subseteq Slots /\ m_tbtps' \subseteq 0 .. Offset
  BY DEF TypeOK, DoTransmit, DoSlottedAlohaTransmit
<1>4. aloha' \in BOOLEAN
  BY Zenon DEF TypeOK, DoTransmit, DoSlottedAlohaTransmit
<1>5. UNCHANGED <<position, moduleVars, nccVars, macVars, scheduled, tbtps, logons,
                  responses, lost>>
  BY DEF DoTransmit, DoSlottedAlohaTransmit
<1> QED
  BY <1>2, <1>3, <1>4, <1>5
     DEF TypeOK, ModuleTypeOK, NccTypeOK, moduleVars, nccVars, macVars

LEMMA TbtpType ==
  ASSUME TypeOK, ReceiveTbtp PROVE TypeOK'
<1>1. PICK t \in tbtps :
         /\ tbtps' = tbtps \ {t}
         /\ IF ~Listens(t.beam)
            THEN UNCHANGED <<m_handoverState, m_firstTransmittable, m_tbtps, slots>>
            ELSE /\ m_handoverState' = IF m_handoverState = "WAITING_FOR_TBTP"
                                       THEN "NO_HANDOVER" ELSE m_handoverState
                 /\ m_firstTransmittable' = IF m_handoverState = "WAITING_FOR_TBTP"
                                            THEN t.in ELSE m_firstTransmittable
                 /\ ScheduleTimeSlots(t)
  BY Zenon DEF ReceiveTbtp
<1>2. t.in \in 0 .. Offset /\ t.beam \in Existing /\ tbtps' \subseteq Tbtps
  BY <1>1 DEF TypeOK, Tbtps
<1>3. [beam |-> t.beam, in |-> t.in] \in Slots
  BY <1>2 DEF Slots
<1>4. /\ m_handoverState' \in States /\ m_firstTransmittable' \in 0 .. Offset
      /\ m_tbtps' \subseteq 0 .. Offset /\ slots' \subseteq Slots
  BY <1>1, <1>2, <1>3 DEF TypeOK, States, ScheduleTimeSlots
<1>5. UNCHANGED <<position, moduleVars, ctrlQueue, nccVars, m_beamId,
                  m_handoverMessagesCount, m_timuInfo, m_loggedOn, logonWait,
                  reconfiguring, aloha, scheduled, logons, responses, hrs, lost>>
  BY DEF ReceiveTbtp
<1> QED
  BY <1>2, <1>4, <1>5 DEF TypeOK, ModuleTypeOK, NccTypeOK, moduleVars, nccVars

LEMMA TimuType ==
  ASSUME TypeOK, ReceiveTimu PROVE TypeOK'
<1>1. timus' \subseteq Timus /\ m_timuInfo' \in Existing \cup {NoBeam}
  BY DEF TypeOK, NccTypeOK, ReceiveTimu, Timus
<1> QED
  BY <1>1 DEF ReceiveTimu, TypeOK, ModuleTypeOK, NccTypeOK, moduleVars, slotVars, airVars

LEMMA LogonResponseType ==
  ASSUME TypeOK, ReceiveLogonResponse PROVE TypeOK'
<1>1. m_loggedOn' \in BOOLEAN
  BY Zenon DEF TypeOK, ReceiveLogonResponse
<1>2. responses' \subseteq Existing
  BY DEF TypeOK, ReceiveLogonResponse
<1>3. UNCHANGED <<position, moduleVars, ctrlQueue, nccVars, m_beamId, m_handoverState,
                  m_handoverMessagesCount, m_timuInfo, m_firstTransmittable,
                  logonWait, reconfiguring, slotVars, scheduled, tbtps, logons, hrs,
                  lost>>
  BY DEF ReceiveLogonResponse
<1> QED
  BY <1>1, <1>2, <1>3
     DEF TypeOK, ModuleTypeOK, NccTypeOK, moduleVars, nccVars, slotVars

LEMMA ScheduleType ==
  ASSUME TypeOK, Schedule PROVE TypeOK'
<1>1. PICK S \in SUBSET m_utInfos :
         tbtps' = tbtps \cup {[beam |-> b, in |-> Offset, mine |-> b \in S] :
                              b \in m_utInfos \cup Populated}
  BY DEF Schedule
<1>2. m_utInfos \cup Populated \subseteq Existing
  BY DEF TypeOK, NccTypeOK
<1>3. \A b \in Existing : [beam |-> b, in |-> Offset, mine |-> b \in S] \in Tbtps
  BY DEF Tbtps
<1>4. tbtps' \subseteq Tbtps
  BY <1>1, <1>2, <1>3 DEF TypeOK
<1>5. scheduled' \in BOOLEAN
  BY Zenon DEF Schedule
<1> QED
  BY <1>4, <1>5
     DEF Schedule, TypeOK, ModuleTypeOK, NccTypeOK, moduleVars, nccVars, macVars, slotVars

LEMMA RecommendationType ==
  ASSUME TypeOK, ReceiveHandoverRecommendation PROVE TypeOK' /\ UNCHANGED m_utInfos
<1>1. PICK i \in DOMAIN hrs :
         /\ IF hrs[i].gw = GwOf[hrs[i].via]
            THEN MoveUtBetweenBeams(hrs[i].via, hrs[i].beam)
            ELSE UNCHANGED nccVars
         /\ hrs' = RemoveAt(hrs, i)
  BY DEF ReceiveHandoverRecommendation
<1>2. hrs' \in Seq(HrsOnAir) /\ hrs[i].via \in Existing
  <2>1. hrs \in Seq(HrsOnAir)
    BY DEF TypeOK
  <2>2. hrs[i] \in HrsOnAir
    BY <2>1
  <2>3. hrs' \in Seq(HrsOnAir)
    BY <1>1, <2>1, RemoveAtType
  <2> QED BY <2>2, <2>3 DEF HrsOnAir
<1>3. NccTypeOK' /\ UNCHANGED m_utInfos
  BY <1>1, <1>2, MoveUtStep DEF TypeOK, NccTypeOK, nccVars
<1> QED
  BY <1>2, <1>3
     DEF ReceiveHandoverRecommendation, TypeOK, ModuleTypeOK, moduleVars, macVars, slotVars

LEMMA TransferType ==
  ASSUME TypeOK, TransferUt PROVE TypeOK'
<1>1. NccTypeOK'
  BY TransferStep DEF TransferUt, TypeOK
<1> QED
  BY <1>1 DEF TransferUt, TypeOK, ModuleTypeOK, moduleVars, macVars, slotVars, airVars

LEMMA LogonType ==
  ASSUME TypeOK, ReceiveLogon PROVE TypeOK'
<1>1. /\ logons' \subseteq Logons /\ responses' \subseteq Existing
      /\ m_utInfos' \subseteq Existing /\ UNCHANGED <<moves, timus, aborted>>
  BY DEF ReceiveLogon, AddUt, nccVars, TypeOK, NccTypeOK, Logons
<1> QED
  BY <1>1 DEF ReceiveLogon, TypeOK, ModuleTypeOK, NccTypeOK, moduleVars, macVars, slotVars

LEMMA EnvironmentType ==
  ASSUME TypeOK, Move \/ RequestTimeout \/ LogonTimeout PROVE TypeOK'
<1>1. CASE Move
  BY <1>1 DEF Move, TypeOK, ModuleTypeOK, NccTypeOK, moduleVars, nccVars, macVars, slotVars,
     airVars
<1>2. CASE RequestTimeout
  BY <1>2 DEF RequestTimeout, TypeOK, ModuleTypeOK, NccTypeOK, nccVars, macVars, slotVars,
     airVars
<1>3. CASE LogonTimeout
  BY <1>3 DEF LogonTimeout, TypeOK, ModuleTypeOK, NccTypeOK, moduleVars, nccVars, slotVars,
     airVars
<1> QED BY <1>1, <1>2, <1>3

LEMMA LoseType ==
  ASSUME TypeOK, Lose PROVE TypeOK'
<1>1. lost' \in [Kinds -> Nat]
  <2>1. PICK kind \in Kinds : lost' = [lost EXCEPT ![kind] = @ + 1]
    BY DEF Lose, Counted, Kinds
  <2> QED BY <2>1 DEF TypeOK
<1>2. hrs' \in Seq(HrsOnAir)
  <2>1. hrs \in Seq(HrsOnAir)
    BY DEF TypeOK
  <2>2. hrs' = hrs \/ \E i \in DOMAIN hrs : hrs' = RemoveAt(hrs, i)
    BY DEF Lose
  <2> QED BY <2>1, <2>2, RemoveAtType
<1>3. /\ timus' \subseteq Timus /\ tbtps' \subseteq Tbtps /\ logons' \subseteq Logons
      /\ responses' \subseteq Existing
  BY DEF Lose, TypeOK, NccTypeOK
<1>4. UNCHANGED <<position, moduleVars, ctrlQueue, m_utInfos, moves, aborted, macVars,
                  slotVars, scheduled>>
  BY DEF Lose
<1> QED
  BY <1>1, <1>2, <1>3, <1>4
     DEF TypeOK, ModuleTypeOK, NccTypeOK, moduleVars, macVars, slotVars


-----------------------------------------------------------------------------
(* The invariant. *)

LEMMA InitInv == Init => Inv
<1> SUFFICES ASSUME Init PROVE Inv
  OBVIOUS
<1>1. position \in Positions /\ m_beamId \in Existing
  BY DEF Init, ModuleInit
<1>2. m_utInfos \subseteq Existing /\ (~UseLogon => m_utInfos = {m_beamId})
  BY <1>1 DEF Init
<1>3. m_hasPendingRequest \in BOOLEAN /\ timedOut \in BOOLEAN /\ m_loggedOn \in BOOLEAN
  BY Zenon, PendingAssumption DEF Init, ModuleInit
<1>4. TypeOK
  <2>1. ModuleTypeOK
    BY <1>1, <1>3 DEF Init, ModuleInit, ModuleTypeOK
  <2>2. NccTypeOK
    BY <1>2 DEF Init, NccTypeOK, Fatals
  <2>3. hrs \in Seq(HrsOnAir) /\ lost \in [Kinds -> Nat]
    BY DEF Init
  <2>4. /\ logonWait \in BOOLEAN /\ reconfiguring \in BOOLEAN /\ aloha \in BOOLEAN
        /\ scheduled \in BOOLEAN
    BY Zenon DEF Init
  <2> QED BY <1>1, <1>3, <2>1, <2>2, <2>3, <2>4 DEF Init, TypeOK, States
<1>5. OneBeam
  BY <1>1, <1>2 DEF Init, OneBeam
<1> QED BY <1>4, <1>5 DEF Inv

LEMMA TypeStep ==
  ASSUME TypeOK, Next PROVE TypeOK'
BY FrameStartType, AssignChannelsType, TransmitType, TbtpType, TimuType, LogonResponseType,
   ScheduleType, RecommendationType, TransferType, LogonType, EnvironmentType, LoseType
   DEF Next, UtNext, NccNext

LEMMA OneBeamStep ==
  ASSUME TypeOK, OneBeam, Next PROVE OneBeam'
<1> SUFFICES ASSUME ~UseLogon
             PROVE  m_loggedOn' /\ logons' = {} /\ \E b \in Existing : m_utInfos' = {b}
  BY Zenon DEF OneBeam
<1>0. m_loggedOn /\ logons = {} /\ \E b \in Existing : m_utInfos = {b}
  BY DEF OneBeam
<1>1. ASSUME DoFrameStart
      PROVE  UNCHANGED <<m_loggedOn, logons, m_utInfos>>
  <2>1. ~GiveUp /\ ~SendLogon
    BY <1>0 DEF GiveUp, GivesUp, SendLogon
  <2>2. UNCHANGED <<m_loggedOn, logons>>
    BY <1>1, <2>1 DEF DoFrameStart, ApplyTimu, CheckBeam, TxDisabled
  <2> QED BY <1>1, <2>2 DEF DoFrameStart
<1>2. ASSUME ReceiveLogonResponse
      PROVE  m_loggedOn' /\ UNCHANGED <<logons, m_utInfos>>
  BY <1>0, <1>2 DEF ReceiveLogonResponse, nccVars
<1>3. ASSUME ReceiveHandoverRecommendation
      PROVE  UNCHANGED <<m_loggedOn, logons, m_utInfos>>
  BY <1>3, RecommendationType DEF ReceiveHandoverRecommendation, macVars
<1>4. ASSUME TransferUt
      PROVE  /\ UNCHANGED <<m_loggedOn, logons>>
             /\ \E b \in Existing : m_utInfos' = {b}
  <2>1. \/ UNCHANGED m_utInfos
        \/ \E src, dest \in Existing :
              /\ src \in m_utInfos /\ dest \notin m_utInfos
              /\ m_utInfos' = (m_utInfos \cup {dest}) \ {src}
    BY <1>4, TransferStep DEF TransferUt, TypeOK
  <2>2. \E b \in Existing : m_utInfos' = {b}
    BY <1>0, <2>1
  <2> QED BY <1>4, <2>2 DEF TransferUt, macVars, airVars
<1>5. ~ReceiveLogon
  BY <1>0 DEF ReceiveLogon
<1>6. ASSUME \/ AssignNewSatChannels \/ DoTransmit \/ DoSlottedAlohaTransmit
             \/ ReceiveTbtp \/ ReceiveTimu \/ Schedule \/ Move \/ RequestTimeout
             \/ LogonTimeout
      PROVE  UNCHANGED <<m_loggedOn, logons, m_utInfos>>
  BY <1>6 DEF AssignNewSatChannels, DoTransmit, DoSlottedAlohaTransmit, ReceiveTbtp,
              ReceiveTimu, Schedule, Move, RequestTimeout, LogonTimeout, nccVars,
              macVars, airVars
<1>7. ASSUME Lose
      PROVE  UNCHANGED <<m_loggedOn, m_utInfos>> /\ logons' = {}
  BY <1>0, <1>7 DEF Lose, macVars
<1>8. CASE DoFrameStart BY <1>0, <1>1, <1>8, Zenon
<1>9. CASE ReceiveLogonResponse BY <1>0, <1>2, <1>9, Zenon
<1>10. CASE ReceiveHandoverRecommendation BY <1>0, <1>3, <1>10, Zenon
<1>11. CASE TransferUt BY <1>0, <1>4, <1>11, Zenon
<1>12. CASE Lose BY <1>0, <1>7, <1>12, Zenon
<1>13. CASE \/ AssignNewSatChannels \/ DoTransmit \/ DoSlottedAlohaTransmit
            \/ ReceiveTbtp \/ ReceiveTimu \/ Schedule \/ Move \/ RequestTimeout
            \/ LogonTimeout
  BY <1>0, <1>6, <1>13, Zenon
<1> QED
  BY <1>5, <1>8, <1>9, <1>10, <1>11, <1>12, <1>13 DEF Next, UtNext, NccNext

\* The types and the one beam are an inductive invariant, whatever is lost, late
\* or out of order.
THEOREM HandoverInvariant == Spec => []Inv
<1>1. Inv /\ [Next]_vars => Inv'
  <2> SUFFICES ASSUME Inv, [Next]_vars PROVE Inv'
    OBVIOUS
  <2>1. CASE Next
    BY <2>1, TypeStep, OneBeamStep DEF Inv
  <2>2. CASE UNCHANGED vars
    BY <2>2 DEF vars, Inv, OneBeam, TypeOK, ModuleTypeOK, NccTypeOK, moduleVars, nccVars,
                macVars, slotVars, airVars
  <2> QED BY <2>1, <2>2
<1> QED BY <1>1, InitInv, PTL DEF Spec

\* The variables keep their types.
THEOREM HandoverTypeCorrect == Spec => []TypeOK
<1>1. Inv => TypeOK
  BY DEF Inv
<1> QED BY <1>1, HandoverInvariant, PTL

\* Without logon one beam scheduler, and one only, holds the UT, whatever is lost,
\* repeated or late: TransferUtToBeam is right in every order of events.
THEOREM HeldByOneBeam == Spec => []ExactlyOneBeam
<1>1. Inv => ExactlyOneBeam
  <2> SUFFICES ASSUME Inv, ~UseLogon PROVE Cardinality(m_utInfos) = 1
    BY DEF ExactlyOneBeam
  <2>1. PICK b \in Existing : m_utInfos = {b}
    BY DEF Inv, OneBeam
  <2> QED BY <2>1, FS_Singleton
<1> QED BY <1>1, HandoverInvariant, PTL

\* With logon or without, no transfer takes the UT out of the last scheduler that
\* holds it, and a logon only adds it to one.
THEOREM UtNeverForgotten == Spec => NeverForgotten
<1> DEFINE Kept == m_utInfos # {} => m_utInfos' # {}
<1>1. Inv /\ [Next]_vars => [Kept]_vars
  <2> SUFFICES ASSUME Inv, Next, m_utInfos # {} PROVE m_utInfos' # {}
    OBVIOUS
  <2>0. TypeOK
    BY DEF Inv
  <2>1. CASE TransferUt
    <3>1. \/ UNCHANGED m_utInfos
          \/ \E src, dest \in Existing :
                /\ src \in m_utInfos /\ dest \notin m_utInfos
                /\ m_utInfos' = (m_utInfos \cup {dest}) \ {src}
      BY <2>0, <2>1, TransferStep DEF TransferUt, TypeOK
    <3> QED BY <3>1
  <2>2. CASE ReceiveLogon
    BY <2>2 DEF ReceiveLogon, AddUt, nccVars
  <2>3. CASE ReceiveHandoverRecommendation
    BY <2>0, <2>3, RecommendationType
  <2>4. CASE UtNext \/ Schedule \/ Move \/ RequestTimeout \/ LogonTimeout \/ Lose
    BY <2>4 DEF UtNext, DoFrameStart, AssignNewSatChannels, DoTransmit,
                DoSlottedAlohaTransmit, ReceiveTbtp, ReceiveTimu, ReceiveLogonResponse,
                Schedule, Move, RequestTimeout, LogonTimeout, Lose, nccVars
  <2> QED BY <2>1, <2>2, <2>3, <2>4 DEF Next, NccNext
<1> QED BY <1>1, HandoverInvariant, PTL DEF Spec, NeverForgotten

-----------------------------------------------------------------------------
(* The slots of the old beam. *)

\* A slot of another beam belongs to the current superframe, and the MAC still
\* waits for its first TBTP or for the superframe that TBTP opened.
SlotsMasked ==
  \A s \in slots :
    /\ s.in \in {0, 1}
    /\ s.in = 1 => s.beam = m_beamId
    /\ s.in = 0 /\ s.beam # m_beamId => \/ m_handoverState = "WAITING_FOR_TBTP"
                                        \/ m_firstTransmittable > 0

LEMMA SlotsMaskedStep ==
  ASSUME ~UseLogon, Aligned, Inv, SlotsMasked, [Next]_vars PROVE SlotsMasked'
<1>0. TypeOK /\ m_loggedOn
  BY DEF Inv, OneBeam
<1>1. CASE DoFrameStart
  <2>1. PICK b \in Existing : b = m_beamId
    BY <1>0 DEF TypeOK
  <2>2. slots' = {[beam |-> s.beam, in |-> s.in - 1] : s \in slots}
    BY <1>1 DEF DoFrameStart
  <2>3. \A s \in slots : s.in = 1 /\ s.beam = b
    BY <1>1, <2>1 DEF SlotsMasked, DoFrameStart
  <2>4. \A s \in slots' : s.in = 0 /\ s.beam = b
    BY <2>2, <2>3
  <2>5. m_handoverState' = "WAITING_FOR_TBTP" \/ m_beamId' = b
    BY <1>0, <1>1, <2>1 DEF DoFrameStart, ApplyTimu, CheckBeam, GiveUp, GivesUp, SendLogon,
                            TxDisabled
  <2> QED BY <2>4, <2>5 DEF SlotsMasked
<1>2. CASE ReceiveTbtp
  <2>1. PICK t \in tbtps :
           /\ t.in = 1
           /\ IF ~Listens(t.beam)
              THEN UNCHANGED <<m_handoverState, m_firstTransmittable, m_tbtps, slots>>
              ELSE /\ m_handoverState' = IF m_handoverState = "WAITING_FOR_TBTP"
                                         THEN "NO_HANDOVER" ELSE m_handoverState
                   /\ m_firstTransmittable' = IF m_handoverState = "WAITING_FOR_TBTP"
                                              THEN t.in ELSE m_firstTransmittable
                   /\ ScheduleTimeSlots(t)
    BY <1>2, Zenon DEF ReceiveTbtp
  <2>2. UNCHANGED m_beamId
    BY <1>2 DEF ReceiveTbtp
  <2>3. CASE ~Listens(t.beam)
    BY <2>1, <2>2, <2>3 DEF SlotsMasked
  <2>4. CASE Listens(t.beam)
    <3>1. slots' \subseteq slots \cup {[beam |-> m_beamId, in |-> 1]}
      BY <2>1, <2>4 DEF ScheduleTimeSlots, Listens
    <3>2. \/ UNCHANGED <<m_handoverState, m_firstTransmittable>>
          \/ m_firstTransmittable' = 1
      BY <2>1, <2>4
    <3> QED BY <2>2, <3>1, <3>2 DEF SlotsMasked
  <2> QED BY <2>3, <2>4
<1>3. ASSUME slots' \subseteq slots,
             UNCHANGED <<m_beamId, m_handoverState, m_firstTransmittable>>
      PROVE  SlotsMasked'
  BY <1>3 DEF SlotsMasked
<1>4. CASE DoTransmit
  BY <1>3, <1>4 DEF DoTransmit, macVars
<1>5. CASE \/ AssignNewSatChannels \/ DoSlottedAlohaTransmit \/ ReceiveTimu
           \/ ReceiveLogonResponse \/ NccNext \/ Move \/ RequestTimeout \/ LogonTimeout
           \/ Lose \/ UNCHANGED vars
  BY <1>3, <1>5 DEF AssignNewSatChannels, DoSlottedAlohaTransmit, ReceiveTimu,
     ReceiveLogonResponse, NccNext, Schedule, ReceiveHandoverRecommendation, TransferUt,
     ReceiveLogon, Move, RequestTimeout, LogonTimeout, Lose, macVars, slotVars, vars
<1> QED BY <1>1, <1>2, <1>4, <1>5 DEF Next, UtNext

\* Without logon, and with the TBTPs of a superframe arriving between the same two
\* frame starts, no user data goes out in a slot another beam allocated, however
\* late the antenna, the TIM-U or a timer: the masking of
\* m_firstTransmittableSuperframeId is enough although the slots are not cancelled.
\* With logon it is not: a UT that gives up is in NO_HANDOVER at once.
THEOREM DataKeepsToItsBeam ==
  ASSUME ~UseLogon, Aligned PROVE Spec => []NoDataInForeignSlots
<1>1. Init => SlotsMasked
  BY DEF Init, SlotsMasked
<1>2. Inv /\ SlotsMasked /\ [Next]_vars => SlotsMasked'
  BY SlotsMaskedStep
<1>3. SlotsMasked => NoDataInForeignSlots
  BY DEF SlotsMasked, NoDataInForeignSlots, RegularScheduling
<1> QED BY <1>1, <1>2, <1>3, HandoverInvariant, PTL DEF Spec
-----------------------------------------------------------------------------
(* The UT follows the NCC. *)

\* The request that is under way is for another beam, has not timed out, and the
\* UT's beam still does not cover it.
AskedFor ==
  /\ m_hasPendingRequest /\ m_askedBeamId # m_beamId /\ ~timedOut
  /\ m_beamId \notin Valid[position]

\* Where the one request of the UT is: nowhere, ...
Idle ==
  /\ ctrlQueue = <<>> /\ hrs = <<>> /\ timus = {} /\ moves = <<>> /\ m_timuInfo = NoBeam
  /\ HasUt(m_beamId)

\* ... in the control queue or on the return link, ...
Asking ==
  /\ timus = {} /\ moves = <<>> /\ m_timuInfo = NoBeam
  /\ HasUt(m_beamId) /\ AskedFor
  /\ \E beam \in (Beams \cup {NoBeam}) \ {m_beamId} :
        \/ /\ ctrlQueue = <<[gw |-> GwOf[m_beamId], beam |-> beam]>>
           /\ hrs = <<>>
        \/ /\ ctrlQueue = <<>>
           /\ hrs = <<[via |-> m_beamId, gw |-> GwOf[m_beamId], beam |-> beam]>>

\* ... granted, with the transfer still to be made, ...
Transferring ==
  /\ ctrlQueue = <<>> /\ hrs = <<>> /\ m_timuInfo = NoBeam
  /\ HasUt(m_beamId) /\ AskedFor
  /\ \E beam \in Existing \ {m_beamId} :
        /\ timus = {[via |-> m_beamId, beam |-> beam]}
        /\ moves = <<[src |-> m_beamId, dest |-> beam]>>

\* ... answered by a TIM-U for the beam that holds the UT, ...
Answered ==
  /\ ctrlQueue = <<>> /\ hrs = <<>> /\ moves = <<>> /\ m_timuInfo = NoBeam
  /\ AskedFor
  /\ \E beam \in Existing : HasUt(beam) /\ timus = {[via |-> m_beamId, beam |-> beam]}

\* ... or received, to be applied at the next frame start.
Following ==
  /\ ctrlQueue = <<>> /\ hrs = <<>> /\ timus = {} /\ moves = <<>>
  /\ m_timuInfo # NoBeam /\ HasUt(m_timuInfo)

OneRequest ==
  /\ aborted = "NO" /\ responses = {}
  /\ reconfiguring => Idle
  /\ Idle \/ Asking \/ Transferring \/ Answered \/ Following

\* The assumptions under which the UT asks for one handover at a time.
OneAtATime == ~UseLogon /\ Prompt /\ ~HandoverDelay /\ MaxLoss["TIMU"] = 0

LEMMA PhaseIsOutstanding ==
  ASSUME Asking \/ Transferring \/ Answered \/ Following PROVE Outstanding
<1>1. \A x : <<x>> # <<>> /\ {x} # {}
  OBVIOUS
<1>2. CASE Asking
  BY <1>1, <1>2, Zenon DEF Asking, Outstanding
<1>3. CASE Transferring
  BY <1>1, <1>3, Zenon DEF Transferring, Outstanding
<1>4. CASE Answered
  BY <1>1, <1>4, Zenon DEF Answered, Outstanding
<1>5. CASE Following
  BY <1>5 DEF Following, Outstanding
<1> QED BY <1>2, <1>3, <1>4, <1>5

\* A queue of at most one recommendation goes out whole or not at all.
LEMMA SentAlone ==
  ASSUME NEW r, NEW q \in {<<>>, <<r>>}, NEW n \in 0 .. Len(q)
  PROVE  \/ OnAir(SubSeq(q, 1, n)) = <<>> /\ SubSeq(q, n + 1, Len(q)) = q
         \/ /\ q = <<r>> /\ SubSeq(q, n + 1, Len(q)) = <<>>
            /\ OnAir(SubSeq(q, 1, n)) = <<[via |-> m_beamId, gw |-> r.gw, beam |-> r.beam]>>
<1> DEFINE Sent == [via |-> m_beamId, gw |-> r.gw, beam |-> r.beam]
<1>1. OnAir(<<>>) = <<>>
  BY DEF OnAir
<1>2. OnAir(<<r>>) = <<Sent>>
  <2>1. DOMAIN <<r>> = 1 .. 1 /\ <<r>>[1] = r
    OBVIOUS
  <2>2. OnAir(<<r>>) = [i \in 1 .. 1 |-> Sent]
    BY <2>1 DEF OnAir
  <2> HIDE DEF Sent
  <2> QED BY <2>2
<1>3. SubSeq(<<>>, 1, 0) = <<>> /\ Len(<<>>) = 0
  OBVIOUS
<1>4. SubSeq(<<r>>, 1, 0) = <<>> /\ SubSeq(<<r>>, 2, 1) = <<>>
  OBVIOUS
<1>5. SubSeq(<<r>>, 1, 1) = <<r>> /\ Len(<<r>>) = 1
  <2>1. <<r>> \in Seq({r}) /\ Len(<<r>>) = 1
    OBVIOUS
  <2> QED BY <2>1, SubSeqFull
<1>6. CASE q = <<>>
  <2>1. n \in 0 .. 0
    BY <1>3, <1>6, Zenon
  <2>2. n = 0
    BY <2>1
  <2>3. 0 + 1 = 1 /\ SubSeq(<<>>, 1, Len(<<>>)) = <<>>
    OBVIOUS
  <2> QED BY <1>1, <1>3, <1>6, <2>2, <2>3, Zenon
<1>7. CASE q = <<r>>
  <2>1. n \in 0 .. 1
    BY <1>5, <1>7, Zenon
  <2>2. n = 0 \/ n = 1
    BY <2>1
  <2>3. 0 + 1 = 1 /\ 1 + 1 = 2
    OBVIOUS
  <2> QED BY <1>1, <1>2, <1>4, <1>5, <1>7, <2>2, <2>3, Zenon
<1> QED BY <1>6, <1>7

\* The request in the queue is sent, or stays there.
LEMMA AskingSends ==
  ASSUME TypeOK, NEW q,
         \/ q = <<>>
         \/ /\ hrs = <<>>
            /\ \E beam \in (Beams \cup {NoBeam}) \ {m_beamId} :
                  q = <<[gw |-> GwOf[m_beamId], beam |-> beam]>>,
         NEW n \in 0 .. Len(q),
         hrs' = hrs \o OnAir(SubSeq(q, 1, n)), ctrlQueue' = SubSeq(q, n + 1, Len(q))
  PROVE  /\ q = <<>> => UNCHANGED hrs /\ ctrlQueue' = <<>>
         /\ q # <<>> =>
              \E beam \in (Beams \cup {NoBeam}) \ {m_beamId} :
                \/ /\ ctrlQueue' = <<[gw |-> GwOf[m_beamId], beam |-> beam]>>
                   /\ hrs' = <<>>
                \/ /\ ctrlQueue' = <<>>
                   /\ hrs' = <<[via |-> m_beamId, gw |-> GwOf[m_beamId], beam |-> beam]>>
<1>0. hrs \in Seq(HrsOnAir)
  BY DEF TypeOK
<1>1. CASE q = <<>>
  <2>1. OnAir(SubSeq(q, 1, n)) = <<>> /\ SubSeq(q, n + 1, Len(q)) = <<>>
    BY <1>1, SentAlone
  <2> QED BY <1>0, <1>1, <2>1
<1>2. ASSUME NEW beam \in (Beams \cup {NoBeam}) \ {m_beamId}, hrs = <<>>,
             q = <<[gw |-> GwOf[m_beamId], beam |-> beam]>>
      PROVE  \/ /\ ctrlQueue' = <<[gw |-> GwOf[m_beamId], beam |-> beam]>>
                /\ hrs' = <<>>
             \/ /\ ctrlQueue' = <<>>
                /\ hrs' = <<[via |-> m_beamId, gw |-> GwOf[m_beamId], beam |-> beam]>>
  <2> DEFINE r == [gw |-> GwOf[m_beamId], beam |-> beam]
             h == [via |-> m_beamId, gw |-> GwOf[m_beamId], beam |-> beam]
  <2>1. \/ OnAir(SubSeq(q, 1, n)) = <<>> /\ SubSeq(q, n + 1, Len(q)) = q
        \/ /\ SubSeq(q, n + 1, Len(q)) = <<>>
           /\ OnAir(SubSeq(q, 1, n)) = <<[via |-> m_beamId, gw |-> r.gw, beam |-> r.beam]>>
    BY <1>2, SentAlone
  <2>2. r.gw = GwOf[m_beamId] /\ r.beam = beam
    OBVIOUS
  <2>3. \/ OnAir(SubSeq(q, 1, n)) = <<>> /\ SubSeq(q, n + 1, Len(q)) = q
        \/ /\ SubSeq(q, n + 1, Len(q)) = <<>>
           /\ OnAir(SubSeq(q, 1, n)) = <<h>>
    BY <2>1, <2>2
  <2> HIDE DEF r, h
  <2>4. <<>> \o <<>> = <<>> /\ <<>> \o <<h>> = <<h>>
    OBVIOUS
  <2> QED BY <1>2, <2>3, <2>4 DEF h
<1> QED BY <1>1, <1>2

\* A frame start makes the request, sends it, or applies its answer.
LEMMA FrameRequest ==
  ASSUME OneAtATime, Inv, OneRequest, DoFrameStart PROVE OneRequest'
<1>0. /\ TypeOK /\ m_loggedOn /\ ModuleTypeOK
      /\ moves = <<>> /\ aborted = "NO"
      /\ UNCHANGED <<position, m_utInfos, moves, timus, responses>>
  BY DEF Inv, OneBeam, OneAtATime, DoFrameStart, Running, TypeOK
<1>1. ~GiveUp /\ ~SendLogon
  BY <1>0 DEF OneAtATime, GiveUp, GivesUp, SendLogon
<1>2. ~Transferring
  <2>1. \A x : <<x>> # <<>>
    OBVIOUS
  <2> QED BY <1>0, <2>1, Zenon DEF Transferring
<1>3. CASE ApplyTimu
  <2>1. Following
    BY <1>2, <1>3, Zenon
       DEF OneRequest, ApplyTimu, Idle, Asking, Answered
  <2>2. Idle'
    BY <1>0, <1>3, <2>1 DEF ApplyTimu, Following, Idle, HasUt
  <2> QED BY <1>0, <1>3, <2>2 DEF ApplyTimu, OneRequest
<1>4. CASE TxDisabled
  BY <1>0, <1>4 DEF TxDisabled, OneRequest, Idle, moduleVars, HasUt
<1>5. CASE CheckBeam
  <2> DEFINE possible == ControlMsgTransmissionPossible(AgedTbtps)
             queue == AfterRecommendation(m_beamId, possible)
  <2>1. /\ m_timuInfo = NoBeam /\ ~reconfiguring
        /\ UNCHANGED <<m_beamId, m_timuInfo, reconfiguring, aborted>>
        /\ CheckForHandoverRecommendation(m_beamId)
        /\ RandomAccess(queue)
    BY <1>5 DEF CheckBeam
  <2>2. queue \in Seq(HandoverRecommendations)
    <3>1. possible \in BOOLEAN
      BY <1>0, Zenon DEF TypeOK, ControlMsgTransmissionPossible
    <3> QED BY <1>0, <2>1, <3>1, ModuleStep DEF TypeOK
  <2>3. PICK n \in 0 .. Len(queue) : /\ hrs' = hrs \o OnAir(SubSeq(queue, 1, n))
                                     /\ ctrlQueue' = SubSeq(queue, n + 1, Len(queue))
    <3> HIDE DEF queue
    <3> QED BY <2>1, <2>2, RandomAccessSends
  <2>4. CASE Recommends(m_beamId)
    <3>1. Idle
      BY <1>2, <2>1, <2>4, Zenon
         DEF OneRequest, Asking, Answered, Following, AskedFor, Recommends, StillPending
    <3>2. PICK beam \in Beams \cup {NoBeam} : beam = BestBeamFor(m_beamId)
      BY <1>0, <2>1, ModuleStep DEF TypeOK
    <3>3. beam # m_beamId /\ m_beamId \notin Valid[position]
      BY <2>4, <3>2 DEF Recommends
    <3>4. AskedFor'
      BY <1>0, <2>1, <2>4, <3>2, <3>3 DEF CheckForHandoverRecommendation, AskedFor
    <3>5. queue = <<>> \/ queue = <<[gw |-> GwOf[m_beamId], beam |-> beam]>>
      BY <2>4, <3>1, <3>2 DEF AfterRecommendation, Idle
    <3>6. hrs = <<>> /\ timus = {} /\ moves = <<>> /\ m_timuInfo = NoBeam /\ HasUt(m_beamId)
      BY <3>1 DEF Idle
    <3> HIDE DEF queue
    <3>7. \/ queue = <<>> /\ UNCHANGED hrs /\ ctrlQueue' = <<>>
          \/ \E b \in (Beams \cup {NoBeam}) \ {m_beamId} :
                \/ /\ ctrlQueue' = <<[gw |-> GwOf[m_beamId], beam |-> b]>>
                   /\ hrs' = <<>>
                \/ /\ ctrlQueue' = <<>>
                   /\ hrs' = <<[via |-> m_beamId, gw |-> GwOf[m_beamId], beam |-> b]>>
      BY <1>0, <2>3, <3>3, <3>5, <3>6, AskingSends
    <3>8. Idle' \/ Asking'
      BY <1>0, <2>1, <3>4, <3>6, <3>7 DEF Idle, Asking, HasUt
    <3> QED BY <1>0, <2>1, <3>8 DEF OneRequest
  <2>5. CASE ~Recommends(m_beamId)
    <3>1. queue = ctrlQueue
      BY <2>5 DEF AfterRecommendation
    <3>2. AskedFor => AskedFor'
      BY <1>0, <2>1, <2>5 DEF AskedFor, CheckForHandoverRecommendation, StillPending
    <3> HIDE DEF queue
    <3>3. Idle \/ Asking \/ Answered
      BY <1>2, <2>1 DEF OneRequest, Following
    <3>4. CASE Asking
      <4>1. \E b \in (Beams \cup {NoBeam}) \ {m_beamId} :
                \/ /\ ctrlQueue' = <<[gw |-> GwOf[m_beamId], beam |-> b]>>
                   /\ hrs' = <<>>
                \/ /\ ctrlQueue' = <<>>
                   /\ hrs' = <<[via |-> m_beamId, gw |-> GwOf[m_beamId], beam |-> b]>>
        BY <1>0, <2>3, <3>1, <3>4, AskingSends, Zenon DEF Asking
      <4>2. Asking'
        BY <1>0, <2>1, <3>2, <3>4, <4>1 DEF Asking, HasUt
      <4> QED BY <1>0, <2>1, <4>2 DEF OneRequest
    <3>5. CASE Idle \/ Answered
      <4>1. UNCHANGED <<hrs, ctrlQueue>>
        <5>1. ctrlQueue = <<>>
          BY <3>5 DEF Idle, Answered
        <5> QED BY <1>0, <2>3, <3>1, <5>1, AskingSends
      <4>2. Idle' \/ Answered'
        BY <1>0, <2>1, <3>2, <3>5, <4>1 DEF Idle, Answered, HasUt
      <4> QED BY <1>0, <2>1, <4>2 DEF OneRequest
    <3> QED BY <3>3, <3>4, <3>5
  <2> QED BY <2>4, <2>5
<1> QED BY <1>1, <1>3, <1>4, <1>5 DEF DoFrameStart

LEMMA TransmitRequest ==
  ASSUME OneAtATime, Inv, OneRequest, DoTransmit \/ DoSlottedAlohaTransmit PROVE OneRequest'
<1>0. /\ TypeOK /\ hrs \in Seq(HrsOnAir) /\ ~Transferring
      /\ UNCHANGED <<position, moduleVars, nccVars, macVars, responses>>
  <2>1. \A x : <<x>> # <<>>
    OBVIOUS
  <2>2. ~Transferring
    BY <2>1, Zenon DEF Transferring, DoTransmit, DoSlottedAlohaTransmit, Running, OneAtATime
  <2> QED BY <2>2 DEF Inv, TypeOK, DoTransmit, DoSlottedAlohaTransmit
<1>1. PICK n \in 0 .. Len(ctrlQueue) :
         /\ hrs' = hrs \/ hrs' = hrs \o OnAir(SubSeq(ctrlQueue, 1, n))
         /\ ~reconfiguring => hrs' = hrs \o OnAir(SubSeq(ctrlQueue, 1, n))
         /\ ctrlQueue' = SubSeq(ctrlQueue, n + 1, Len(ctrlQueue))
  BY Zenon DEF DoTransmit, DoSlottedAlohaTransmit
<1>2. CASE ctrlQueue = <<>>
  <2>1. UNCHANGED <<hrs, ctrlQueue>>
    <3>1. OnAir(SubSeq(ctrlQueue, 1, n)) = <<>> /\ ctrlQueue' = <<>>
      BY <1>1, <1>2, SentAlone
    <3> QED BY <1>0, <1>1, <1>2, <3>1
  <2> QED BY <1>0, <2>1
          DEF OneRequest, Idle, Asking, Answered, Following, Transferring, AskedFor,
              moduleVars, nccVars, macVars, HasUt
<1>3. CASE ctrlQueue # <<>>
  <2>1. Asking
    BY <1>0, <1>3, Zenon DEF OneRequest, Idle, Answered, Following
  <2>2. ~reconfiguring
    BY <1>3, Zenon DEF OneRequest, Idle
  <2>3. hrs = <<>> /\ \E beam \in (Beams \cup {NoBeam}) \ {m_beamId} :
                          ctrlQueue = <<[gw |-> GwOf[m_beamId], beam |-> beam]>>
    BY <1>3, <2>1, Zenon DEF Asking
  <2>4. \E beam \in (Beams \cup {NoBeam}) \ {m_beamId} :
           \/ ctrlQueue' = <<[gw |-> GwOf[m_beamId], beam |-> beam]>> /\ hrs' = <<>>
           \/ /\ ctrlQueue' = <<>>
              /\ hrs' = <<[via |-> m_beamId, gw |-> GwOf[m_beamId], beam |-> beam]>>
    BY <1>0, <1>1, <1>3, <2>2, <2>3, AskingSends
  <2>5. Asking'
    BY <1>0, <2>1, <2>4 DEF Asking, AskedFor, moduleVars, nccVars, macVars, HasUt
  <2> QED BY <1>0, <2>2, <2>5 DEF OneRequest, nccVars, macVars
<1> QED BY <1>2, <1>3

LEMMA TimuRequest ==
  ASSUME OneAtATime, Inv, OneRequest, ReceiveTimu PROVE OneRequest'
<1>1. PICK t \in timus :
         /\ timus' = timus \ {t}
         /\ m_timuInfo' = IF Listens(t.via) /\ t.beam # m_beamId THEN t.beam ELSE m_timuInfo
  BY DEF ReceiveTimu
<1>2. Answered
  <2>1. \A x : <<x>> # <<>>
    OBVIOUS
  <2>2. timus # {} /\ moves = <<>>
    BY <1>1 DEF ReceiveTimu, Running, OneAtATime
  <2> QED BY <2>1, <2>2, Zenon DEF OneRequest, Idle, Asking, Following, Transferring
<1>3. PICK beam \in Existing : HasUt(beam) /\ timus = {[via |-> m_beamId, beam |-> beam]}
  BY <1>2 DEF Answered
<1>4. t.via = m_beamId /\ t.beam = beam /\ timus' = {}
  BY <1>1, <1>3
<1>5. ~reconfiguring
  BY <1>3 DEF OneRequest, Idle
<1>6. /\ ctrlQueue = <<>> /\ hrs = <<>> /\ moves = <<>> /\ m_timuInfo = NoBeam
      /\ UNCHANGED <<m_utInfos, m_beamId, ctrlQueue, hrs, moves, aborted, responses,
                     reconfiguring>>
  BY <1>2 DEF Answered, ReceiveTimu, airVars
<1>7. beam # NoBeam
  OBVIOUS
<1>8. CASE beam = m_beamId
  BY <1>1, <1>3, <1>4, <1>5, <1>6, <1>8 DEF OneRequest, Idle, HasUt
<1>9. CASE beam # m_beamId
  <2>1. m_timuInfo' = beam
    BY <1>1, <1>4, <1>5, <1>9 DEF Listens
  <2> QED BY <1>3, <1>4, <1>5, <1>6, <1>7, <2>1 DEF OneRequest, Following, HasUt
<1> QED BY <1>8, <1>9

\* The NCC grants the request or refuses it; it never finds it inconsistent.
LEMMA GatewayRequest ==
  ASSUME OneAtATime, Inv, OneRequest, ReceiveHandoverRecommendation PROVE OneRequest'
<1>0. PICK held \in Existing : m_utInfos = {held}
  BY DEF Inv, OneBeam, OneAtATime
<1>1. PICK i \in DOMAIN hrs :
         /\ IF hrs[i].gw = GwOf[hrs[i].via]
            THEN MoveUtBetweenBeams(hrs[i].via, hrs[i].beam)
            ELSE UNCHANGED nccVars
         /\ hrs' = RemoveAt(hrs, i)
  BY DEF ReceiveHandoverRecommendation
<1>2. hrs # <<>>
  BY <1>1
<1>3. Asking /\ ~reconfiguring
  BY <1>2, Zenon DEF OneRequest, Idle, Answered, Following, Transferring
<1>4. PICK beam \in (Beams \cup {NoBeam}) \ {m_beamId} :
         /\ ctrlQueue = <<>>
         /\ hrs = <<[via |-> m_beamId, gw |-> GwOf[m_beamId], beam |-> beam]>>
  BY <1>2, <1>3, Zenon DEF Asking
<1>5. /\ hrs[i].via = m_beamId /\ hrs[i].gw = GwOf[m_beamId] /\ hrs[i].beam = beam
      /\ hrs' = <<>>
  <2> DEFINE r == [via |-> m_beamId, gw |-> GwOf[m_beamId], beam |-> beam]
  <2>1. r.via = m_beamId /\ r.gw = GwOf[m_beamId] /\ r.beam = beam
    OBVIOUS
  <2> HIDE DEF r
  <2>2. hrs = <<r>>
    BY <1>4 DEF r
  <2>3. i = 1 /\ hrs[i] = r /\ Len(hrs) = 1
    BY <1>1, <2>2
  <2>4. SubSeq(hrs, 1, 0) = <<>> /\ SubSeq(hrs, 2, 1) = <<>>
    BY <2>2, SubSeqEmpty
  <2>5. RemoveAt(hrs, i) = <<>>
    BY <2>3, <2>4 DEF RemoveAt
  <2> QED BY <1>1, <2>1, <2>3, <2>5
<1>6. MoveUtBetweenBeams(m_beamId, beam)
  BY <1>1, <1>5
<1>7. /\ timus = {} /\ moves = <<>> /\ m_timuInfo = NoBeam /\ held = m_beamId /\ AskedFor
      /\ aborted = "NO" /\ responses = {} /\ m_beamId \in Existing
  BY <1>0, <1>3 DEF Asking, HasUt, OneRequest
<1>8. UNCHANGED <<position, moduleVars, ctrlQueue, m_beamId, m_timuInfo, reconfiguring,
                  responses>> /\ AskedFor'
  BY <1>7 DEF ReceiveHandoverRecommendation, macVars, moduleVars, AskedFor
<1>9. CASE beam \notin Existing
  <2>1. timus' = {[via |-> m_beamId, beam |-> m_beamId]}
        /\ UNCHANGED <<m_utInfos, moves, aborted>>
    BY <1>0, <1>6, <1>7, <1>9 DEF MoveUtBetweenBeams, CancelHandover, PerformHandover,
       HandoverAlreadyPerformed, InconsistentHandover, SendTo, HasUt
  <2> QED BY <1>0, <1>3, <1>4, <1>5, <1>7, <1>8, <2>1 DEF OneRequest, Answered, HasUt
<1>10. CASE beam \in Existing
  <2>1. /\ timus' = {[via |-> m_beamId, beam |-> beam]}
        /\ moves' = Append(moves, [src |-> m_beamId, dest |-> beam])
        /\ UNCHANGED <<m_utInfos, aborted>>
    BY <1>0, <1>4, <1>6, <1>7, <1>10 DEF MoveUtBetweenBeams, CancelHandover, PerformHandover,
       HandoverAlreadyPerformed, InconsistentHandover, SendTo, HasUt
  <2>2. moves' = <<[src |-> m_beamId, dest |-> beam]>>
    BY <1>7, <2>1
  <2> QED BY <1>0, <1>3, <1>4, <1>5, <1>7, <1>8, <1>10, <2>1, <2>2
          DEF OneRequest, Transferring, HasUt
<1> QED BY <1>9, <1>10

LEMMA TransferRequest ==
  ASSUME OneAtATime, Inv, OneRequest, TransferUt PROVE OneRequest'
<1>0. PICK held \in Existing : m_utInfos = {held}
  BY DEF Inv, OneBeam, OneAtATime
<1>1. moves # <<>>
  BY DEF TransferUt, DoMoveUtBetweenBeams
<1>2. Transferring /\ ~reconfiguring
  BY <1>1, Zenon DEF OneRequest, Idle, Asking, Answered, Following
<1>3. PICK beam \in Existing \ {m_beamId} :
         /\ timus = {[via |-> m_beamId, beam |-> beam]}
         /\ moves = <<[src |-> m_beamId, dest |-> beam]>>
  BY <1>2 DEF Transferring
<1>4. Head(moves).src = m_beamId /\ Head(moves).dest = beam /\ Tail(moves) = <<>>
  BY <1>3
<1>5. TransferUtToBeam(m_beamId, beam) /\ moves' = <<>> /\ UNCHANGED timus
  BY <1>4 DEF TransferUt, DoMoveUtBetweenBeams
<1>6. m_utInfos' = {beam} /\ UNCHANGED aborted
  BY <1>0, <1>2, <1>3, <1>5 DEF TransferUtToBeam, HasUt, Transferring
<1>7. UNCHANGED <<position, moduleVars, ctrlQueue, m_beamId, m_timuInfo, reconfiguring,
                  responses, hrs>>
  BY DEF TransferUt, macVars, airVars
<1>8. AskedFor'
  BY <1>2, <1>7 DEF Transferring, AskedFor, moduleVars
<1>9. Answered'
  BY <1>2, <1>3, <1>5, <1>6, <1>7, <1>8 DEF Transferring, Answered, HasUt
<1> QED BY <1>2, <1>6, <1>7, <1>9 DEF OneRequest

\* A request that is lost leaves the UT idle; a TIM-U is not lost here.
LEMMA LoseRequest ==
  ASSUME OneAtATime, Inv, OneRequest, Lose PROVE OneRequest'
<1>0. /\ lost["TIMU"] \in Nat /\ ~(lost["TIMU"] < MaxLoss["TIMU"])
      /\ moves = <<>> /\ responses = {}
  BY DEF Inv, TypeOK, Kinds, OneAtATime, Lose, CanLose, Running, OneRequest
<1>1. /\ UNCHANGED <<position, moduleVars, ctrlQueue, m_utInfos, moves, aborted, macVars>>
      /\ UNCHANGED timus /\ responses' = {}
  BY <1>0 DEF Lose, CanLose
<1>2. CASE UNCHANGED hrs
  BY <1>1, <1>2 DEF OneRequest, Idle, Asking, Answered, Following, Transferring, AskedFor,
     moduleVars, macVars, HasUt
<1>3. ASSUME NEW i \in DOMAIN hrs, hrs' = RemoveAt(hrs, i)
      PROVE  OneRequest'
  <2>1. hrs # <<>>
    BY <1>3
  <2>2. Asking /\ ~reconfiguring
    BY <2>1, Zenon DEF OneRequest, Idle, Answered, Following, Transferring
  <2>3. PICK h : hrs = <<h>> /\ ctrlQueue = <<>>
    BY <2>1, <2>2, Zenon DEF Asking
  <2>4. i = 1 /\ Len(hrs) = 1 /\ SubSeq(hrs, 1, 0) = <<>> /\ SubSeq(hrs, 2, 1) = <<>>
    BY <1>3, <2>3, SubSeqEmpty
  <2>5. hrs' = <<>>
    BY <1>3, <2>4 DEF RemoveAt
  <2> QED BY <1>1, <2>2, <2>3, <2>5 DEF OneRequest, Idle, Asking, macVars, HasUt
<1> QED BY <1>1, <1>2, <1>3 DEF Lose

LEMMA RequestStep ==
  ASSUME OneAtATime, Inv, OneRequest, [Next]_vars PROVE OneRequest'
<1>0. logons = {} /\ responses = {}
  BY DEF Inv, OneBeam, OneAtATime, OneRequest
<1>1. ASSUME UNCHANGED <<ctrlQueue, hrs, nccVars, m_timuInfo, m_beamId, responses>>,
             reconfiguring' => reconfiguring,
             AskedFor => AskedFor' \/ ~Outstanding
      PROVE  OneRequest'
  BY <1>1, PhaseIsOutstanding
     DEF OneRequest, Idle, Asking, Answered, Following, Transferring, nccVars, HasUt
<1>2. CASE Move \/ RequestTimeout
  <2>1. ~Outstanding
    BY <1>2 DEF Move, RequestTimeout, OneAtATime
  <2> QED BY <1>1, <1>2, <2>1 DEF Move, RequestTimeout, macVars, airVars
<1>3. CASE \/ AssignNewSatChannels \/ ReceiveTbtp \/ Schedule \/ LogonTimeout \/ UNCHANGED vars
  <2>1. UNCHANGED <<position, moduleVars, ctrlQueue, hrs, nccVars, m_timuInfo, m_beamId,
                    responses>>
        /\ (reconfiguring' => reconfiguring)
    BY <1>3 DEF AssignNewSatChannels, ReceiveTbtp, Schedule, LogonTimeout, vars, macVars,
       airVars
  <2>2. AskedFor => AskedFor'
    BY <2>1 DEF AskedFor, moduleVars
  <2> QED BY <1>1, <2>1, <2>2
<1>4. ~ReceiveLogon /\ ~ReceiveLogonResponse
  BY <1>0 DEF ReceiveLogon, ReceiveLogonResponse
<1> QED
  BY <1>2, <1>3, <1>4, FrameRequest, TransmitRequest, TimuRequest, GatewayRequest,
     TransferRequest, LoseRequest
     DEF Next, UtNext, NccNext

\* One request at a time is an inductive invariant when the UT is slow against the
\* round trip, its TIM-U is not lost and the NCC transfers it at once.
THEOREM OneRequestAtATime ==
  ASSUME OneAtATime PROVE Spec => [](Inv /\ OneRequest)
<1>1. Init => OneRequest
  BY DEF Init, ModuleInit, OneRequest, Idle, OneAtATime, HasUt
<1>2. Inv /\ OneRequest /\ [Next]_vars => OneRequest'
  BY RequestStep
<1> QED BY <1>1, <1>2, HandoverInvariant, PTL DEF Spec

\* The NCC never meets a recommendation it calls inconsistent, and no transfer finds
\* the UT already in the new beam or no longer in the old one, whatever
\* recommendations are lost and whatever m_hasPendingRequest starts with.
THEOREM HandoverNeverFatal ==
  ASSUME OneAtATime PROVE Spec => []NoFatal
<1>1. OneRequest => NoFatal
  BY DEF OneRequest, NoFatal
<1> QED BY <1>1, OneRequestAtATime, PTL

\* A UT whose beam does not hold it has the TIM-U for the beam that does on the air
\* or in its hands: MoveUtBetweenBeams tells it of every transfer it makes.
THEOREM UtFollows ==
  ASSUME OneAtATime PROVE Spec => []UtFollowsNcc
<1>1. Inv /\ OneRequest => UtFollowsNcc
  <2> SUFFICES ASSUME Inv, OneRequest PROVE UtFollowsNcc
    OBVIOUS
  <2>1. CASE Idle \/ Asking \/ Transferring
    BY <2>1 DEF Idle, Asking, Transferring, UtFollowsNcc
  <2>2. CASE Answered
    BY <2>2 DEF Answered, UtFollowsNcc, HasUt
  <2>3. CASE Following
    BY <2>3 DEF Following, UtFollowsNcc, HasUt
  <2> QED BY <2>1, <2>2, <2>3 DEF OneRequest
<1> QED BY <1>1, OneRequestAtATime, PTL
-----------------------------------------------------------------------------
(* A UT that its beam does not hold goes on asking, with a logon channel or *)
(* without, and however long a transfer takes.                              *)

\* The assumptions: Prompt, and no TIM-U is lost.
TimuArrives == Prompt /\ MaxLoss["TIMU"] = 0

\* The request that the UT has made of its beam has not timed out, and the beam
\* still does not cover it (AskedFor).  A recommendation that names the beam it is
\* sent in is one queued when the UT gave its old beam up; it asks for nothing.
StaleInQueue(r) == r.beam = m_beamId
StaleOnAir(r) == r.beam = r.via

\* No request is in the queue or on the return link, ...
NoRequest ==
  /\ \A i \in DOMAIN ctrlQueue : StaleInQueue(ctrlQueue[i])
  /\ \A i \in DOMAIN hrs : StaleOnAir(hrs[i])

\* ... or one is, behind whatever is stale.
RequestInQueue ==
  /\ ctrlQueue # <<>> /\ ctrlQueue[Len(ctrlQueue)].beam = m_askedBeamId
  /\ \A i \in DOMAIN ctrlQueue : i # Len(ctrlQueue) => StaleInQueue(ctrlQueue[i])
  /\ \A i \in DOMAIN hrs : StaleOnAir(hrs[i])
RequestOnAir ==
  /\ ctrlQueue = <<>>
  /\ \E i \in DOMAIN hrs :
        /\ hrs[i].via = m_beamId /\ hrs[i].beam = m_askedBeamId
        /\ \A j \in DOMAIN hrs \ {i} : StaleOnAir(hrs[j])
Requested == AskedFor /\ (RequestInQueue \/ RequestOnAir)

\* No TIM-U is under way.
NoTimu == timus = {} /\ m_timuInfo = NoBeam

\* The beam holds the UT, or will as soon as the transfer to it is made.
Arrived ==
  \/ moves = <<>> /\ HasUt(m_beamId)
  \/ ~HasUt(m_beamId) /\ \E b \in m_utInfos : moves = <<[src |-> b, dest |-> m_beamId]>>

\* The NCC has granted the request: the transfer is scheduled or made, and the UT
\* is told.
Granted ==
  /\ AskedFor /\ ctrlQueue = <<>> /\ NoRequest
  /\ m_askedBeamId \in Existing
  /\ \/ timus = {[via |-> m_beamId, beam |-> m_askedBeamId]} /\ m_timuInfo = NoBeam
     \/ timus = {} /\ m_timuInfo = m_askedBeamId
  /\ \/ moves = <<[src |-> m_beamId, dest |-> m_askedBeamId]>>
        /\ HasUt(m_beamId) /\ ~HasUt(m_askedBeamId)
     \/ moves = <<>> /\ HasUt(m_askedBeamId)

\* The NCC has refused it: the TIM-U names the beam of the UT.
Refused ==
  /\ AskedFor /\ ctrlQueue = <<>> /\ NoRequest
  /\ timus = {[via |-> m_beamId, beam |-> m_beamId]} /\ m_timuInfo = NoBeam
  /\ moves = <<>> /\ HasUt(m_beamId)

LoggedOff == NoRequest /\ NoTimu /\ moves = <<>>
Free == NoTimu /\ Arrived /\ (NoRequest \/ Requested)

\* A UT that is logged on has no logon under way, one that is logged off at most one.
OneLogon ==
  /\ m_loggedOn \/ ~logonWait => logons = {} /\ responses = {}
  /\ \/ logons = {} /\ responses = {}
     \/ (\E l \in logons : logons = {l} /\ l.via = m_beamId) /\ responses = {}
     \/ logons = {} /\ responses = {m_beamId} /\ HasUt(m_beamId)

\* While anything is under way no request times out, and one that was counted is
\* not given up.
Busy ==
  ctrlQueue # <<>> \/ hrs # <<>> \/ timus # {} \/ m_timuInfo # NoBeam \/ moves # <<>>
Waits ==
  /\ UseLogon => m_handoverMessagesCount <= MaxHandoverMessages
  /\ Busy => ~timedOut
  /\ Busy /\ m_handoverState = "HANDOVER_RECOMMENDATION_SENT" => AskedFor

Orderly ==
  /\ OneLogon /\ Waits
  /\ reconfiguring => NoRequest /\ timus = {}
  /\ IF m_loggedOn THEN Free \/ Granted \/ Refused ELSE LoggedOff

\* A fatal error leaves the rest as it was, and ends it.
AskInv == Orderly \/ (aborted # "NO" /\ UnheldUtIsAsking)

LEMMA OrderlyAsks ==
  ASSUME TypeOK, Orderly PROVE UnheldUtIsAsking
<1> SUFFICES ASSUME m_loggedOn, ~HasUt(m_beamId) PROVE
                    \/ m_hasPendingRequest /\ m_askedBeamId \in m_utInfos
                    \/ \E i \in DOMAIN moves : moves[i].dest = m_beamId
  BY DEF UnheldUtIsAsking
<1>1. Free \/ Granted \/ Refused
  BY DEF Orderly
<1>2. CASE Free
  <2>1. PICK b : moves = <<[src |-> b, dest |-> m_beamId]>>
    BY <1>2 DEF Free, Arrived
  <2>2. 1 \in DOMAIN moves /\ moves[1].dest = m_beamId
    BY <2>1
  <2> QED BY <2>2
<1>3. CASE Granted
  BY <1>3 DEF Granted, AskedFor, HasUt
<1> QED BY <1>1, <1>2, <1>3 DEF Refused

\* What joining two sequences, and taking the front off one, does to the elements.
LEMMA JoinedElements ==
  ASSUME NEW S, NEW s \in Seq(S), NEW o \in Seq(S)
  PROVE  /\ DOMAIN (s \o o) = 1 .. Len(s) + Len(o) /\ DOMAIN s = 1 .. Len(s)
         /\ \A i \in 1 .. Len(s) : (s \o o)[i] = s[i]
         /\ \A i \in 1 .. Len(o) : (s \o o)[Len(s) + i] = o[i]
  OBVIOUS

LEMMA RemainingElements ==
  ASSUME NEW S, NEW q \in Seq(S), NEW n \in 0 .. Len(q)
  PROVE  /\ Len(SubSeq(q, n + 1, Len(q))) = Len(q) - n
         /\ DOMAIN SubSeq(q, n + 1, Len(q)) = 1 .. Len(q) - n
         /\ \A i \in 1 .. Len(q) - n : SubSeq(q, n + 1, Len(q))[i] = q[n + i]
<1>1. Len(q) \in Nat
  OBVIOUS
<1>2. Len(SubSeq(q, n + 1, Len(q))) = Len(q) - n
  BY <1>1
<1>3. ASSUME NEW i \in 1 .. Len(q) - n PROVE SubSeq(q, n + 1, Len(q))[i] = q[n + i]
  <2>1. SubSeq(q, n + 1, Len(q))[i] = q[(n + 1) + i - 1] /\ (n + 1) + i - 1 = n + i
    BY <1>1
  <2> QED BY <2>1
<1>4. DOMAIN SubSeq(q, n + 1, Len(q)) = 1 .. Len(q) - n
  BY <1>1, <1>2, SubSeqType
<1> QED BY <1>2, <1>3, <1>4

LEMMA OnAirElements ==
  ASSUME m_beamId \in Existing, NEW q \in Seq(HandoverRecommendations), NEW n \in 0 .. Len(q)
  PROVE  /\ OnAir(SubSeq(q, 1, n)) \in Seq(HrsOnAir) /\ Len(OnAir(SubSeq(q, 1, n))) = n
         /\ \A i \in 1 .. n : /\ OnAir(SubSeq(q, 1, n))[i].via = m_beamId
                              /\ OnAir(SubSeq(q, 1, n))[i].beam = q[i].beam
<1>1. PICK s : s = SubSeq(q, 1, n)
  OBVIOUS
<1>2. s \in Seq(HandoverRecommendations) /\ Len(s) = n /\ \A i \in 1 .. n : s[i] = q[i]
  BY <1>1
<1>3. OnAir(s) \in Seq(HrsOnAir)
  BY <1>2, OnAirType
<1>4. OnAir(s) = [i \in 1 .. n |-> [via |-> m_beamId, gw |-> s[i].gw, beam |-> s[i].beam]]
  BY <1>2 DEF OnAir
<1>5. PICK o : o = OnAir(s)
  OBVIOUS
<1>6. Len(o) = n /\ \A i \in 1 .. n : o[i].via = m_beamId /\ o[i].beam = q[i].beam
  BY <1>2, <1>3, <1>4, <1>5
<1> QED BY <1>1, <1>3, <1>5, <1>6

\* Of a sequence joined to another, each element is of the one or of the other.
LEMMA JoinedFrom ==
  ASSUME NEW m \in Nat, NEW n \in Nat, NEW i \in 1 .. m + n
  PROVE  i \in 1 .. m \/ \E k \in 1 .. n : i = m + k
<1>1. CASE i > m
  <2>1. i - m \in 1 .. n /\ i = m + (i - m)
    BY <1>1
  <2> QED BY <2>1
<1> QED BY <1>1

\* A queue may hold a request, behind whatever is stale.
NothingAskedIn(q) == \A i \in DOMAIN q : q[i].beam = m_beamId
AskedLastIn(q, beam) ==
  /\ q # <<>> /\ q[Len(q)].beam = beam
  /\ \A i \in DOMAIN q : i # Len(q) => q[i].beam = m_beamId
NothingOnAir == \A i \in DOMAIN hrs : StaleOnAir(hrs[i])

\* Sending from the queue asks for what was in it, and no more.
LEMMA SendingElements ==
  ASSUME NEW m \in Nat, DOMAIN hrs = 1 .. m, NEW q \in Seq(HandoverRecommendations),
         NEW n \in 0 .. Len(q),
         DOMAIN hrs' = 1 .. m + n,
         \A i \in 1 .. m : hrs'[i] = hrs[i],
         \A i \in 1 .. n : hrs'[m + i].via = m_beamId /\ hrs'[m + i].beam = q[i].beam,
         ctrlQueue' \in Seq(HandoverRecommendations), Len(ctrlQueue') = Len(q) - n,
         \A i \in 1 .. Len(q) - n : ctrlQueue'[i] = q[n + i],
         UNCHANGED m_beamId
  PROVE  /\ NothingAskedIn(q) /\ NothingOnAir => NoRequest'
         /\ AskedLastIn(q, m_askedBeamId') /\ NothingOnAir => (RequestInQueue \/ RequestOnAir)'
<1>1. Len(q) \in Nat /\ DOMAIN q = 1 .. Len(q) /\ n \in Nat /\ n <= Len(q)
  OBVIOUS
<1>2. PICK l \in Nat : l = Len(q)
  BY <1>1
<1>3. DOMAIN ctrlQueue' = 1 .. l - n
  BY <1>2
<1>4. \A i \in 1 .. n : i \in DOMAIN q
  BY <1>1
<1>5. \A i \in 1 .. l - n : n + i \in DOMAIN q /\ ctrlQueue'[i] = q[n + i]
  BY <1>1, <1>2
<1>6. ASSUME NEW i \in DOMAIN hrs', NothingOnAir,
             \A k \in 1 .. n : i = m + k => q[k].beam = m_beamId
      PROVE  StaleOnAir(hrs'[i])
  <2>1. CASE i \in 1 .. m
    BY <1>6, <2>1 DEF NothingOnAir
  <2>2. CASE \E k \in 1 .. n : i = m + k
    BY <1>6, <2>2 DEF StaleOnAir
  <2>3. i \in 1 .. m \/ \E k \in 1 .. n : i = m + k
    <3>1. i \in 1 .. m + n /\ m \in Nat /\ n \in Nat
      BY <1>1, <1>6
    <3> QED BY ONLY <3>1, JoinedFrom
  <2> QED BY <2>1, <2>2, <2>3
<1>7. ASSUME NothingAskedIn(q), NothingOnAir PROVE NoRequest'
  <2>1. ASSUME NEW i \in DOMAIN ctrlQueue' PROVE StaleInQueue(ctrlQueue[i])'
    <3>1. n + i \in DOMAIN q /\ ctrlQueue'[i] = q[n + i]
      BY <1>3, <1>5, <2>1
    <3> QED BY <1>7, <3>1 DEF NothingAskedIn, StaleInQueue
  <2>2. ASSUME NEW i \in DOMAIN hrs' PROVE StaleOnAir(hrs'[i])
    BY <1>4, <1>6, <1>7, <2>2 DEF NothingAskedIn
  <2> QED BY <2>1, <2>2 DEF NoRequest, StaleOnAir
<1>8. ASSUME AskedLastIn(q, m_askedBeamId'), NothingOnAir PROVE (RequestInQueue \/ RequestOnAir)'
  <2>0. l >= 1
    BY <1>2, <1>8 DEF AskedLastIn
  <2>1. ASSUME NEW i \in DOMAIN hrs', i # m + l PROVE StaleOnAir(hrs'[i])
    <3>1. ASSUME NEW k \in 1 .. n, i = m + k PROVE q[k].beam = m_beamId
      <4>1. k \in DOMAIN q /\ k # l
        BY <1>4, <2>1, <3>1
      <4> QED BY <1>2, <1>8, <4>1 DEF AskedLastIn
    <3> QED BY <1>6, <1>8, <2>1, <3>1
  <2>2. CASE n = l
    <3>1. ctrlQueue' = <<>>
      BY <1>2, <2>2
    <3>2. m + l \in DOMAIN hrs' /\ l \in 1 .. n
      BY <2>0, <2>2
    <3>3. hrs'[m + l].via = m_beamId /\ hrs'[m + l].beam = m_askedBeamId'
      BY <1>2, <1>8, <3>2 DEF AskedLastIn
    <3> QED BY <2>1, <3>1, <3>2, <3>3 DEF RequestOnAir, StaleOnAir
  <2>3. CASE n # l
    <3>1. l - n \in 1 .. l - n /\ n + (l - n) = l
      BY <1>1, <1>2, <2>3
    <3>2. ctrlQueue' # <<>> /\ Len(ctrlQueue') = l - n
      BY <1>2, <3>1
    <3>3. ctrlQueue'[l - n].beam = m_askedBeamId'
      BY <1>2, <1>5, <1>8, <3>1 DEF AskedLastIn
    <3>4. ASSUME NEW i \in DOMAIN ctrlQueue', i # l - n PROVE StaleInQueue(ctrlQueue[i])'
      <4>1. n + i # l /\ i \in 1 .. l - n
        BY <1>1, <1>3, <3>4
      <4>2. n + i \in DOMAIN q /\ ctrlQueue'[i] = q[n + i]
        BY <1>5, <4>1
      <4>3. q[n + i].beam = m_beamId
        BY <1>2, <1>8, <4>1, <4>2 DEF AskedLastIn
      <4> QED BY <4>2, <4>3 DEF StaleInQueue
    <3>5. ASSUME NEW i \in DOMAIN hrs' PROVE StaleOnAir(hrs'[i])
      <4>1. i # m + l
        BY <1>1, <1>2, <2>3, <3>5
      <4> QED BY <2>1, <4>1
    <3> QED BY <3>2, <3>3, <3>4, <3>5 DEF RequestInQueue, StaleOnAir
  <2> QED BY <2>2, <2>3
<1> QED BY <1>7, <1>8

LEMMA SendingAsks ==
  ASSUME TypeOK, NEW q \in Seq(HandoverRecommendations), NEW n \in 0 .. Len(q),
         hrs' = hrs \o OnAir(SubSeq(q, 1, n)), ctrlQueue' = SubSeq(q, n + 1, Len(q)),
         UNCHANGED m_beamId
  PROVE  /\ NothingAskedIn(q) /\ NothingOnAir => NoRequest'
         /\ AskedLastIn(q, m_askedBeamId') /\ NothingOnAir => (RequestInQueue \/ RequestOnAir)'
<1>1. hrs \in Seq(HrsOnAir) /\ m_beamId \in Existing
  BY DEF TypeOK
<1>2. PICK o : o = OnAir(SubSeq(q, 1, n))
  OBVIOUS
<1>3. o \in Seq(HrsOnAir) /\ Len(o) = n /\ hrs' = hrs \o o
      /\ \A i \in 1 .. n : o[i].via = m_beamId /\ o[i].beam = q[i].beam
  BY <1>1, <1>2, OnAirElements
<1>4. PICK m \in Nat : m = Len(hrs)
  BY <1>1
<1>5. /\ DOMAIN hrs' = 1 .. m + n /\ DOMAIN hrs = 1 .. m
      /\ \A i \in 1 .. m : hrs'[i] = hrs[i]
      /\ \A i \in 1 .. n : hrs'[m + i] = o[i]
  <2>1. PICK j : j = hrs \o o
    OBVIOUS
  <2>2. /\ DOMAIN j = 1 .. m + n /\ DOMAIN hrs = 1 .. m
        /\ \A i \in 1 .. m : j[i] = hrs[i]
        /\ \A i \in 1 .. n : j[m + i] = o[i]
    <3>1. /\ DOMAIN (hrs \o o) = 1 .. Len(hrs) + Len(o) /\ DOMAIN hrs = 1 .. Len(hrs)
          /\ \A i \in 1 .. Len(hrs) : (hrs \o o)[i] = hrs[i]
          /\ \A i \in 1 .. Len(o) : (hrs \o o)[Len(hrs) + i] = o[i]
      <4>1. hrs \in Seq(HrsOnAir) /\ o \in Seq(HrsOnAir)
        BY <1>1, <1>3
      <4> QED BY ONLY <4>1, JoinedElements, SMT
    <3> QED BY <1>3, <1>4, <2>1, <3>1, Zenon
  <2> QED BY <1>3, <2>1, <2>2, Zenon
<1>6. \A i \in 1 .. n : hrs'[m + i].via = m_beamId /\ hrs'[m + i].beam = q[i].beam
  BY ONLY <1>3, <1>5, Zenon
<1>7. /\ Len(ctrlQueue') = Len(q) - n
      /\ \A i \in 1 .. Len(q) - n : ctrlQueue'[i] = q[n + i]
  BY RemainingElements
<1>8. ctrlQueue' \in Seq(HandoverRecommendations)
  BY <1>1, SentType
<1> QED BY <1>5, <1>6, <1>7, <1>8, SendingElements

LEMMA NothingToSend ==
  ASSUME TypeOK, NEW n \in 0 .. Len(<<>>), hrs' = hrs \o OnAir(SubSeq(<<>>, 1, n)),
         ctrlQueue' = SubSeq(<<>>, n + 1, Len(<<>>))
  PROVE  UNCHANGED hrs /\ ctrlQueue' = <<>>
<1>1. OnAir(SubSeq(<<>>, 1, n)) = <<>> /\ ctrlQueue' = <<>>
  BY SentAlone
<1> QED BY <1>1 DEF TypeOK
\* A step that does not touch the beam, the request or its answer, and sends or
\* loses at most what was queued or on the air, leaves things in order.
LEMMA OrderlyKept ==
  ASSUME Orderly, OneLogon',
         UNCHANGED <<m_beamId, m_askedBeamId, timedOut, m_timuInfo, m_loggedOn,
                     m_handoverMessagesCount, m_utInfos, moves, timus>>,
         reconfiguring' => reconfiguring, AskedFor => AskedFor',
         m_handoverState' \in {m_handoverState, "NO_HANDOVER"},
         NoRequest => NoRequest',
         RequestInQueue \/ RequestOnAir => NoRequest' \/ (RequestInQueue \/ RequestOnAir)',
         ctrlQueue = <<>> => ctrlQueue' = <<>>,
         Busy' => Busy
  PROVE  Orderly'
<1>1. Waits'
  BY DEF Orderly, Waits
<1>2. reconfiguring' => NoRequest' /\ timus' = {}
  BY DEF Orderly
<1>3. Free => Free'
  BY DEF Free, Requested, NoTimu, Arrived, HasUt
<1>4. Granted => Granted'
  BY DEF Granted, HasUt
<1>5. Refused => Refused'
  BY DEF Refused, HasUt
<1>6. LoggedOff => LoggedOff'
  BY DEF LoggedOff, NoTimu
<1> QED BY <1>1, <1>2, <1>3, <1>4, <1>5, <1>6, Zenon DEF Orderly

\* A step that does not touch the logon messages leaves them in order.
LEMMA LogonKept ==
  ASSUME OneLogon, UNCHANGED <<m_beamId, logons, responses, m_loggedOn, logonWait, m_utInfos>>
  PROVE  OneLogon'
BY DEF OneLogon, HasUt

LEMMA SendingKeeps ==
  ASSUME TypeOK, NEW n \in 0 .. Len(ctrlQueue),
         hrs' = hrs \o OnAir(SubSeq(ctrlQueue, 1, n)),
         ctrlQueue' = SubSeq(ctrlQueue, n + 1, Len(ctrlQueue)),
         UNCHANGED <<m_beamId, m_askedBeamId>>
  PROVE  /\ NoRequest => NoRequest'
         /\ RequestInQueue \/ RequestOnAir => (RequestInQueue \/ RequestOnAir)'
         /\ ctrlQueue = <<>> => UNCHANGED hrs /\ ctrlQueue' = <<>>
<1>1. ctrlQueue \in Seq(HandoverRecommendations)
  BY DEF TypeOK, ModuleTypeOK
<1>2. CASE ctrlQueue = <<>>
  <2>1. UNCHANGED hrs /\ ctrlQueue' = <<>>
    BY <1>2, NothingToSend
  <2> QED BY <1>2, <2>1
          DEF NoRequest, RequestInQueue, RequestOnAir, StaleInQueue, StaleOnAir
<1>3. CASE ctrlQueue # <<>>
  <2>1. /\ NothingAskedIn(ctrlQueue) /\ NothingOnAir => NoRequest'
        /\ AskedLastIn(ctrlQueue, m_askedBeamId') /\ NothingOnAir
             => (RequestInQueue \/ RequestOnAir)'
    BY <1>1, SendingAsks
  <2>2. NoRequest => NothingAskedIn(ctrlQueue) /\ NothingOnAir
    BY DEF NoRequest, NothingAskedIn, NothingOnAir, StaleInQueue
  <2>3. RequestInQueue => AskedLastIn(ctrlQueue, m_askedBeamId') /\ NothingOnAir
    BY DEF RequestInQueue, AskedLastIn, NothingOnAir, StaleInQueue
  <2>4. ~RequestOnAir
    BY <1>3 DEF RequestOnAir
  <2> QED BY <1>3, <2>1, <2>2, <2>3, <2>4
<1> QED BY <1>2, <1>3

LEMMA TransmitAsks ==
  ASSUME Inv, Orderly, DoTransmit \/ DoSlottedAlohaTransmit PROVE Orderly'
<1>0. TypeOK /\ OneLogon
  BY DEF Inv, Orderly
<1>1. /\ UNCHANGED <<m_beamId, m_askedBeamId, timedOut, m_timuInfo, m_loggedOn,
                     m_handoverMessagesCount, m_utInfos, moves, timus>>
      /\ UNCHANGED <<reconfiguring, m_handoverState, m_hasPendingRequest, position>>
      /\ UNCHANGED <<logons, responses, logonWait>>
  BY DEF DoTransmit, DoSlottedAlohaTransmit, moduleVars, nccVars, macVars
<1>2. OneLogon' /\ (AskedFor => AskedFor')
  BY <1>0, <1>1, LogonKept DEF AskedFor
<1>3. PICK n \in 0 .. Len(ctrlQueue) :
         /\ hrs' = hrs \o OnAir(SubSeq(ctrlQueue, 1, n)) \/ (reconfiguring /\ UNCHANGED hrs)
         /\ ctrlQueue' = SubSeq(ctrlQueue, n + 1, Len(ctrlQueue))
  BY Zenon DEF DoTransmit, DoSlottedAlohaTransmit
<1>4. CASE hrs' = hrs \o OnAir(SubSeq(ctrlQueue, 1, n))
  <2>1. /\ NoRequest => NoRequest'
        /\ RequestInQueue \/ RequestOnAir => (RequestInQueue \/ RequestOnAir)'
        /\ ctrlQueue = <<>> => UNCHANGED hrs /\ ctrlQueue' = <<>>
    BY <1>0, <1>1, <1>3, <1>4, SendingKeeps
  <2>2. Busy' => Busy
    BY <1>1, <2>1 DEF Busy
  <2> QED BY <1>1, <1>2, <2>1, <2>2, OrderlyKept
<1>5. CASE reconfiguring /\ UNCHANGED hrs
  <2>1. NoRequest
    BY <1>5 DEF Orderly
  <2>2. ctrlQueue \in Seq(HandoverRecommendations)
    BY <1>0 DEF TypeOK, ModuleTypeOK
  <2>3. /\ DOMAIN ctrlQueue' = 1 .. Len(ctrlQueue) - n
        /\ \A i \in 1 .. Len(ctrlQueue) - n : ctrlQueue'[i] = ctrlQueue[n + i]
    BY <1>3, <2>2, RemainingElements
  <2>4. \A i \in 1 .. Len(ctrlQueue) - n : n + i \in DOMAIN ctrlQueue
    BY <2>2
  <2>5. NoRequest'
    BY <1>1, <1>5, <2>1, <2>3, <2>4 DEF NoRequest, StaleInQueue, StaleOnAir
  <2>6. ctrlQueue = <<>> => ctrlQueue' = <<>>
    BY <1>3
  <2>7. Busy' => Busy
    BY <1>1, <1>5, <2>6 DEF Busy
  <2> QED BY <1>1, <1>2, <2>5, <2>6, <2>7, OrderlyKept
<1> QED BY <1>3, <1>4, <1>5
\* A frame start makes a request, or sends, follows or gives up the one there is.
LEMMA ApplyAsks ==
  ASSUME Inv, Orderly, DoFrameStart, ApplyTimu PROVE Orderly'
<1>1. /\ UNCHANGED <<m_utInfos, moves, timus, responses, m_handoverMessagesCount, m_loggedOn,
                     logonWait, m_hasPendingRequest, m_askedBeamId, timedOut, ctrlQueue,
                     hrs, logons>>
      /\ m_timuInfo # NoBeam /\ m_timuInfo' = NoBeam /\ m_beamId' = m_timuInfo
      /\ m_handoverState' = "WAITING_FOR_TBTP"
  BY DEF DoFrameStart, ApplyTimu, moduleVars
<1>2. Granted /\ m_loggedOn
  BY <1>1, Zenon DEF Orderly, Free, Refused, LoggedOff, NoTimu
<1>3. /\ timus = {} /\ m_beamId' = m_askedBeamId /\ ctrlQueue = <<>>
      /\ \A i \in DOMAIN hrs : StaleOnAir(hrs[i])
  BY <1>1, <1>2, Zenon DEF Granted, NoRequest
<1>4. NoRequest'
  BY <1>1, <1>3 DEF NoRequest, StaleOnAir
<1>5. Arrived'
  <2>1. CASE moves = <<>> /\ HasUt(m_askedBeamId)
    BY <1>1, <1>3, <2>1 DEF Arrived, HasUt
  <2>2. CASE /\ moves = <<[src |-> m_beamId, dest |-> m_askedBeamId]>>
             /\ HasUt(m_beamId) /\ ~HasUt(m_askedBeamId)
    BY <1>1, <1>3, <2>2 DEF Arrived, HasUt
  <2> QED BY <1>2, <2>1, <2>2 DEF Granted
<1>6. Waits'
  BY <1>1 DEF Orderly, Waits, Busy
<1>7. OneLogon'
  BY <1>1, <1>2 DEF Orderly, OneLogon
<1> QED BY <1>1, <1>2, <1>3, <1>4, <1>5, <1>6, <1>7 DEF Orderly, Free, NoTimu

LEMMA SendLogonAsks ==
  ASSUME Inv, Orderly, DoFrameStart, SendLogon PROVE Orderly'
<1>1. /\ UNCHANGED <<m_utInfos, moves, timus, responses, m_handoverMessagesCount, m_loggedOn,
                     m_hasPendingRequest, m_askedBeamId, timedOut, ctrlQueue, hrs, position,
                     m_beamId, m_timuInfo, m_handoverState, reconfiguring>>
      /\ ~m_loggedOn /\ logonWait'
      /\ logons' = IF logonWait THEN logons
                   ELSE logons \cup {[via |-> m_beamId, gw |-> GwOf[m_beamId]]}
  BY DEF DoFrameStart, SendLogon, moduleVars
<1>2. OneLogon'
  <2>1. CASE logonWait
    BY <1>1, <2>1 DEF Orderly, OneLogon, HasUt
  <2>2. CASE ~logonWait
    <3>1. logons = {} /\ responses = {}
      BY <2>2 DEF Orderly, OneLogon
    <3> QED BY <1>1, <2>2, <3>1 DEF OneLogon
  <2> QED BY <2>1, <2>2
<1>3. NoRequest => NoRequest'
  BY <1>1 DEF NoRequest, StaleInQueue, StaleOnAir
<1>4. RequestInQueue \/ RequestOnAir => (RequestInQueue \/ RequestOnAir)'
  BY <1>1 DEF RequestInQueue, RequestOnAir, StaleInQueue, StaleOnAir
<1>5. (Busy' => Busy) /\ (AskedFor => AskedFor')
  BY <1>1 DEF Busy, AskedFor
<1> QED BY <1>1, <1>2, <1>3, <1>4, <1>5, OrderlyKept

LEMMA TxDisabledAsks ==
  ASSUME Inv, Orderly, DoFrameStart, TxDisabled PROVE Orderly'
<1>1. UNCHANGED <<m_utInfos, moves, timus, responses, m_handoverMessagesCount, m_loggedOn,
                  m_hasPendingRequest, m_askedBeamId, timedOut, ctrlQueue, hrs, position,
                  m_beamId, m_timuInfo, m_handoverState, reconfiguring, logons, logonWait>>
  BY DEF DoFrameStart, TxDisabled, moduleVars
<1>2. OneLogon'
  BY <1>1, LogonKept DEF Orderly
<1>3. NoRequest => NoRequest'
  BY <1>1 DEF NoRequest, StaleInQueue, StaleOnAir
<1>4. RequestInQueue \/ RequestOnAir => (RequestInQueue \/ RequestOnAir)'
  BY <1>1 DEF RequestInQueue, RequestOnAir, StaleInQueue, StaleOnAir
<1>5. (Busy' => Busy) /\ (AskedFor => AskedFor')
  BY <1>1 DEF Busy, AskedFor
<1> QED BY <1>1, <1>2, <1>3, <1>4, <1>5, OrderlyKept

\* A recommendation is made only when none is under way.
LEMMA RecommendsWhenFree ==
  ASSUME Orderly, m_loggedOn, Recommends(m_beamId)
  PROVE  ~AskedFor /\ Free /\ NoRequest
<1>1. ~AskedFor
  BY DEF Recommends, StillPending, AskedFor
<1> QED BY <1>1, Zenon DEF Orderly, Free, Granted, Refused, Requested

LEMMA CheckBeamAsks ==
  ASSUME Inv, Orderly, DoFrameStart, CheckBeam PROVE Orderly'
<1> DEFINE possible == ControlMsgTransmissionPossible(AgedTbtps)
           queue == AfterRecommendation(m_beamId, possible)
<1>0. TypeOK /\ ctrlQueue \in Seq(HandoverRecommendations)
  BY DEF Inv, TypeOK, ModuleTypeOK
<1>1. /\ UNCHANGED <<position, m_utInfos, moves, timus, responses, m_beamId, m_timuInfo,
                     m_loggedOn, logonWait, reconfiguring, logons>>
      /\ m_loggedOn /\ ~reconfiguring /\ ~GivesUp
      /\ CheckForHandoverRecommendation(m_beamId)
      /\ RandomAccess(queue)
      /\ IF Recommends(m_beamId)
         THEN /\ m_handoverState' = StateAfterRecommendation
              /\ m_handoverMessagesCount' = CountAfterRecommendation
         ELSE UNCHANGED <<m_handoverState, m_handoverMessagesCount>>
  BY DEF DoFrameStart, CheckBeam
<1>2. queue \in Seq(HandoverRecommendations)
  <2>1. possible \in BOOLEAN
    BY <1>0, Zenon DEF TypeOK, ControlMsgTransmissionPossible
  <2> QED BY <1>0, <1>1, <2>1, ModuleStep DEF TypeOK
<1>3. PICK n \in 0 .. Len(queue) : /\ hrs' = hrs \o OnAir(SubSeq(queue, 1, n))
                                   /\ ctrlQueue' = SubSeq(queue, n + 1, Len(queue))
  <2> HIDE DEF queue
  <2> QED BY <1>1, <1>2, RandomAccessSends
<1>4. OneLogon'
  BY <1>1, LogonKept DEF Orderly
<1>5. CASE Recommends(m_beamId)
  <2>1. Free /\ NoRequest
    BY <1>1, <1>5, RecommendsWhenFree
  <2>2. AskedFor' /\ ~timedOut' /\ m_askedBeamId' = BestBeamFor(m_beamId)
    BY <1>1, <1>5 DEF CheckForHandoverRecommendation, Recommends, AskedFor
  <2>3. NothingOnAir /\ NothingAskedIn(ctrlQueue)
    BY <2>1 DEF NoRequest, NothingOnAir, NothingAskedIn, StaleInQueue
  <2>4. NothingAskedIn(queue) \/ AskedLastIn(queue, m_askedBeamId')
    <3>1. CASE queue = ctrlQueue
      BY <2>3, <3>1
    <3>2. CASE queue = Append(ctrlQueue, [gw |-> GwOf[m_beamId], beam |-> BestBeamFor(m_beamId)])
      <4>1. PICK r : r = [gw |-> GwOf[m_beamId], beam |-> BestBeamFor(m_beamId)]
        OBVIOUS
      <4>2. r.beam = m_askedBeamId' /\ queue = Append(ctrlQueue, r)
        BY <2>2, <3>2, <4>1
      <4> HIDE DEF queue
      <4>3. PICK l \in Nat : l = Len(ctrlQueue) /\ DOMAIN ctrlQueue = 1 .. l
        BY <1>0
      <4>4. /\ Len(queue) = l + 1 /\ queue[l + 1] = r /\ DOMAIN queue = 1 .. l + 1
            /\ \A i \in 1 .. l : queue[i] = ctrlQueue[i]
        BY <1>0, <1>2, <4>2, <4>3
      <4>5. queue # <<>>
        BY <4>4
      <4>6. \A i \in 1 .. l + 1 : i # l + 1 => i \in 1 .. l
        BY <4>3
      <4> QED BY <2>3, <4>2, <4>3, <4>4, <4>5, <4>6 DEF AskedLastIn, NothingAskedIn
    <3> QED BY <3>1, <3>2 DEF AfterRecommendation
  <2> HIDE DEF queue
  <2>5. NoRequest' \/ (RequestInQueue \/ RequestOnAir)'
    BY <1>0, <1>1, <1>2, <1>3, <2>3, <2>4, SendingAsks
  <2>6. Waits'
    <3>1. UseLogon => CountAfterRecommendation <= MaxHandoverMessages
      <4>1. m_handoverMessagesCount \in Int /\ MaxHandoverMessages \in Nat
        BY <1>0 DEF TypeOK
      <4> QED BY <1>1, <1>5, <4>1 DEF GivesUp, CountAfterRecommendation
    <3> QED BY <1>1, <1>5, <2>2, <3>1 DEF Waits
  <2>7. Free'
    BY <1>1, <2>1, <2>2, <2>5 DEF Free, NoTimu, Arrived, Requested, HasUt
  <2> QED BY <1>1, <1>4, <2>6, <2>7 DEF Orderly
<1>6. CASE ~Recommends(m_beamId)
  <2>1. queue = ctrlQueue
    BY <1>6 DEF AfterRecommendation
  <2> HIDE DEF queue
  <2>2. UNCHANGED <<m_askedBeamId, timedOut, m_handoverState, m_handoverMessagesCount>>
    BY <1>1, <1>6 DEF CheckForHandoverRecommendation
  <2>3. AskedFor => AskedFor'
    BY <1>1, <1>6, <2>2 DEF CheckForHandoverRecommendation, AskedFor, StillPending
  <2>4. /\ NoRequest => NoRequest'
        /\ RequestInQueue \/ RequestOnAir => (RequestInQueue \/ RequestOnAir)'
        /\ ctrlQueue = <<>> => UNCHANGED hrs /\ ctrlQueue' = <<>>
    BY <1>0, <1>1, <1>3, <2>1, <2>2, SendingKeeps
  <2>5. Busy' => Busy
    BY <1>1, <2>4 DEF Busy
  <2> QED BY <1>1, <1>4, <2>2, <2>3, <2>4, <2>5, OrderlyKept
<1> QED BY <1>5, <1>6

\* A recommendation is given up only when nothing is under way any more.
LEMMA GiveUpAsks ==
  ASSUME Inv, Orderly, DoFrameStart, GiveUp PROVE AskInv'
<1> DEFINE possible == ControlMsgTransmissionPossible(AgedTbtps)
<1>0. TypeOK /\ m_handoverMessagesCount \in Int /\ MaxHandoverMessages \in Nat
  BY DEF Inv, TypeOK
<1>1. /\ UNCHANGED <<m_utInfos, moves, timus, responses, m_timuInfo, hrs, logons>>
      /\ m_loggedOn /\ ~m_loggedOn' /\ GivesUp
      /\ CheckForHandoverRecommendation(m_beamId)
      /\ ctrlQueue' = AfterRecommendation(m_beamId, possible)
      /\ m_handoverMessagesCount' = 0 /\ m_handoverState' = "NO_HANDOVER"
      /\ aborted' = "NO" => m_beamId' = BestBeamFor(m_beamId)
  BY DEF DoFrameStart, GiveUp
<1>2. UnheldUtIsAsking'
  BY <1>1 DEF UnheldUtIsAsking
<1>3. ASSUME aborted' = "NO" PROVE Orderly'
  <2>1. Recommends(m_beamId) /\ ~AskedFor
    BY <1>1, RecommendsWhenFree DEF GivesUp
  <2>2. m_handoverState = "HANDOVER_RECOMMENDATION_SENT"
    BY <1>0, <1>1 DEF GivesUp, CountAfterRecommendation, Orderly, Waits
  <2>3. ~Busy
    BY <2>1, <2>2 DEF Orderly, Waits
  <2>4. ctrlQueue' = <<>> \/ ctrlQueue' = <<[gw |-> GwOf[m_beamId], beam |-> m_beamId']>>
    <3>1. PICK r : r = [gw |-> GwOf[m_beamId], beam |-> m_beamId']
      OBVIOUS
    <3>2. ctrlQueue' = ctrlQueue \/ ctrlQueue' = Append(ctrlQueue, r)
      BY <1>1, <1>3, <3>1 DEF AfterRecommendation
    <3>3. ctrlQueue = <<>>
      BY <2>3 DEF Busy
    <3>4. ctrlQueue' = <<>> \/ ctrlQueue' = <<r>>
      BY <3>2, <3>3
    <3> QED BY <3>1, <3>4
  <2>5. \A i \in DOMAIN ctrlQueue' : ctrlQueue'[i].beam = m_beamId'
    <3>1. CASE ctrlQueue' = <<>>
      BY <3>1
    <3>2. CASE ctrlQueue' = <<[gw |-> GwOf[m_beamId], beam |-> m_beamId']>>
      BY <3>2
    <3> QED BY <2>4, <3>1, <3>2
  <2>6. LoggedOff'
    BY <1>1, <2>3, <2>5 DEF LoggedOff, NoRequest, NoTimu, StaleInQueue, Busy
  <2>7. OneLogon'
    BY <1>1 DEF Orderly, OneLogon
  <2>8. Waits'
    BY <1>0, <1>1, <2>1 DEF Waits, CheckForHandoverRecommendation
  <2> QED BY <1>1, <2>3, <2>6, <2>7, <2>8 DEF Orderly, LoggedOff, NoTimu
<1> QED BY <1>2, <1>3 DEF AskInv
\* A message that is taken from the return link leaves the others as they were.
LEMMA RemovedElements ==
  ASSUME NEW S, NEW s \in Seq(S), NEW i \in DOMAIN s
  PROVE  /\ i \in 1 .. Len(s) /\ DOMAIN s = 1 .. Len(s)
         /\ DOMAIN RemoveAt(s, i) = 1 .. Len(s) - 1
         /\ \A j \in 1 .. i - 1 : RemoveAt(s, i)[j] = s[j]
         /\ \A j \in i .. Len(s) - 1 : RemoveAt(s, i)[j] = s[j + 1]
<1>1. PICK l \in Nat : l = Len(s) /\ DOMAIN s = 1 .. l /\ i \in 1 .. l
  OBVIOUS
<1>2. PICK a : a = SubSeq(s, 1, i - 1)
  OBVIOUS
<1>3. PICK b : b = SubSeq(s, i + 1, l)
  OBVIOUS
<1>4. a \in Seq(S) /\ Len(a) = i - 1 /\ \A j \in 1 .. i - 1 : a[j] = s[j]
  BY <1>1, <1>2
<1>5. b \in Seq(S) /\ Len(b) = l - i /\ \A j \in 1 .. l - i : b[j] = s[j + i]
  <2>1. b \in Seq(S) /\ Len(b) = l - i
    BY <1>1, <1>3
  <2>2. ASSUME NEW j \in 1 .. l - i PROVE b[j] = s[j + i]
    <3>1. b[j] = s[(i + 1) + j - 1] /\ (i + 1) + j - 1 = j + i
      BY <1>1, <1>3
    <3> QED BY <3>1
  <2> QED BY <2>1, <2>2
<1>6. PICK r : r = RemoveAt(s, i)
  OBVIOUS
<1>7. r = a \o b
  BY <1>1, <1>2, <1>3, <1>6 DEF RemoveAt
<1>8. /\ DOMAIN r = 1 .. l - 1 /\ \A j \in 1 .. i - 1 : r[j] = s[j]
      /\ \A j \in 1 .. l - i : r[(i - 1) + j] = s[j + i]
  <2>1. a \in Seq(S) /\ b \in Seq(S)
    BY <1>4, <1>5
  <2>2. /\ DOMAIN r = 1 .. Len(a) + Len(b)
        /\ \A j \in 1 .. Len(a) : r[j] = a[j]
        /\ \A j \in 1 .. Len(b) : r[Len(a) + j] = b[j]
    BY ONLY <2>1, <1>7, JoinedElements, SMT
  <2>3. (i - 1) + (l - i) = l - 1
    BY <1>1
  <2> QED BY <1>4, <1>5, <2>2, <2>3
<1>9. ASSUME NEW j \in i .. l - 1 PROVE r[j] = s[j + 1]
  <2>1. j - i + 1 \in 1 .. l - i /\ (i - 1) + (j - i + 1) = j /\ (j - i + 1) + i = j + 1
    BY <1>1
  <2> QED BY <1>8, <2>1
<1> QED BY <1>1, <1>6, <1>8, <1>9

LEMMA RemovingAsks ==
  ASSUME TypeOK, NEW i \in DOMAIN hrs, hrs' = RemoveAt(hrs, i),
         UNCHANGED <<m_beamId, m_askedBeamId, ctrlQueue>>
  PROVE  /\ NoRequest => NoRequest'
         /\ RequestInQueue \/ RequestOnAir => NoRequest' \/ (RequestInQueue \/ RequestOnAir)'
         /\ RequestOnAir /\ ~StaleOnAir(hrs[i])
              => /\ hrs[i].via = m_beamId /\ hrs[i].beam = m_askedBeamId
                 /\ NoRequest'
<1>1. hrs \in Seq(HrsOnAir)
  BY DEF TypeOK
<1>2. PICK l \in Nat : l = Len(hrs) /\ DOMAIN hrs = 1 .. l /\ i \in 1 .. l
  BY <1>1
<1>3. /\ DOMAIN hrs' = 1 .. l - 1
      /\ \A j \in 1 .. i - 1 : hrs'[j] = hrs[j]
      /\ \A j \in i .. l - 1 : hrs'[j] = hrs[j + 1]
  BY <1>1, <1>2, RemovedElements
<1>4. \A j \in DOMAIN hrs' : \E k \in DOMAIN hrs : k # i /\ hrs'[j] = hrs[k]
  <2> TAKE j \in DOMAIN hrs'
  <2>1. CASE j < i
    BY <1>2, <1>3, <2>1
  <2>2. CASE j >= i
    <3>1. j + 1 \in DOMAIN hrs /\ j + 1 # i /\ hrs'[j] = hrs[j + 1]
      BY <1>2, <1>3, <2>2
    <3> QED BY <3>1
  <2> QED BY <1>2, <1>3, <2>1, <2>2
<1>5. NothingOnAir => \A j \in DOMAIN hrs' : StaleOnAir(hrs'[j])
  BY <1>4 DEF NothingOnAir
<1>6. (NoRequest => NoRequest') /\ (RequestInQueue => RequestInQueue')
  BY <1>5 DEF NoRequest, RequestInQueue, NothingOnAir, StaleInQueue, StaleOnAir
<1>7. ASSUME RequestOnAir
      PROVE  /\ NoRequest' \/ RequestOnAir'
             /\ ~StaleOnAir(hrs[i]) => /\ hrs[i].via = m_beamId /\ hrs[i].beam = m_askedBeamId
                                       /\ NoRequest'
  <2>1. PICK k \in DOMAIN hrs : /\ hrs[k].via = m_beamId /\ hrs[k].beam = m_askedBeamId
                                /\ \A j \in DOMAIN hrs \ {k} : StaleOnAir(hrs[j])
    BY <1>7 DEF RequestOnAir
  <2>2. ctrlQueue = <<>>
    BY <1>7 DEF RequestOnAir
  <2>3. CASE k = i
    <3>1. \A j \in DOMAIN hrs' : StaleOnAir(hrs'[j])
      BY <1>4, <2>1, <2>3
    <3>2. NoRequest'
      BY <2>2, <3>1 DEF NoRequest, StaleOnAir
    <3> QED BY <2>1, <2>3, <3>2
  <2>4. CASE k # i
    <3>1. PICK p : p = IF k < i THEN k ELSE k - 1
      OBVIOUS
    <3>2. p \in DOMAIN hrs' /\ hrs'[p] = hrs[k]
      <4>1. CASE k < i
        BY <1>2, <1>3, <3>1, <4>1
      <4>2. CASE k > i
        <5>1. k - 1 \in i .. l - 1 /\ (k - 1) + 1 = k
          BY <1>2, <4>2
        <5> QED BY <1>2, <1>3, <3>1, <4>2, <5>1
      <4> QED BY <1>2, <2>4, <4>1, <4>2
    <3>3. \A j \in DOMAIN hrs' \ {p} : StaleOnAir(hrs'[j])
      <4> TAKE j \in DOMAIN hrs' \ {p}
      <4>1. CASE j < i
        <5>1. j \in DOMAIN hrs \ {k} /\ hrs'[j] = hrs[j]
          BY <1>2, <1>3, <3>1, <4>1
        <5> QED BY <2>1, <5>1
      <4>2. CASE j >= i
        <5>1. j + 1 \in DOMAIN hrs \ {k} /\ hrs'[j] = hrs[j + 1]
          BY <1>2, <1>3, <2>4, <3>1, <4>2
        <5> QED BY <2>1, <5>1
      <4> QED BY <1>2, <1>3, <4>1, <4>2
    <3>4. RequestOnAir'
      BY <2>1, <2>2, <3>2, <3>3 DEF RequestOnAir, StaleOnAir
    <3> QED BY <2>1, <2>4, <3>4
  <2> QED BY <2>3, <2>4
<1> QED BY <1>6, <1>7
\* The answer to the request is kept for the next frame start, or ends it.
LEMMA TimuAsks ==
  ASSUME Inv, Orderly, ReceiveTimu PROVE Orderly'
<1>1. PICK t \in timus :
         /\ timus' = timus \ {t}
         /\ m_timuInfo' = IF Listens(t.via) /\ t.beam # m_beamId THEN t.beam ELSE m_timuInfo
  BY DEF ReceiveTimu
<1>2. UNCHANGED <<position, m_askedBeamId, m_hasPendingRequest, timedOut, ctrlQueue, m_utInfos,
                  moves, m_beamId, m_handoverState, m_handoverMessagesCount, m_loggedOn,
                  logonWait, reconfiguring, hrs, logons, responses>>
  BY DEF ReceiveTimu, moduleVars, airVars
<1>3. (Granted \/ Refused) /\ m_loggedOn /\ ~reconfiguring
  BY <1>1, Zenon DEF Orderly, Free, LoggedOff, NoTimu
<1>4. OneLogon'
  BY <1>2, LogonKept DEF Orderly
<1>5. Waits'
  BY <1>1, <1>2 DEF Orderly, Waits, Busy, AskedFor
<1>6. NoRequest'
  BY <1>2, <1>3 DEF Granted, Refused, NoRequest, StaleInQueue, StaleOnAir
<1>7. CASE Granted
  <2>1. timus = {[via |-> m_beamId, beam |-> m_askedBeamId]} /\ m_askedBeamId # m_beamId
    BY <1>1, <1>7 DEF Granted, AskedFor
  <2>2. t = [via |-> m_beamId, beam |-> m_askedBeamId]
    BY <2>1
  <2>3. timus' = {} /\ t.via = m_beamId /\ t.beam = m_askedBeamId
    BY <1>1, <2>1, <2>2
  <2>4. m_timuInfo' = m_askedBeamId
    BY <1>1, <1>3, <2>1, <2>3 DEF Listens
  <2>5. Granted'
    BY <1>2, <1>6, <1>7, <2>3, <2>4 DEF Granted, AskedFor, HasUt
  <2> QED BY <1>2, <1>3, <1>4, <1>5, <2>5 DEF Orderly
<1>8. CASE Refused
  <2>1. timus = {[via |-> m_beamId, beam |-> m_beamId]} /\ m_timuInfo = NoBeam
    BY <1>8 DEF Refused
  <2>2. t = [via |-> m_beamId, beam |-> m_beamId]
    BY <2>1
  <2>3. timus' = {} /\ t.beam = m_beamId
    BY <1>1, <2>1, <2>2
  <2>4. Free'
    BY <1>1, <1>2, <1>6, <1>8, <2>1, <2>3 DEF Refused, Free, NoTimu, Arrived, HasUt
  <2> QED BY <1>2, <1>3, <1>4, <1>5, <2>4 DEF Orderly
<1> QED BY <1>3, <1>7, <1>8

\* The NCC grants the request or refuses it, or the UT is ahead of it; what is stale
\* is for another gateway, or ends the simulation.
LEMMA GatewayAsks ==
  ASSUME Inv, Orderly, aborted = "NO", ReceiveHandoverRecommendation PROVE AskInv'
<1>0. TypeOK /\ hrs \in Seq(HrsOnAir) /\ m_beamId \in Existing
  BY DEF Inv, TypeOK
<1>1. PICK i \in DOMAIN hrs :
         /\ IF hrs[i].gw = GwOf[hrs[i].via]
            THEN MoveUtBetweenBeams(hrs[i].via, hrs[i].beam)
            ELSE UNCHANGED nccVars
         /\ hrs' = RemoveAt(hrs, i)
  BY DEF ReceiveHandoverRecommendation
<1>2. UNCHANGED <<position, m_askedBeamId, m_hasPendingRequest, timedOut, ctrlQueue,
                  m_beamId, m_handoverState, m_handoverMessagesCount, m_loggedOn, m_timuInfo,
                  logonWait, reconfiguring, logons, responses>>
  BY DEF ReceiveHandoverRecommendation, macVars, moduleVars
<1>3. UNCHANGED m_utInfos
  BY <1>0, RecommendationType
<1>4. hrs # <<>> /\ hrs[i].via \in Existing
  <2>1. hrs # <<>> /\ hrs[i] \in HrsOnAir
    BY <1>0
  <2> QED BY <2>1 DEF HrsOnAir
<1>5. /\ NoRequest => NoRequest'
      /\ RequestInQueue \/ RequestOnAir => NoRequest' \/ (RequestInQueue \/ RequestOnAir)'
      /\ RequestOnAir /\ ~StaleOnAir(hrs[i])
           => /\ hrs[i].via = m_beamId /\ hrs[i].beam = m_askedBeamId
              /\ NoRequest'
  BY <1>0, <1>1, <1>2, RemovingAsks
<1>6. OneLogon' /\ (AskedFor => AskedFor') /\ Busy
  <2>1. OneLogon'
    BY <1>2, <1>3, LogonKept DEF Orderly
  <2>2. (AskedFor => AskedFor') /\ Busy
    BY <1>2, <1>4 DEF AskedFor, Busy
  <2> QED BY <2>1, <2>2
<1>7. Waits'
  BY <1>2, <1>6 DEF Orderly, Waits
<1>8. UnheldUtIsAsking
  BY <1>0, OrderlyAsks
<1>9. Orderly' => AskInv'
  BY Zenon DEF AskInv
<1>10. CASE UNCHANGED nccVars
  <2>0. UNCHANGED <<moves, timus>> /\ (ctrlQueue = <<>> => ctrlQueue' = <<>>)
    BY <1>2, <1>10 DEF nccVars
  <2>1. Orderly'
    BY <1>2, <1>3, <1>5, <1>6, <2>0, OrderlyKept
  <2> QED BY <1>9, <2>1
<1>11. CASE InconsistentHandover(hrs[i].via, hrs[i].beam)
  <2>1. aborted' # "NO" /\ UNCHANGED moves
    BY <1>11 DEF InconsistentHandover
  <2>2. UnheldUtIsAsking'
    BY <1>2, <1>3, <1>8, <2>1 DEF UnheldUtIsAsking, HasUt
  <2> QED BY <2>1, <2>2 DEF AskInv
<1>12. CASE StaleOnAir(hrs[i])
  <2>1. HasUt(hrs[i].via) <=> HasUt(hrs[i].beam)
    BY <1>12 DEF StaleOnAir
  <2>2. hrs[i].beam \in Existing
    BY <1>4, <1>12 DEF StaleOnAir
  <2> QED BY <1>1, <1>10, <1>11, <2>1, <2>2
          DEF MoveUtBetweenBeams, CancelHandover, PerformHandover, HandoverAlreadyPerformed
<1>13. ASSUME ~StaleOnAir(hrs[i]), MoveUtBetweenBeams(m_beamId, m_askedBeamId) PROVE AskInv'
  <2>1. ~NoRequest
    BY <1>13 DEF NoRequest
  <2>2. m_loggedOn /\ ~reconfiguring /\ Free /\ Requested
    BY <2>1, Zenon DEF Orderly, Free, Granted, Refused, LoggedOff
  <2>3. RequestOnAir /\ AskedFor /\ timus = {} /\ m_timuInfo = NoBeam
    BY <1>13, <2>2 DEF Free, Requested, RequestInQueue, NoTimu
  <2>4. NoRequest' /\ ctrlQueue' = <<>>
    BY <1>2, <1>5, <1>13, <2>3 DEF RequestOnAir
  <2>5. HasUt(m_beamId) => moves = <<>>
    BY <2>2 DEF Free, Arrived
  <2>6. CASE CancelHandover(m_beamId, m_askedBeamId)
    <3>1. CASE HasUt(m_beamId)
      <4>1. timus' = {[via |-> m_beamId, beam |-> m_beamId]} /\ UNCHANGED moves
        BY <2>3, <2>6, <3>1 DEF CancelHandover, SendTo
      <4>2. Refused'
        BY <1>2, <1>3, <1>6, <2>3, <2>4, <2>5, <3>1, <4>1 DEF Refused, HasUt
      <4> QED BY <1>2, <1>6, <1>7, <1>9, <2>2, <4>2 DEF Orderly
    <3>2. CASE ~HasUt(m_beamId)
      <4>1. UNCHANGED <<timus, moves>>
        BY <2>6, <3>2 DEF CancelHandover, SendTo
      <4>2. Free'
        BY <1>2, <1>3, <2>2, <2>4, <4>1 DEF Free, NoTimu, Arrived, HasUt
      <4> QED BY <1>2, <1>6, <1>7, <1>9, <2>2, <4>2 DEF Orderly
    <3> QED BY <3>1, <3>2
  <2>7. CASE PerformHandover(m_beamId, m_askedBeamId)
    <3>1. HasUt(m_beamId) /\ ~HasUt(m_askedBeamId) /\ m_askedBeamId \in Existing
      BY <2>7 DEF PerformHandover
    <3>2. timus' = {[via |-> m_beamId, beam |-> m_askedBeamId]}
      BY <2>3, <2>7, <3>1 DEF PerformHandover, SendTo
    <3>3. moves' = Append(moves, [src |-> m_beamId, dest |-> m_askedBeamId])
      BY <2>7 DEF PerformHandover
    <3>4. moves' = <<[src |-> m_beamId, dest |-> m_askedBeamId]>>
      BY <2>5, <3>1, <3>3
    <3>5. Granted'
      BY <1>2, <1>3, <1>6, <2>3, <2>4, <3>1, <3>2, <3>4 DEF Granted, HasUt
    <3> QED BY <1>2, <1>6, <1>7, <1>9, <2>2, <3>5 DEF Orderly
  <2>8. CASE HandoverAlreadyPerformed(m_beamId, m_askedBeamId)
    <3>1. UNCHANGED <<timus, moves>>
      BY <2>8 DEF HandoverAlreadyPerformed, SendTo
    <3>2. Free'
      BY <1>2, <1>3, <2>2, <2>4, <3>1 DEF Free, NoTimu, Arrived, HasUt
    <3> QED BY <1>2, <1>6, <1>7, <1>9, <2>2, <3>2 DEF Orderly
  <2>9. hrs[i].via = m_beamId /\ hrs[i].beam = m_askedBeamId
    BY <1>5, <1>13, <2>3
  <2> QED BY <1>11, <1>13, <2>6, <2>7, <2>8, <2>9 DEF MoveUtBetweenBeams
<1>14. CASE ~StaleOnAir(hrs[i]) /\ hrs[i].gw = GwOf[hrs[i].via]
  <2>1. ~NoRequest
    BY <1>14 DEF NoRequest
  <2>2. Free /\ Requested
    BY <2>1, Zenon DEF Orderly, Free, Granted, Refused, LoggedOff
  <2>3. RequestOnAir
    BY <1>14, <2>2 DEF Requested, RequestInQueue
  <2> QED BY <1>1, <1>5, <1>13, <1>14, <2>3
<1> QED BY <1>1, <1>10, <1>12, <1>14

\* The transfer reaches the beam that was asked for, where the UT is or is told to go.
LEMMA TransferAsks ==
  ASSUME Inv, Orderly, aborted = "NO", TransferUt PROVE Orderly'
<1>1. UNCHANGED <<position, m_askedBeamId, m_hasPendingRequest, timedOut, ctrlQueue, timus,
                  m_beamId, m_handoverState, m_handoverMessagesCount, m_loggedOn, m_timuInfo,
                  logonWait, reconfiguring, logons, responses, hrs>>
      /\ moves # <<>> /\ moves' = Tail(moves)
      /\ TransferUtToBeam(Head(moves).src, Head(moves).dest)
  BY DEF TransferUt, DoMoveUtBetweenBeams, macVars, moduleVars, airVars
<1>2. m_loggedOn /\ (Free \/ Granted)
  BY <1>1, Zenon DEF Orderly, LoggedOff, Refused
<1>3. OneLogon' /\ Waits'
  <2>1. OneLogon'
    BY <1>1, <1>2 DEF Orderly, OneLogon
  <2>2. Waits'
    BY <1>1 DEF Orderly, Waits, Busy, AskedFor
  <2> QED BY <2>1, <2>2
<1>4. /\ NoRequest => NoRequest'
      /\ Requested => Requested'
  BY <1>1 DEF NoRequest, Requested, RequestInQueue, RequestOnAir, StaleInQueue, StaleOnAir,
              AskedFor
<1>5. ASSUME NEW src, NEW dest, moves = <<[src |-> src, dest |-> dest]>>,
             HasUt(src), ~HasUt(dest)
      PROVE  moves' = <<>> /\ HasUt(dest)'
  <2>1. Head(moves).src = src /\ Head(moves).dest = dest /\ Tail(moves) = <<>>
    BY <1>5
  <2>2. m_utInfos' = (m_utInfos \cup {dest}) \ {src} /\ dest # src
    BY <1>1, <1>5, <2>1 DEF TransferUtToBeam, HasUt
  <2> QED BY <1>1, <2>1, <2>2 DEF HasUt
<1>6. CASE Granted
  <2>1. /\ moves = <<[src |-> m_beamId, dest |-> m_askedBeamId]>>
        /\ HasUt(m_beamId) /\ ~HasUt(m_askedBeamId)
    BY <1>1, <1>6 DEF Granted
  <2>2. moves' = <<>> /\ m_askedBeamId \in m_utInfos'
    BY <1>5, <2>1 DEF HasUt
  <2>3. Granted'
    BY <1>1, <1>4, <1>6, <2>2 DEF Granted, AskedFor, HasUt
  <2> QED BY <1>1, <1>2, <1>3, <1>4, <2>3 DEF Orderly
<1>7. CASE Free
  <2>1. ~HasUt(m_beamId)
    BY <1>1, <1>7 DEF Free, Arrived
  <2>2. PICK b \in m_utInfos : moves = <<[src |-> b, dest |-> m_beamId]>>
    BY <1>1, <1>7 DEF Free, Arrived
  <2>3. moves' = <<>> /\ m_beamId \in m_utInfos'
    BY <1>5, <2>1, <2>2 DEF HasUt
  <2>4. Free'
    BY <1>1, <1>4, <1>7, <2>3 DEF Free, NoTimu, Arrived, HasUt
  <2> QED BY <1>1, <1>2, <1>3, <1>4, <2>4 DEF Orderly
<1> QED BY <1>2, <1>6, <1>7
\* The UT is taken in where it logged on, and hears of it there.
LEMMA LogonAsks ==
  ASSUME Inv, Orderly, aborted = "NO", ReceiveLogon PROVE Orderly'
<1>1. PICK l \in logons :
         /\ logons' = logons \ {l}
         /\ IF l.gw = GwOf[l.via]
            THEN /\ AddUt(l.via)
                 /\ responses' = IF AnswersLogon(l.via) THEN responses \cup {l.via}
                                 ELSE responses
            ELSE UNCHANGED <<nccVars, responses>>
  BY DEF ReceiveLogon
<1>2. /\ UNCHANGED <<position, m_askedBeamId, m_hasPendingRequest, timedOut, ctrlQueue,
                     m_beamId, m_handoverState, m_handoverMessagesCount, m_loggedOn,
                     m_timuInfo, logonWait, reconfiguring, hrs>>
      /\ UNCHANGED <<moves, timus>>
  BY <1>1 DEF ReceiveLogon, macVars, moduleVars, nccVars, AddUt
<1>3. ~m_loggedOn /\ logonWait /\ LoggedOff
  BY <1>1 DEF Orderly, OneLogon
<1>4. logons = {l} /\ l.via = m_beamId /\ responses = {}
  BY <1>1 DEF Orderly, OneLogon
<1>5. logons' = {}
  BY <1>1, <1>4
<1>6. responses' = {} \/ (responses' = {m_beamId} /\ m_beamId \in m_utInfos')
  BY <1>1, <1>4 DEF AddUt
<1>7. OneLogon'
  BY <1>2, <1>3, <1>5, <1>6 DEF OneLogon, HasUt
<1>8. LoggedOff'
  BY <1>2, <1>3 DEF LoggedOff, NoRequest, NoTimu, StaleInQueue, StaleOnAir
<1>9. Waits'
  BY <1>2 DEF Orderly, Waits, Busy, AskedFor
<1> QED BY <1>2, <1>3, <1>7, <1>8, <1>9 DEF Orderly, LoggedOff, NoTimu

LEMMA ResponseAsks ==
  ASSUME Inv, Orderly, aborted = "NO", ReceiveLogonResponse PROVE Orderly'
<1>1. PICK b \in responses : /\ responses' = responses \ {b}
                             /\ m_loggedOn' = (m_loggedOn \/ Listens(b))
  BY DEF ReceiveLogonResponse
<1>2. UNCHANGED <<position, m_askedBeamId, m_hasPendingRequest, timedOut, ctrlQueue,
                  m_beamId, m_handoverState, m_handoverMessagesCount, m_utInfos, moves, timus,
                  m_timuInfo, logonWait, reconfiguring, hrs, logons>>
  BY DEF ReceiveLogonResponse, moduleVars, nccVars
<1>3. ~m_loggedOn /\ LoggedOff
  BY <1>1 DEF Orderly, OneLogon
<1>4. logons = {} /\ responses = {b} /\ HasUt(m_beamId)
  BY <1>1 DEF Orderly, OneLogon
<1>5. logons' = {} /\ responses' = {}
  BY <1>1, <1>2, <1>4
<1>6. OneLogon'
  BY <1>5 DEF OneLogon
<1>7. LoggedOff' /\ Free'
  BY <1>2, <1>3, <1>4
     DEF LoggedOff, Free, Arrived, NoRequest, NoTimu, StaleInQueue, StaleOnAir, HasUt
<1>8. Waits'
  BY <1>2 DEF Orderly, Waits, Busy, AskedFor
<1> QED BY <1>2, <1>3, <1>6, <1>7, <1>8 DEF Orderly, LoggedOff, NoTimu

\* A request that is lost leaves none.
LEMMA LoseAsks ==
  ASSUME TimuArrives, Inv, Orderly, Lose PROVE Orderly'
<1>0. TypeOK /\ lost["TIMU"] \in Nat /\ ~(lost["TIMU"] < MaxLoss["TIMU"])
  BY DEF Inv, TypeOK, Kinds, TimuArrives
<1>1. UNCHANGED <<position, m_askedBeamId, m_hasPendingRequest, timedOut, ctrlQueue, m_utInfos,
                  moves, m_beamId, m_handoverState, m_handoverMessagesCount, m_loggedOn,
                  m_timuInfo, logonWait, reconfiguring>>
      /\ UNCHANGED timus
  BY <1>0 DEF Lose, CanLose, macVars, moduleVars
<1>2. AskedFor => AskedFor'
  BY <1>1 DEF AskedFor
<1>3. OneLogon'
  <2>1. CASE UNCHANGED <<logons, responses>>
    BY <1>1, <2>1, LogonKept DEF Orderly
  <2>2. CASE (\E l \in logons : logons' = logons \ {l}) /\ UNCHANGED responses
    <3>1. responses = {} /\ logons' = {}
      BY <2>2 DEF Orderly, OneLogon
    <3> QED BY <2>2, <3>1 DEF OneLogon
  <2>3. CASE (\E b \in responses : responses' = responses \ {b}) /\ UNCHANGED logons
    <3>1. logons = {} /\ responses' = {}
      BY <2>3 DEF Orderly, OneLogon
    <3> QED BY <2>3, <3>1 DEF OneLogon
  <2> QED BY <2>1, <2>2, <2>3 DEF Lose
<1>4. CASE UNCHANGED hrs
  <2>1. NoRequest => NoRequest'
    BY <1>1, <1>4 DEF NoRequest, StaleInQueue, StaleOnAir
  <2>2. RequestInQueue \/ RequestOnAir => (RequestInQueue \/ RequestOnAir)'
    BY <1>1, <1>4 DEF RequestInQueue, RequestOnAir, StaleInQueue, StaleOnAir
  <2>3. (Busy' => Busy) /\ (ctrlQueue = <<>> => ctrlQueue' = <<>>)
    BY <1>1, <1>4 DEF Busy
  <2> QED BY <1>1, <1>2, <1>3, <2>1, <2>2, <2>3, OrderlyKept
<1>5. ASSUME NEW i \in DOMAIN hrs, hrs' = RemoveAt(hrs, i) PROVE Orderly'
  <2>1. /\ NoRequest => NoRequest'
        /\ RequestInQueue \/ RequestOnAir => NoRequest' \/ (RequestInQueue \/ RequestOnAir)'
    BY <1>0, <1>1, <1>5, RemovingAsks
  <2>2. hrs # <<>>
    BY <1>0 DEF TypeOK
  <2>3. (Busy' => Busy) /\ (ctrlQueue = <<>> => ctrlQueue' = <<>>)
    BY <1>1, <2>2 DEF Busy
  <2> QED BY <1>1, <1>2, <1>3, <2>1, <2>3, OrderlyKept
<1> QED BY <1>4, <1>5 DEF Lose

\* While a request is under way the UT stays where it is and no request times out.
LEMMA EnvironmentAsks ==
  ASSUME TimuArrives, Inv, Orderly, Move \/ RequestTimeout PROVE Orderly'
<1>1. UNCHANGED <<m_askedBeamId, m_hasPendingRequest, ctrlQueue, m_utInfos, timus,
                  moves, m_beamId, m_handoverState, m_handoverMessagesCount, m_loggedOn,
                  m_timuInfo, logonWait, reconfiguring, hrs, logons, responses>>
  BY DEF Move, RequestTimeout, macVars, moduleVars, nccVars, airVars
<1>2. ~Outstanding
  BY DEF Move, RequestTimeout, TimuArrives
<1>3. /\ ctrlQueue = <<>> /\ hrs = <<>> /\ timus = {} /\ m_timuInfo = NoBeam /\ moves = <<>>
      /\ \A x : {x} # {}
  BY <1>2 DEF Outstanding
<1>4. NoRequest /\ NoRequest'
  BY <1>1, <1>3 DEF NoRequest
<1>5. Waits'
  BY <1>1, <1>3 DEF Orderly, Waits, Busy
<1>6. OneLogon'
  BY <1>1, LogonKept DEF Orderly
<1>7. IF m_loggedOn THEN Free ELSE LoggedOff
  <2>1. ~Granted
    BY <1>3 DEF Granted
  <2>2. ~Refused
    BY <1>3 DEF Refused
  <2> QED BY <2>1, <2>2, Zenon DEF Orderly
<1>8. IF m_loggedOn' THEN Free' ELSE LoggedOff'
  BY <1>1, <1>3, <1>4, <1>7 DEF Free, Arrived, LoggedOff, NoTimu, HasUt
<1> QED BY <1>1, <1>3, <1>4, <1>5, <1>6, <1>8 DEF Orderly

LEMMA AskStep ==
  ASSUME TimuArrives, Inv, AskInv, [Next]_vars PROVE AskInv'
<1>1. CASE aborted # "NO"
  <2>1. UNCHANGED vars
    BY <1>1 DEF Next, UtNext, NccNext, DoFrameStart, AssignNewSatChannels, DoTransmit,
       DoSlottedAlohaTransmit, ReceiveTbtp, ReceiveTimu, ReceiveLogonResponse, Schedule,
       ReceiveHandoverRecommendation, TransferUt, ReceiveLogon, Move, RequestTimeout,
       LogonTimeout, Lose, CanLose, Running
  <2>2. UnheldUtIsAsking
    BY OrderlyAsks, Zenon DEF AskInv, Inv
  <2>3. UnheldUtIsAsking' /\ aborted' # "NO"
    BY <1>1, <2>1, <2>2 DEF UnheldUtIsAsking, vars, moduleVars, nccVars, macVars, HasUt
  <2> QED BY <2>3 DEF AskInv
<1>2. CASE aborted = "NO"
  <2>0. Orderly
    BY <1>2, Zenon DEF AskInv
  <2> SUFFICES ASSUME ~(DoFrameStart /\ GiveUp), ~ReceiveHandoverRecommendation
               PROVE  Orderly'
    BY <1>2, <2>0, GiveUpAsks, GatewayAsks, Zenon DEF AskInv
  <2>1. CASE DoFrameStart
    BY <2>0, <2>1, ApplyAsks, CheckBeamAsks, SendLogonAsks, TxDisabledAsks DEF DoFrameStart
  <2>2. CASE DoTransmit \/ DoSlottedAlohaTransmit
    BY <2>0, <2>2, TransmitAsks
  <2>3. CASE ReceiveTimu
    BY <2>0, <2>3, TimuAsks
  <2>4. CASE TransferUt \/ ReceiveLogon \/ ReceiveLogonResponse
    BY <1>2, <2>0, <2>4, TransferAsks, LogonAsks, ResponseAsks
  <2>5. CASE Lose \/ Move \/ RequestTimeout
    BY <2>0, <2>5, LoseAsks, EnvironmentAsks
  <2>6. CASE \/ AssignNewSatChannels \/ ReceiveTbtp \/ Schedule \/ LogonTimeout
             \/ UNCHANGED vars
    <3>1. UNCHANGED <<position, m_askedBeamId, m_hasPendingRequest, timedOut, ctrlQueue,
                      m_utInfos, timus, moves, m_beamId, m_handoverMessagesCount, m_loggedOn,
                      m_timuInfo, hrs, logons, responses>>
      BY <2>6 DEF AssignNewSatChannels, ReceiveTbtp, Schedule, LogonTimeout, vars, macVars,
         moduleVars, nccVars, airVars
    <3>2. /\ reconfiguring' => reconfiguring
          /\ m_handoverState' \in {m_handoverState, "NO_HANDOVER"}
      BY <2>6 DEF AssignNewSatChannels, ReceiveTbtp, Schedule, LogonTimeout, vars, macVars
    <3>3. OneLogon'
      <4>1. CASE UNCHANGED logonWait
        BY <2>0, <3>1, <4>1, LogonKept DEF Orderly
      <4>2. CASE LogonTimeout
        <5>1. logons = {} /\ responses = {}
          BY <4>2 DEF LogonTimeout, TimuArrives
        <5> QED BY <3>1, <5>1 DEF OneLogon
      <4> QED BY <2>6, <4>1, <4>2
              DEF AssignNewSatChannels, ReceiveTbtp, Schedule, vars, macVars
    <3>4. /\ NoRequest => NoRequest'
          /\ RequestInQueue \/ RequestOnAir => (RequestInQueue \/ RequestOnAir)'
      BY <3>1 DEF NoRequest, RequestInQueue, RequestOnAir, StaleInQueue, StaleOnAir
    <3>5. /\ AskedFor => AskedFor'
          /\ Busy' => Busy
          /\ ctrlQueue = <<>> => ctrlQueue' = <<>>
      BY <3>1 DEF AskedFor, Busy
    <3> QED BY <2>0, <3>1, <3>2, <3>3, <3>4, <3>5, OrderlyKept
  <2> QED BY <2>1, <2>2, <2>3, <2>4, <2>5, <2>6 DEF Next, UtNext, NccNext
<1> QED BY <1>1, <1>2

\* A UT whose beam does not hold it is never left silent, with a logon channel or
\* without: either its request for the beam that holds it is still pending, or the
\* transfer to its beam is scheduled.  No handover delay, no loss of
\* recommendations, logons and their answers, and no value that m_hasPendingRequest
\* starts with gets it there, and a recommendation that outlives a log off ends the
\* simulation before it can.
THEOREM UnheldUtAsks ==
  ASSUME TimuArrives PROVE Spec => []UnheldUtIsAsking
<1>1. Init => AskInv
  <2> SUFFICES ASSUME Init PROVE Orderly
    BY DEF AskInv
  <2>1. NoRequest /\ NoTimu /\ moves = <<>> /\ OneLogon
    BY DEF Init, ModuleInit, NoRequest, NoTimu, OneLogon
  <2>2. Waits
    BY DEF Init, ModuleInit, Waits, Busy
  <2>3. m_loggedOn => Free
    BY <2>1 DEF Init, Free, Arrived, HasUt
  <2> QED BY <2>1, <2>2, <2>3 DEF Orderly, LoggedOff, Init
<1>2. Inv /\ AskInv /\ [Next]_vars => AskInv'
  BY AskStep
<1>3. Inv /\ AskInv => UnheldUtIsAsking
  BY OrderlyAsks, Zenon DEF AskInv, Inv
<1> QED BY <1>1, <1>2, <1>3, HandoverInvariant, PTL DEF Spec
=============================================================================
