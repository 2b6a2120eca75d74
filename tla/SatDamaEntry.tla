---------------------------- MODULE SatDamaEntry ----------------------------
(***************************************************************************)
(* What the NCC knows of the capacity one UT has asked for: the DAMA entry *)
(* (SatDamaEntry) and the capacity requests that wait for the next         *)
(* superframe (SatUtInfo of the beam scheduler).                           *)
(***************************************************************************)
EXTENDS SatLowerLayerService, Sequences, SequencesExt

VARIABLES
  m_dynamicRateRequested,      \* Rc -> rate
  m_volumeBacklogRequested,    \* Rc -> bytes
  m_dynamicRatePersistence,    \* superframes left
  m_volumeBacklogPersistence,  \* superframes left
  m_crContainer                \* requests received since the last superframe

damaVars == <<m_dynamicRateRequested, m_volumeBacklogRequested, m_dynamicRatePersistence,
              m_volumeBacklogPersistence, m_crContainer>>

\* A request: the category and the value of each service that asks.
Categories == {"RBDC", "VBDC", "AVBDC"}
Element == [cac : Categories, value : Nat]

Asks(cr, rc, cacs) == rc \in DOMAIN cr /\ cr[rc].cac \in cacs

DamaInit ==
  /\ m_dynamicRateRequested = [rc \in Rc |-> 0]
  /\ m_volumeBacklogRequested = [rc \in Rc |-> 0]
  /\ m_dynamicRatePersistence = 0
  /\ m_volumeBacklogPersistence = 0
  /\ m_crContainer = <<>>

\* GetMinRbdcInKbps, given the superframes the rate is still kept.
GetMinRbdc(rc, persistence) ==
  IF LlsConf[rc].rbdcAllowed /\ persistence > 0
  THEN AtLeast(LlsConf[rc].minimumServiceRate, Cra(rc)) ELSE 0

\* The rate that UpdateRbdcInKbps keeps.  Above the maximum it takes off the
\* configured constant rate even of a service that is provided none.
RateKept(rc, rate) ==
  IF ~LlsConf[rc].rbdcAllowed THEN m_dynamicRateRequested[rc]
  ELSE IF Cra(rc) + rate < GetMinRbdc(rc, DynamicRatePersistence)
    THEN GetMinRbdc(rc, DynamicRatePersistence) - Cra(rc)
  ELSE IF Cra(rc) + rate > LlsConf[rc].maximumServiceRate
    THEN AtLeast(0, LlsConf[rc].maximumServiceRate - LlsConf[rc].constantServiceRate)
  ELSE rate

\* UpdateVbdcInBytes for VBDC, SetVbdcInBytes for AVBDC.
WithVolume(backlog, element, rc) ==
  IF ~LlsConf[rc].volumeAllowed THEN backlog
  ELSE AtMost(LlsConf[rc].maximumBacklog,
              (IF element.cac = "VBDC" THEN backlog ELSE 0) + element.value)

\* UpdateDamaEntryFromCrs: volumes are applied in the order the requests were
\* received, rates of the same service are summed up in a uint16_t.
VolumeFromCrs(rc) ==
  FoldLeft(LAMBDA backlog, cr : IF Asks(cr, rc, {"VBDC", "AVBDC"})
                                THEN WithVolume(backlog, cr[rc], rc) ELSE backlog,
           m_volumeBacklogRequested[rc], m_crContainer)

RateFromCrs(rc) ==
  FoldLeft(LAMBDA sum, cr : IF Asks(cr, rc, {"RBDC"}) THEN (sum + cr[rc].value) % W16 ELSE sum,
           0, m_crContainer)

AnyAsks(rc, cacs) == \E i \in DOMAIN m_crContainer : Asks(m_crContainer[i], rc, cacs)

RequestedRate(rc) ==
  IF AnyAsks(rc, {"RBDC"}) THEN RateKept(rc, RateFromCrs(rc)) ELSE m_dynamicRateRequested[rc]

\* Mutant: every superframe renews the persistence.
RatePersistenceRenewed == DynamicRatePersistence

RatePersistence ==
  IF \E rc \in Rc : AnyAsks(rc, {"RBDC"}) THEN DynamicRatePersistence ELSE m_dynamicRatePersistence

VolumePersistence ==
  IF \E rc \in Rc : AnyAsks(rc, {"VBDC", "AVBDC"})
  THEN VolumeBacklogPersistence ELSE m_volumeBacklogPersistence

\* UpdateDamaEntriesWithReqs: what the frame allocator is asked for.
CapacityRequested(rc) == Cra(rc) + RequestedRate(rc) + VolumeFromCrs(rc)

\* UpdateDamaEntriesWithAllocs: the rates are served first, and what exceeds
\* them is taken off the volume.
VolumeLeft(rc, alloc) ==
  LET rateBased == Cra(rc) + RequestedRate(rc)
  IN  AtLeast(0, VolumeFromCrs(rc) - AtLeast(0, alloc[rc] - rateBased))

\* One superframe of the beam scheduler for this UT, given what the frame
\* allocator allocates.
ScheduleUt(alloc) ==
  /\ m_dynamicRatePersistence' = AtLeast(0, RatePersistence - 1)
  /\ m_volumeBacklogPersistence' = AtLeast(0, VolumePersistence - 1)
  /\ m_dynamicRateRequested' =
       [rc \in Rc |-> IF RatePersistence > 1 THEN RequestedRate(rc) ELSE 0]
  /\ m_volumeBacklogRequested' =
       [rc \in Rc |-> IF VolumePersistence > 1 THEN VolumeLeft(rc, alloc) ELSE 0]
  /\ m_crContainer' = <<>>

\* UtCrReceived, for a UT that is in the beam.
AddCrMsg(cr) ==
  /\ m_crContainer' = Append(m_crContainer, cr)
  /\ UNCHANGED <<m_dynamicRateRequested, m_volumeBacklogRequested,
                 m_dynamicRatePersistence, m_volumeBacklogPersistence>>

\* TransferUtToBeam takes the entry to the new beam and drops the requests.
ClearCrMsgs ==
  /\ m_crContainer' = <<>>
  /\ UNCHANGED <<m_dynamicRateRequested, m_volumeBacklogRequested,
                 m_dynamicRatePersistence, m_volumeBacklogPersistence>>
=============================================================================
