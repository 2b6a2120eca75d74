-------------------------- MODULE SatRequestManager --------------------------
(***************************************************************************)
(* The request manager of a UT: every evaluation interval it asks the NCC  *)
(* for the rate (RBDC) or for the volume (VBDC) that each service needs,   *)
(* from the statistics of the service's queue and from what it has asked   *)
(* for and been assigned since.                                            *)
(*                                                                         *)
(* Time is counted in evaluation intervals, which are taken to be as long  *)
(* as a superframe; a rate is given in bytes per interval.                 *)
(***************************************************************************)
EXTENDS SatLowerLayerService, Sequences, Functions, FiniteSetsExt

CONSTANTS
  OverEstimation,  \* m_overEstimationFactor, as <<numerator, denominator>>
  Rtt,             \* m_rttEstimate, in intervals
  NumValues,       \* m_numValues
  ScalingFactors,  \* m_rbdcScalingFactors and m_vbdcScalingFactors, increasing
  MaxElapsed       \* bound: evaluations that are skipped in a row, plus one

ASSUME RequestManagerAssumption ==
  /\ OverEstimation \in (Nat \X (Nat \ {0}))
  /\ Rtt \in Nat \ {0}
  /\ NumValues \in Nat \ {0}
  /\ ScalingFactors \in Seq(Nat \ {0})
  /\ MaxElapsed \in Nat \ {0}

VARIABLES
  queueBytes,                  \* Rc -> m_queueSizeBytes of the queue
  volumeIn,                    \* Rc -> m_volumeInBytes since the last evaluation
  m_pendingVbdcBytes,          \* Rc -> bytes asked for and not assigned yet
  m_assignedDaResourcesBytes,  \* Rc -> bytes assigned since the last evaluation
  m_pendingRbdcRequests,       \* Rc -> the rates asked for in the last Rtt intervals
  elapsed,                     \* intervals since m_previousEvaluationTime
  sinceVbdcCr                  \* intervals since m_lastVbdcCrSent, up to the persistence

managerVars == <<queueBytes, volumeIn, m_pendingVbdcBytes, m_assignedDaResourcesBytes,
                 m_pendingRbdcRequests, elapsed, sinceVbdcCr>>

ManagerInit ==
  /\ queueBytes = [rc \in Rc |-> 0]
  /\ volumeIn = [rc \in Rc |-> 0]
  /\ m_pendingVbdcBytes = [rc \in Rc |-> 0]
  /\ m_assignedDaResourcesBytes = [rc \in Rc |-> 0]
  /\ m_pendingRbdcRequests = [rc \in Rc |-> [i \in 1 .. Rtt |-> 0]]
  /\ elapsed = 1
  /\ sinceVbdcCr = 1

OverEstimated(bytes) == (OverEstimation[1] * bytes) \div OverEstimation[2]

\* GetQuantizedRbdcValue and GetQuantizedVbdcValue take and return a uint16_t.
Quantized(maximum) ==
  [value \in Nat |->
     LET request == value % W16
         fits == {i \in DOMAIN ScalingFactors : request <= ScalingFactors[i] * NumValues}
         factor == ScalingFactors[Min(fits)]
     IN  (IF request > maximum THEN maximum ELSE ((request + factor - 1) \div factor) * factor) % W16]

GetPendingRbdcSum(rc) == MapThenSumSet(LAMBDA i : m_pendingRbdcRequests[rc][i], 1 .. Rtt)

\* DoRbdcLegacy: the rate at which bytes came in, and what the queue holds
\* beyond them and beyond what was asked for during a round trip.
RbdcRequest(rc) ==
  LET conf == LlsConf[rc]
      in == OverEstimated(volumeIn[rc])
      queueOccupancy == AtLeast(0, queueBytes[rc] - in - GetPendingRbdcSum(rc) * elapsed)
      beyondCra == AtLeast(0, in + queueOccupancy - Cra(rc) * elapsed) \div elapsed
  IN  Quantized(conf.maximumServiceRate)[AtMost(conf.maximumServiceRate - Cra(rc), beyondCra)]

\* UpdatePendingVbdcCounters.
StillPending(rc) == AtLeast(0, m_pendingVbdcBytes[rc] - m_assignedDaResourcesBytes[rc])

\* Mutant: a request is never repeated.
NeverForced == FALSE

\* CheckForVolumeBacklogPersistence.
ForcedAvbdcUpdate ==
  /\ sinceVbdcCr > VolumeBacklogPersistence - 1
  /\ \E rc \in Rc : StillPending(rc) > 0

\* What DoVbdcLegacy asks for to transport these bytes.
VolumeFor(rc, bytes) ==
  LET beyondCra == OverEstimated(bytes) - Cra(rc) * elapsed
  IN  IF beyondCra > 0 THEN Quantized(LlsConf[rc].maximumBacklog)[beyondCra] ELSE 0

\* DoVbdcLegacy asks for the whole queue when a request is due again, or when
\* all that was asked for is taken to have been assigned.
CountsAfresh(rc) == ForcedAvbdcUpdate \/ (volumeIn[rc] > 0 /\ StillPending(rc) = 0)

\* The category and value of DoVbdcLegacy: otherwise it asks for what came in.
VbdcRequest(rc) ==
  IF CountsAfresh(rc) THEN [cac |-> "AVBDC", value |-> VolumeFor(rc, queueBytes[rc])]
  ELSE [cac |-> "VBDC", value |-> VolumeFor(rc, volumeIn[rc])]

\* What a request asks for a service in these categories.
Value(cr, rc, cacs) == IF rc \in DOMAIN cr /\ cr[rc].cac \in cacs THEN cr[rc].value ELSE 0

\* Mutant: a VBDC request replaces what is pending.
PendingReplaced(rc, cr) == Value(cr, rc, {"VBDC", "AVBDC"})

\* GetAvbdcBytes counts afresh, GetVbdcBytes adds.
PendingAfter(rc, cr) ==
  (IF CountsAfresh(rc) THEN 0 ELSE StillPending(rc)) + Value(cr, rc, {"VBDC", "AVBDC"})

Request(rc) ==
  IF LlsConf[rc].rbdcAllowed THEN [cac |-> "RBDC", value |-> RbdcRequest(rc)]
  ELSE IF LlsConf[rc].volumeAllowed THEN VbdcRequest(rc)
  ELSE [cac |-> "RBDC", value |-> 0]

\* The request that DoEvaluation sends, without elements of value 0.
CapacityRequest == [rc \in {asking \in Rc : Request(asking).value > 0} |-> Request(rc)]

Shifted(window, newest) == [i \in 1 .. Rtt |-> IF i = 1 THEN newest ELSE window[i - 1]]

AfterInterval(intervals) == AtMost(VolumeBacklogPersistence, intervals + 1)

\* DoEvaluation, when a control message can be sent, with the request it sends.
DoEvaluation(cr) ==
  /\ volumeIn' = [rc \in Rc |-> 0]
  /\ m_pendingVbdcBytes' =
       [rc \in Rc |-> IF LlsConf[rc].volumeAllowed THEN PendingAfter(rc, cr) ELSE StillPending(rc)]
  /\ m_assignedDaResourcesBytes' = [rc \in Rc |-> 0]
  /\ m_pendingRbdcRequests' =
       [rc \in Rc |-> Shifted(m_pendingRbdcRequests[rc], Value(cr, rc, {"RBDC"}))]
  /\ elapsed' = 1
  /\ sinceVbdcCr' = IF \E rc \in Rc : Value(cr, rc, {"VBDC", "AVBDC"}) > 0 THEN 1
                    ELSE AfterInterval(sinceVbdcCr)
  /\ UNCHANGED queueBytes

\* DoEvaluation, when no control message can be sent: only time passes.
SkipEvaluation ==
  /\ elapsed < MaxElapsed
  /\ elapsed' = elapsed + 1
  /\ sinceVbdcCr' = AfterInterval(sinceVbdcCr)
  /\ m_pendingRbdcRequests' = [rc \in Rc |-> Shifted(m_pendingRbdcRequests[rc], 0)]
  /\ UNCHANGED <<queueBytes, volumeIn, m_pendingVbdcBytes, m_assignedDaResourcesBytes>>

\* A packet enters the queue of a service.
EnquePacket(rc, bytes) ==
  /\ queueBytes' = [queueBytes EXCEPT ![rc] = @ + bytes]
  /\ volumeIn' = [volumeIn EXCEPT ![rc] = @ + bytes]
  /\ UNCHANGED <<m_pendingVbdcBytes, m_assignedDaResourcesBytes, m_pendingRbdcRequests,
                 elapsed, sinceVbdcCr>>

\* AssignedDaResources, called by the MAC for the slots of a TBTP.
AssignedDaResources(bytes) ==
  /\ m_assignedDaResourcesBytes' = [rc \in Rc |-> m_assignedDaResourcesBytes[rc] + bytes[rc]]
  /\ UNCHANGED <<queueBytes, volumeIn, m_pendingVbdcBytes, m_pendingRbdcRequests,
                 elapsed, sinceVbdcCr>>

\* Bytes leave the queue.
Dequeue(bytes) ==
  /\ queueBytes' = [rc \in Rc |-> queueBytes[rc] - bytes[rc]]
  /\ UNCHANGED <<volumeIn, m_pendingVbdcBytes, m_assignedDaResourcesBytes,
                 m_pendingRbdcRequests, elapsed, sinceVbdcCr>>
=============================================================================
