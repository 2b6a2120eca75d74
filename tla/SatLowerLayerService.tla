------------------------ MODULE SatLowerLayerService ------------------------
(***************************************************************************)
(* The configuration of the services of a UT, each a request class (RC)    *)
(* with a queue of its own, known to the UT and to the NCC.                *)
(*                                                                         *)
(* A rate is given in bytes per superframe.                                *)
(***************************************************************************)
EXTENDS Integers, FiniteSets

CONSTANTS
  Rc,                        \* the request classes
  LlsConf,                   \* Rc -> Service
  DynamicRatePersistence,    \* superframes that a requested rate is kept
  VolumeBacklogPersistence,  \* superframes that a requested volume is kept
  W16                        \* values of a uint16_t

Service == [rbdcAllowed : BOOLEAN, volumeAllowed : BOOLEAN,
            constantAssignmentProvided : BOOLEAN, constantServiceRate : Nat,
            minimumServiceRate : Nat, maximumServiceRate : Nat, maximumBacklog : Nat]

\* DoEvaluation ends the simulation for a service with both kinds of request,
\* DoRbdcLegacy for one that is provided more than its maximum.
ASSUME ServiceAssumption ==
  /\ IsFiniteSet(Rc) /\ LlsConf \in [Rc -> Service]
  /\ \A rc \in Rc :
       /\ ~(LlsConf[rc].rbdcAllowed /\ LlsConf[rc].volumeAllowed)
       /\ LlsConf[rc].constantAssignmentProvided =>
            LlsConf[rc].constantServiceRate <= LlsConf[rc].maximumServiceRate
  /\ DynamicRatePersistence \in Nat \ {0}
  /\ VolumeBacklogPersistence \in Nat \ {0}
  /\ W16 \in Nat \ {0}

\* GetCraInKbps.
Cra(rc) == IF LlsConf[rc].constantAssignmentProvided THEN LlsConf[rc].constantServiceRate ELSE 0

AtMost(bound, n) == IF n <= bound THEN n ELSE bound
AtLeast(bound, n) == IF n >= bound THEN n ELSE bound
=============================================================================
