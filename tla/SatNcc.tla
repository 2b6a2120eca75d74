------------------------------- MODULE SatNcc -------------------------------
(***************************************************************************)
(* The network control center's view of one user terminal: the beam        *)
(* schedulers that hold it, and the transfers between them                 *)
(* (src/model/satellite-ncc.cc, src/model/satellite-beam-scheduler.cc).    *)
(***************************************************************************)
EXTENDS SatUtHandoverModule

VARIABLES
    m_utInfos,   \* the beams whose scheduler holds the UT
    moves,       \* the DoMoveUtBetweenBeams events that are scheduled
    timus,       \* TIM-U messages on the forward link
    aborted      \* "NO", or the fatal error that ended the simulation

nccVars == <<m_utInfos, moves, timus, aborted>>

Fatals == {"NO", "INCONSISTENT_HANDOVER", "NOT_IN_SOURCE", "ALREADY_ADDED",
           "UNKNOWN_BEAM"}

\* A TIM-U is sent in the beam via and allocates the UT to a beam.
Timus == [via : Existing, beam : Existing]
Moves == [src : Existing, dest : Existing]

NccTypeOK ==
    /\ m_utInfos \subseteq Existing
    /\ moves \in Seq(Moves)
    /\ timus \subseteq Timus
    /\ aborted \in Fatals

HasUt(beam) == beam \in m_utInfos

\* SatBeamScheduler::SendTo drops a message to a UT the scheduler does not hold.
SendTo(via, beam) ==
    timus' = IF HasUt(via) THEN timus \cup {[via |-> via, beam |-> beam]} ELSE timus

----------------------------------------------------------------------------
\* SatNcc::MoveUtBetweenBeams (src, dest), its branches in the order of the code.
\* The gateway that calls it serves src, so the scheduler of src exists.

CancelHandover(src, dest) ==
    /\ dest \notin Existing
    /\ SendTo(src, src)
    /\ UNCHANGED <<m_utInfos, moves, aborted>>

\* Mutant: the UT is moved and not told.
PerformHandoverUntold(src, dest) ==
    /\ dest \in Existing /\ HasUt(src) /\ ~HasUt(dest)
    /\ moves' = Append(moves, [src |-> src, dest |-> dest])
    /\ UNCHANGED <<m_utInfos, timus, aborted>>

PerformHandover(src, dest) ==
    /\ dest \in Existing /\ HasUt(src) /\ ~HasUt(dest)
    /\ SendTo(src, dest)
    /\ moves' = Append(moves, [src |-> src, dest |-> dest])
    /\ UNCHANGED <<m_utInfos, aborted>>

HandoverAlreadyPerformed(src, dest) ==
    /\ dest \in Existing /\ ~HasUt(src) /\ HasUt(dest)
    /\ SendTo(src, dest)
    /\ UNCHANGED <<m_utInfos, moves, aborted>>

InconsistentHandover(src, dest) ==
    /\ dest \in Existing /\ (HasUt(src) <=> HasUt(dest))
    /\ aborted' = "INCONSISTENT_HANDOVER"
    /\ UNCHANGED <<m_utInfos, moves, timus>>

MoveUtBetweenBeams(src, dest) ==
    \/ CancelHandover(src, dest)
    \/ PerformHandover(src, dest)
    \/ HandoverAlreadyPerformed(src, dest)
    \/ InconsistentHandover(src, dest)

\* Mutants: the source keeps the UT; the destination does not get it.
TransferUtKept(src, dest) ==
    m_utInfos' = m_utInfos \cup {dest} /\ UNCHANGED aborted
TransferUtDropped(src, dest) ==
    m_utInfos' = m_utInfos \ {src} /\ UNCHANGED aborted

\* SatBeamScheduler::TransferUtToBeam: add to the destination, which must not
\* hold the UT yet, then remove from the source; a UT the source has already
\* lost must be in the destination.
TransferUtToBeam(src, dest) ==
    \/ /\ HasUt(src) /\ ~HasUt(dest)
       /\ m_utInfos' = (m_utInfos \cup {dest}) \ {src}
       /\ UNCHANGED aborted
    \/ /\ HasUt(src) /\ HasUt(dest)
       /\ aborted' = "ALREADY_ADDED"
       /\ UNCHANGED m_utInfos
    \/ /\ ~HasUt(src)
       /\ aborted' = IF HasUt(dest) THEN aborted ELSE "NOT_IN_SOURCE"
       /\ UNCHANGED m_utInfos

DoMoveUtBetweenBeams ==
    /\ moves # <<>>
    /\ TransferUtToBeam(Head(moves).src, Head(moves).dest)
    /\ moves' = Tail(moves)
    /\ UNCHANGED timus

\* SatNcc::AddUt with verifyExisting, as a logon calls it: the answer goes out
\* only when the UT is new in the beam.
\* (Mutant: asked once the UT has been added.)
AnswersLogonLate(beam) == ~(beam \in m_utInfos \cup {beam})
AnswersLogon(beam) == ~HasUt(beam)

AddUt(beam) ==
    /\ m_utInfos' = m_utInfos \cup {beam}
    /\ UNCHANGED <<moves, timus, aborted>>
=============================================================================
