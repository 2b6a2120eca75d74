-------------------------- MODULE MCSatForwardLink --------------------------
EXTENDS SatForwardLink

CONSTANTS
  UsedModes,      \* usage modes with the default scheduler
  NumbersOfSlices,
  Arq,
  Reporting,      \* UTs that report (bound)
  WithoutControl, \* usage modes in which no control message is queued (bound)
  MaxArqArrivals, \* packets queued with ARQ (bound)
  MaxReports      \* C/N0 reports (bound)

MCUt == {"u1", "u2"}
BroadcastData == [to |-> Broadcast, flow |-> 1]
MCConnections ==
  {Subscriptions, BroadcastData, [to |-> "u1", flow |-> 1], [to |-> "u2", flow |-> 1]}
MCBytes == [NORMAL_FRAME |-> <<7, 9, 11>>, SHORT_FRAME |-> <<4, 5, 6>>]
MCDuration == [NORMAL_FRAME |-> <<3, 3, 2>>, SHORT_FRAME |-> <<1, 1, 1>>]

VARIABLE reports

MCInit ==
  /\ Init
  /\ m_numberOfSlices \in NumbersOfSlices
  /\ mode \in IF TimeSlicing THEN {"NORMAL_FRAMES"} ELSE UsedModes
  /\ arq \in Arq /\ (arq => ~TimeSlicing /\ mode = "NORMAL_FRAMES")
  /\ reports = 0

\* Bounds: one UT reports, and with the default scheduler without ARQ only; with
\* ARQ less is queued.  Broadcast data has a connection with time slicing only: the
\* default scheduler treats it as data to a UT that never reported.  No control
\* message is queued with frames of both types, where adding one can end the
\* simulation (ReadsNoFrame).
Bounded ==
  /\ reports' = IF bestModcod' # bestModcod THEN reports + 1 ELSE reports
  /\ reports' <= IF TimeSlicing \/ arq THEN 0 ELSE MaxReports
  /\ arq => arrivals' <= MaxArqArrivals
  /\ TimeSlicing \/ buffer'[BroadcastData] = <<>>
  /\ \A u \in Ut \ Reporting : bestModcod'[u] = bestModcod[u]
  /\ mode \in WithoutControl => buffer'[Subscriptions] = <<>>
MCSpec == MCInit /\ [][Next /\ Bounded]_<<vars, reports>> /\ WF_vars(Runs /\ Bounded)
=============================================================================
