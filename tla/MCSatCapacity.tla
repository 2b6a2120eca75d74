--------------------------- MODULE MCSatCapacity ---------------------------
EXTENDS SatCapacity

CONSTANTS volume, rate, MaxRate, MaxBacklog

None == [rbdcAllowed |-> FALSE, volumeAllowed |-> FALSE, constantAssignmentProvided |-> FALSE,
         constantServiceRate |-> 0, minimumServiceRate |-> 0, maximumServiceRate |-> MaxRate,
         maximumBacklog |-> MaxBacklog]

MCLlsConf == [rc \in Rc |->
                IF rc = volume THEN [None EXCEPT !.volumeAllowed = TRUE]
                ELSE [None EXCEPT !.rbdcAllowed = TRUE, !.minimumServiceRate = 1]]

MCDouble == <<2, 1>>
MCScaling == <<1, 2, 4>>

VARIABLE active  \* the services that packets arrive for

\* Bound: one service with MaxPackets packets, lost messages and skipped
\* evaluations; or both with a packet each at the beginning, full grants, and
\* slots that are used at once.  An evaluation is skipped only when bytes have
\* come in: a rest of one byte is a rate of 0 over two intervals.  With
\* both, a report is made when it can meet a slot.  Slotted ALOHA is for a UT
\* without slots.
Bounded ==
  /\ \A rc \in Rc \ active : volumeIn'[rc] <= volumeIn[rc]
  /\ elapsed' > elapsed => \E rc \in Rc : volumeIn[rc] > 0
  /\ reports' > 0 => active = Rc
  /\ reports' > reports => tbtpChannel # <<>>
  /\ Len(controlQueue') < Len(controlQueue) /\ slots' = slots =>
       tbtpChannel = <<>> /\ \A rc \in Rc : slots[rc] = 0
  /\ active = Rc =>
       /\ faults' = 0
       /\ elapsed' = 1
       /\ packets' > packets => \E rc \in Rc : queueBytes[rc] = 0 /\ volumeIn'[rc] > 0 /\ queueBytes = volumeIn
       /\ Len(tbtpChannel') > Len(tbtpChannel) => Last(tbtpChannel') = FullGrant
       /\ (\E rc \in Rc : slots[rc] > 0) => slots' # slots

MCInit == Init /\ active \in (SUBSET Rc) \ {{}}

MCFairSpec ==
  /\ MCInit
  /\ [][Next /\ Bounded /\ UNCHANGED active]_<<vars, active>>
  /\ Fairness
=============================================================================
