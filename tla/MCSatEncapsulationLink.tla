----------------------- MODULE MCSatEncapsulationLink -----------------------
EXTENDS SatEncapsulationLink

CONSTANTS
  MaxAccepted,  \* bound: packets that are queued
  MaxOnAir      \* bound: PDUs on their way

\* The real header sizes are 11, 11, 3 and 8 bytes for GSE and 2, 4, 2 and 2 for
\* RLE; what matters is which of them are larger than which.
MCGse ==
  [recalculates |-> FALSE,
   header |-> [FULL_PDU |-> 2, START_PDU |-> 2, CONTINUATION_PDU |-> 1, END_PDU |-> 2],
   maxPduSize |-> 5, maxFragmentId |-> 2, maxHlPduSize |-> 8, totalLengths |-> 8]

MCRle ==
  [recalculates |-> TRUE,
   header |-> [FULL_PDU |-> 1, START_PDU |-> 2, CONTINUATION_PDU |-> 1, END_PDU |-> 1],
   maxPduSize |-> 4, maxFragmentId |-> 2, maxHlPduSize |-> 8, totalLengths |-> 8]

MCEncapsulations == {MCGse, MCRle}

Bounded ==
  /\ Len(accepted') <= MaxAccepted
  /\ Len(channel') <= MaxOnAir

\* The MAC schedulers go on giving opportunities to a connection with a
\* non-empty queue, some larger than any header; what is on its way arrives.
MCSpec ==
  /\ LinkInit
  /\ [][LinkNext /\ Bounded]_linkVars
  /\ WF_linkVars(Arrive)
  /\ \E bytes \in TxOpportunities :
       /\ \A other \in TxOpportunities : other <= bytes
       /\ WF_linkVars(NotifyTxOpportunity(bytes) /\ Len(channel) < MaxOnAir)

\* Every packet that was queued comes out, unless one of its PDUs is lost: a
\* segment that is cut again and again gets shorter, and nothing in the queue
\* blocks what is behind it.
EveryPacketResolved ==
  \A p \in 1 .. MaxAccepted :
    p \in DOMAIN accepted ~> p \in damaged \/ Deliveries(p) # {}
=============================================================================
