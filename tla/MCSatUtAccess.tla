--------------------------- MODULE MCSatUtAccess ---------------------------
EXTENDS SatUtAccess

CONSTANTS
  InUse,  \* channels that the UT may use
  ModelsInUse

MCMaxConsecutive == [c \in Channel |-> IF c = 0 THEN 2 ELSE 3]
MCMinIdle == [c \in Channel |-> 1]
MCBackoffTime == [default |-> 0, low |-> 0, high |-> N + 1]

\* Bounds: the load changes at the start of a superframe, on channel 0.
MCInit == Init /\ m_raChannel \in InUse /\ m_randomAccessModel \in ModelsInUse
Bounded ==
  m_isLowRandomAccessLoad' # m_isLowRandomAccessLoad =>
    now = 0 /\ \A c \in Channel \ {0} : m_isLowRandomAccessLoad'[c]
MCSpec == MCInit /\ [][Next /\ Bounded]_vars
=============================================================================
