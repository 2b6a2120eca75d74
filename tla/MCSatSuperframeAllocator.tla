---------------------- MODULE MCSatSuperframeAllocator ----------------------
EXTENDS SatSuperframeAllocator

CONSTANTS u1, u2, u3

MCTarget == <<9, 10>>
MCBursts == <<2, 3>>
Zero == [rbdc |-> 0, vbdc |-> 0]

\* u1 has a constant rate, the others a minimum one.
MCRates ==
  [ut \in Ut |-> [i \in Rc |-> [cra |-> IF i = 0 /\ ut = u1 THEN 3 ELSE 0,
                               minRbdc |-> IF i = 0 /\ ut # u1 THEN 4 ELSE 0]]]

MCDemands == {[i \in Rc |-> IF i = 0 THEN [Zero EXCEPT !.rbdc = r] ELSE [Zero EXCEPT !.vbdc = v]] :
                r \in {0, 4}, v \in {0, 7}}

MCRaChannels == <<[frame |-> "ra", count |-> 2], [frame |-> "ra", count |-> 3]>>

\* Bound: only u1 has control slots, a superframe starts with all UTs or u1 alone,
\* and u3 is allocated last.
Bounded ==
  phase = "idle" /\ phase' = "allocate" =>
    /\ m_utInfos \in {Ut, {u1}}
    /\ \A ut \in m_utInfos \ {u1} : ~requests'[ut].ctrl
    /\ \A i \in DOMAIN toAllocate' : toAllocate'[i] = u3 => i = Len(toAllocate')

MCSpec == Init /\ [][Next /\ Bounded]_vars
=============================================================================
