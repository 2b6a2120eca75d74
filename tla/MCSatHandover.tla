---------------------------- MODULE MCSatHandover ----------------------------
(* Small instances of SatHandover: three beams in a row, the third served by  *)
(* another gateway, and the positions in them.                                *)
EXTENDS SatHandover

CONSTANTS b1, b2, b3, none, g1, g2, p1, p2, p3

MCBeams == {b1, b2, b3}
MCExisting == MCBeams
MCTwo == {b1, b2}
\* One beam has UTs of its own; with two beams this UT is alone.
MCPopulated == {b2}
MCEmpty == {}
MCGateways == {g1, g2}
MCGwOf == (b1 :> g1) @@ (b2 :> g1) @@ (b3 :> g2)
MCGwOfTwo == (b1 :> g1) @@ (b2 :> g2)
MCPositions == {p1, p2, p3}
MCTwoPositions == {p1, p2}
MCValid == (p1 :> {b1}) @@ (p2 :> {b2}) @@ (p3 :> {b3})
MCValidTwo == (p1 :> {b1}) @@ (p2 :> {b2})
MCBest == (p1 :> b1) @@ (p2 :> b2) @@ (p3 :> b3)
MCBestTwo == (p1 :> b1) @@ (p2 :> b2)
MCNotPending == {FALSE}
MCBothTechniques == {"SLOTTED_ALOHA", "CRDSA"}
MCAloha == {"SLOTTED_ALOHA"}
MCLoss(hr, timu, tbtp, logon, response) ==
    ("HR" :> hr) @@ ("TIMU" :> timu) @@ ("TBTP" :> tbtp) @@ ("LOGON" :> logon)
      @@ ("LOGON_RESPONSE" :> response)
MCLossHr == MCLoss(1, 0, 1, 0, 0)
MCLossLogon == MCLoss(1, 0, 0, 1, 0)
=============================================================================
