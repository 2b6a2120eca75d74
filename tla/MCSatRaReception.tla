-------------------------- MODULE MCSatRaReception --------------------------
(***************************************************************************)
(* Two UTs of the beam and one of another beam that uses the same carrier. *)
(* The levels are such that the stronger UT is decoded through the weaker, *)
(* and may or may not be through both others; the weaker is decoded        *)
(* through the one of the other beam, never through the stronger.          *)
(***************************************************************************)
EXTENDS SatRaReception

CONSTANTS a, b, f

MCRxPower == [s \in Sender |-> CASE s = a -> 6 [] s = b -> 3 [] OTHER -> 1]
MCSlot == 0 .. 3
MCMaxEssaPackets == [s \in Sender |-> IF s = f THEN 1 ELSE 2]
MCMaxFramePackets ==
  <<[s \in Sender |-> IF s = a THEN 2 ELSE 1], [s \in Sender |-> IF s = a THEN 0 ELSE 1]>>
=============================================================================
