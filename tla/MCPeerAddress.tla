----------------------------- MODULE MCPeerAddress -----------------------------
(* Two gates, two clients at the first and one at the second; small, coinciding *)
(* and extreme channel indexes.                                                 *)
EXTENDS PeerAddress

MCGate == {"g1", "g2"}
MCClient == {"c1", "c2", "c3"}
MCGateOf == [c \in MCClient |-> IF c = "c3" THEN "g2" ELSE "g1"]
MCCenterIndex == {1, 2, 255}
MCGuestIndex == {1, 2, 255, 1023}
================================================================================
