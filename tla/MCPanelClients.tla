--------------------------- MODULE MCPanelClients ---------------------------
(* One client over two inbounds, one of which strips the flow, a third     *)
(* port to move to, and one date next to "never".                          *)
EXTENDS PanelClients, TLC

CONSTANTS a1, a2, i1, i2, p1, p2, p3

MCInbounds == {i1, i2}
MCEligible == {i1}
MCPorts == {p1, p2, p3}
MCAdmins == {a1, a2}
MCSymmetry == Permutations(MCPorts) \cup Permutations(MCAdmins)

MCFailing == {"create", "update", "attach", "detach", "clientsList", "fallbackList",
              "setFlow", "inbounds", "inboundsAgain", "inboundsOnce"}
=============================================================================
