-------------------------- MODULE MCGatewayRegistry --------------------------
(* One Agent with two Gateways (k1, k2) and three connection slots: a      *)
(* route, the connection that replaces it, and the candidate of a claim.   *)
(* Two slots are enough where a route and its replacement are all a        *)
(* question needs.                                                         *)
EXTENDS GatewayRegistry, TLC

CONSTANTS a1, g1, g2, c1, c2, c3

MCAgents == {a1}
MCGateways == {g1, g2}
k1 == [agent |-> a1, gateway |-> g1, token |-> 1]
k2 == [agent |-> a1, gateway |-> g2, token |-> 1]
MCCredentials == {k1, k2}
MCConnections == {c1, c2, c3}
MCTwoSlots == {c1, c2}

Slots == Permutations(MCConnections)
=============================================================================
