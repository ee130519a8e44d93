--------------------------- MODULE MCClientEventHub ---------------------------
(* A scope with a client that may reconnect while its old socket is still  *)
(* there, and a second scope nobody follows; there is room for one journal *)
(* of two small events, or of one that Gateways repeat.                     *)
EXTENDS ClientEventHub

CONSTANTS a1, a2, c1, e1, s1, s2

MCScopes == {a1, a2}
MCClients == {c1}
MCScopeOf == [c \in MCClients |-> a1]
MCIds == {e1}
MCSlots == {s1, s2}
small == [id |-> Fresh, size |-> 1]
repeated == [id |-> e1, size |-> 2]
MCEvents == [a \in MCScopes |-> IF a = a1 THEN {small, repeated} ELSE {small}]
MCCursor == [a \in MCScopes |-> IF a = a1 THEN 3 ELSE 1]
=============================================================================
